------------------------- MODULE IssuePanelsProofs -------------------------
(***************************************************************************)
(* The comments and the tasks of an issue, for any issues, comments, tasks *)
(* and any number of actions and failures.                                 *)
(*                                                                         *)
(* Comments: what the page shows of an issue is what the server has once   *)
(* nothing is under way, one comment is edited at a time, no text is lost  *)
(* to the answer of another, and one click answers one question.           *)
(*                                                                         *)
(* Tasks: the page shows the tasks the server has once nothing is being    *)
(* saved.  The argument: what the page shows of a task is what the newest  *)
(* request for it will have written; while only one request is under way,  *)
(* undoing it leaves what the server has; and a failure among several is   *)
(* excused.                                                                *)
(***************************************************************************)
EXTENDS Activity, Tasks, FiniteLemmas

-----------------------------------------------------------------------------
(* The page. *)

\* Every editor shown is the one the modal knows.
OneShown(u) ==
    \A e \in u.editors : e.shown => u.editor \notin {None, New} /\ e.n = u.draft

\* Nothing of an issue is on the page.
Blank(u) == ~u.open /\ u.editor = None /\ u.draft = None /\ u.text = None /\ u.editors = {}

-----------------------------------------------------------------------------
(* What closing editors and drawing the lists does to the page. *)

\* No other issue, nothing else of it, at most less text.
Keeps(u, v) ==
    /\ v \in Page
    /\ v.open => u.open
    /\ v.issue = u.issue /\ v.view = u.view
    /\ v.page \in {u.page, u.view}
    /\ v.text \in {u.text, None}
    /\ Blank(u) => Blank(v)

Tidies(u, v) == Keeps(u, v) /\ (OneShown(u) => OneShown(v))

LEMMA TidiesSame == ASSUME NEW u \in Page PROVE Tidies(u, u)
BY DEF Tidies, Keeps

LEMMA TidiesTwice ==
    ASSUME NEW u, NEW v, NEW w, Tidies(u, v), Tidies(v, w)
    PROVE  Tidies(u, w)
BY DEF Tidies, Keeps

LEMMA RenderedTidies ==
    ASSUME NEW u \in Page
    PROVE  Keeps(u, Rendered(u)) /\ OneShown(Rendered(u)) /\ Rendered(u).page = u.view
<1> DEFINE v == Rendered(u)
           hidden == {[e EXCEPT !.shown = FALSE] : e \in u.editors}
<1>1. \A e \in u.editors : /\ [e EXCEPT !.shown = FALSE] \in Editor
                           /\ ~[e EXCEPT !.shown = FALSE].shown
  BY DEF Page, Editor
<1>2. hidden \subseteq Editor /\ \A e \in hidden : ~e.shown
  BY <1>1
<1>3. u.editors = {} => hidden = {}
  OBVIOUS
<1> HIDE DEF hidden
<1>4. /\ v \in Page
      /\ v.open = u.open /\ v.issue = u.issue /\ v.view = u.view /\ v.page = u.view
      /\ v.editor = u.editor /\ v.draft = u.draft /\ v.text = u.text /\ v.editors = hidden
  BY <1>2 DEF Rendered, Page, hidden
<1> HIDE DEF v
<1> QED
  BY <1>2, <1>3, <1>4 DEF Keeps, OneShown, Blank, v

LEMMA FinishedKeeps ==
    ASSUME NEW u \in Page, NEW n
    PROVE  /\ Keeps(u, Finished(u, n))
           /\ u.draft = n /\ OneShown(u) => OneShown(Finished(u, n))
<1> DEFINE v == Finished(u, n)
<1>1. /\ v \in Page
      /\ v.open = u.open /\ v.issue = u.issue /\ v.view = u.view /\ v.page = u.page
      /\ v.editor = None /\ v.draft = None /\ v.text = u.text
      /\ v.editors = {e \in u.editors : e.n # n}
  BY DEF Finished, Page, Drafts
<1> HIDE DEF v
<1> QED
  BY <1>1 DEF Keeps, OneShown, Blank, v

LEMMA NewFormClosedTidies ==
    ASSUME NEW u \in Page
    PROVE  Tidies(u, NewFormClosed(u))
<1> DEFINE v == NewFormClosed(u)
<1>1. /\ v \in Page
      /\ v.open = u.open /\ v.issue = u.issue /\ v.view = u.view /\ v.page = u.page
      /\ v.text = None /\ v.editors = u.editors
      /\ IF u.editor = New THEN v.editor = None /\ v.draft = None
                           ELSE v.editor = u.editor /\ v.draft = u.draft
  BY DEF NewFormClosed, Page, Drafts
<1> HIDE DEF v
<1>2. Keeps(u, v)
  BY <1>1 DEF Keeps, Blank
<1>3. OneShown(u) => OneShown(v)
  BY <1>1 DEF OneShown
<1> QED
  BY <1>2, <1>3 DEF Tidies, v

LEMMA DiscardedTidies ==
    ASSUME NEW u \in Page, NEW d
    PROVE  Tidies(u, Discarded(u, d))
<1>1. CASE d = None
  BY <1>1, TidiesSame, ActivityAssumption DEF Discarded
<1>2. CASE d # None /\ d = New
  BY <1>2, NewFormClosedTidies DEF Discarded
<1>3. CASE d # None /\ d # New
  <2> DEFINE v == Finished(u, d)
  <2>1. Keeps(u, v) /\ v \in Page
    BY FinishedKeeps DEF Keeps
  <2>2. Keeps(v, Rendered(v)) /\ OneShown(Rendered(v))
    BY <2>1, RenderedTidies
  <2>3. Discarded(u, d) = Rendered(v)
    BY <1>3 DEF Discarded
  <2> HIDE DEF v
  <2> QED
    BY <2>1, <2>2, <2>3 DEF Tidies, Keeps
<1> QED
  BY <1>1, <1>2, <1>3

LEMMA EditorsClosedTidies ==
    ASSUME NEW u \in Page
    PROVE  Tidies(u, EditorsClosed(u))
<1>1. Tidies(u, Discarded(u, u.draft)) /\ Discarded(u, u.draft) \in Page
  BY DiscardedTidies DEF Tidies, Keeps
<1> QED
  BY <1>1, NewFormClosedTidies, TidiesTwice DEF EditorsClosed

LEMMA ClosedTidies ==
    ASSUME NEW u \in Page
    PROVE  Tidies(u, Closed(u)) /\ ~Closed(u).open
<1> DEFINE v == [u EXCEPT !.open = FALSE]
<1>1. /\ v \in Page /\ ~v.open
      /\ v.issue = u.issue /\ v.view = u.view /\ v.page = u.page
      /\ v.editor = u.editor /\ v.draft = u.draft /\ v.text = u.text /\ v.editors = u.editors
  BY DEF Page
<1>2. Closed(u) = EditorsClosed(v)
  BY DEF Closed
<1> HIDE DEF v
<1>3. Tidies(u, v)
  BY <1>1 DEF Tidies, Keeps, OneShown, Blank
<1>4. Tidies(v, EditorsClosed(v))
  BY <1>1, EditorsClosedTidies
<1> QED
  BY <1>1, <1>2, <1>3, <1>4, TidiesTwice DEF Tidies, Keeps

-----------------------------------------------------------------------------
(* The invariant, by the variable each part is about. *)

PageOK ==
    /\ ui \in Page
    /\ ui.issue = None => Blank(ui)
    /\ ~excuse.late => OneShown(ui)

DialogOK ==
    /\ dialog \in [asks : Question \cup {None}, waiting : SUBSET Question,
                   refused : Question \cup {None}]
    /\ OneQuestion
    /\ \A q \in dialog.waiting : q.kind = "delete" => q.comment \in Comments

ReadsOK ==
    /\ reads \subseteq Reading
    /\ \A r \in reads : r.seq \in 1..seq /\ (r.seq = seq /\ ui.open => r.issue = ui.issue)
    /\ \A r, q \in reads : r.seq = seq /\ q.seq = seq => r = q

SaveOK(s) ==
    /\ s \in Saving
    /\ s.n \in 1..actions /\ s.seq \in 0..seq
    /\ s.kind \in {"update", "delete"} => s.comment \in Comments
    /\ s.kind = "create" => s.draft = New
    /\ s.pc # "refreshes" => s.seq = 0
    /\ s.kind = "create" /\ s.pc # "refreshes" => ui.text \in {None, s.text}
SavesOK == \A s \in saves : SaveOK(s)

RestOK ==
    /\ seq \in Nat
    /\ server \in [Issues -> View]
    /\ actions \in 0..MaxActions /\ failures \in 0..MaxFailures
    /\ excuse \in [missed : BOOLEAN, late : BOOLEAN]

\* Nothing is saved or asked before an issue is opened.
Opened == ui.issue = None => saves = {} /\ dialog.waiting = {}

\* The modal has each of the two lists, or the newest request brings it, or a save that has
\* changed it is about to ask for it.
Brings(kinds) == {r \in reads : r.seq = seq /\ r.kind \in kinds}
CommentsCurrent ==
    \/ \E s \in saves : s.pc = "saved" /\ s.kind # "field"
    \/ \E r \in Brings({"load", "comments"}) :
          r.pc = "answered" => r.view.comments = server[ui.issue].comments
    \/ Brings({"load", "comments"}) = {} /\ ui.view.comments = server[ui.issue].comments
HistoryCurrent ==
    \/ \E s \in saves : s.pc = "saved" /\ s.kind = "field"
    \/ \E r \in Brings({"load", "history"}) :
          r.pc = "answered" => r.view.history = server[ui.issue].history
    \/ Brings({"load", "history"}) = {} /\ ui.view.history = server[ui.issue].history
ListsCurrent ==
    ui.open /\ ~excuse.missed =>
        /\ CommentsCurrent /\ HistoryCurrent
        /\ Brings({"load"}) = {} => ui.page = ui.view

AreaInductive ==
    PageOK /\ DialogOK /\ ReadsOK /\ SavesOK /\ RestOK /\ Opened /\ ListsCurrent

LEMMA InductiveTyped == AreaInductive => TypeOK
BY DEF AreaInductive, TypeOK, PageOK, DialogOK, ReadsOK, SaveOK, SavesOK, RestOK

LEMMA PageFrame ==
    ASSUME PageOK, Tidies(ui, ui'), excuse.late => excuse'.late
    PROVE  PageOK'
BY DEF PageOK, Tidies, Keeps

LEMMA AskOK ==
    ASSUME DialogOK, NEW q \in Question, q.kind = "delete" => q.comment \in Comments, Ask(q)
    PROVE  DialogOK'
BY DEF DialogOK, Ask, OneQuestion

LEMMA NoDialogOK ==
    ASSUME dialog' = NoDialog
    PROVE  DialogOK' /\ dialog'.waiting = {}
BY DEF DialogOK, NoDialog, OneQuestion

\* What the lists of an issue depend on.
Stays(u, v) ==
    /\ v.open => u.open
    /\ v.issue = u.issue /\ v.view = u.view
    /\ v.page \in {u.page, u.view}

LEMMA ReadsFrame ==
    ASSUME ReadsOK, UNCHANGED <<reads, seq>>, Stays(ui, ui')
    PROVE  ReadsOK'
BY DEF ReadsOK, Stays

LEMMA SavesFrame ==
    ASSUME SavesOK, UNCHANGED <<saves, seq>>, RestOK, actions' \in {actions, actions + 1},
           ui'.text \in {ui.text, None}
    PROVE  SavesOK'
BY DEF SavesOK, SaveOK, RestOK

\* A save that has changed a list, and is about to ask for it.
AboutToAsk(field) == \E s \in saves : s.pc = "saved" /\ (s.kind = "field" <=> field)

LEMMA ListsKept ==
    ASSUME ListsCurrent, UNCHANGED server, Stays(ui, ui'),
           \A kinds : Brings(kinds)' = Brings(kinds),
           \A field \in BOOLEAN : AboutToAsk(field) => AboutToAsk(field)',
           excuse.missed => excuse'.missed
    PROVE  ListsCurrent'
<1> SUFFICES ASSUME ui'.open, ~excuse'.missed
             PROVE  /\ CommentsCurrent' /\ HistoryCurrent'
                    /\ Brings({"load"})' = {} => ui'.page = ui'.view
  BY DEF ListsCurrent
<1>1. /\ CommentsCurrent /\ HistoryCurrent
      /\ Brings({"load"}) = {} => ui.page = ui.view
  BY DEF ListsCurrent, Stays
<1>2. ui'.issue = ui.issue /\ ui'.view = ui.view /\ ui'.page \in {ui.page, ui.view}
  BY DEF Stays
<1>3. CommentsCurrent'
  <2>1. CASE AboutToAsk(FALSE)
    BY <2>1 DEF AboutToAsk, CommentsCurrent
  <2>2. CASE ~AboutToAsk(FALSE)
    BY <1>1, <1>2, <2>2 DEF AboutToAsk, CommentsCurrent
  <2> QED
    BY <2>1, <2>2
<1>4. HistoryCurrent'
  <2>1. CASE AboutToAsk(TRUE)
    BY <2>1 DEF AboutToAsk, HistoryCurrent
  <2>2. CASE ~AboutToAsk(TRUE)
    BY <1>1, <1>2, <2>2 DEF AboutToAsk, HistoryCurrent
  <2> QED
    BY <2>1, <2>2
<1> QED
  BY <1>1, <1>2, <1>3, <1>4

LEMMA ListsFrame ==
    ASSUME ListsCurrent, UNCHANGED <<reads, seq, server>>, Stays(ui, ui'),
           \A field \in BOOLEAN : AboutToAsk(field) => AboutToAsk(field)',
           excuse.missed => excuse'.missed
    PROVE  ListsCurrent'
<1>1. \A kinds : Brings(kinds)' = Brings(kinds)
  BY DEF Brings
<1> QED
  BY <1>1, ListsKept

-----------------------------------------------------------------------------
(* Steps of the page and of its dialog. *)

LEMMA PageStep ==
    ASSUME AreaInductive, Tidies(ui, ui'), DialogOK',
           ui.issue = None => dialog'.waiting = {},
           UNCHANGED <<seq, reads, saves, server, actions, failures, excuse>>
    PROVE  AreaInductive'
<1>1. PageOK /\ DialogOK /\ ReadsOK /\ SavesOK /\ RestOK /\ Opened /\ ListsCurrent
  BY DEF AreaInductive
<1>2. Keeps(ui, ui') /\ Stays(ui, ui')
  BY DEF Tidies, Keeps, Stays
<1>3. PageOK' /\ ReadsOK' /\ SavesOK'
  BY <1>1, <1>2, PageFrame, ReadsFrame, SavesFrame DEF Keeps
<1>4. RestOK' /\ Opened'
  BY <1>1, <1>2 DEF RestOK, Opened, Keeps
<1>5. \A field \in BOOLEAN : AboutToAsk(field) => AboutToAsk(field)'
  BY DEF AboutToAsk
<1>6. ListsCurrent'
  BY <1>1, <1>2, <1>5, ListsFrame
<1> QED
  BY <1>1, <1>3, <1>4, <1>6 DEF AreaInductive

LEMMA RefuseTidies == ASSUME ui \in Page, NEW q, Refuse(q) PROVE Tidies(ui, ui')
<1>1. Tidies(ui, Discarded(ui, q.draft)) /\ Discarded(ui, q.draft) \in Page
  BY DiscardedTidies DEF Tidies, Keeps
<1>2. Tidies(ui, Closed(Discarded(ui, q.draft)))
  BY <1>1, ClosedTidies, TidiesTwice
<1> QED
  BY <1>2, TidiesSame DEF Refuse

LEMMA RefusedStep == ASSUME AreaInductive, Refused PROVE AreaInductive'
<1>1. ui \in Page /\ DialogOK /\ Opened
  BY DEF AreaInductive, PageOK
<1>2. DialogOK' /\ dialog'.waiting = dialog.waiting
  BY <1>1 DEF Refused, DialogOK, OneQuestion
<1>3. Tidies(ui, ui')
  BY <1>1, RefuseTidies DEF Refused
<1> QED
  BY <1>1, <1>2, <1>3, PageStep DEF Refused, Opened

LEMMA CancelStep == ASSUME AreaInductive, Cancel PROVE AreaInductive'
<1>1. ui \in Page
  BY DEF AreaInductive, PageOK
<1>2. Tidies(ui, ui')
  BY <1>1, RefuseTidies DEF Cancel
<1> QED
  BY <1>2, NoDialogOK, PageStep DEF Cancel

LEMMA SwitchTabStep == ASSUME AreaInductive, SwitchTab PROVE AreaInductive'
<1>1. ui \in Page /\ DialogOK /\ Opened
  BY DEF AreaInductive, PageOK
<1>2. Tidies(ui, ui')
  BY <1>1, RenderedTidies DEF SwitchTab, Tidies
<1>3. DialogOK'
  BY <1>1 DEF SwitchTab, DialogOK, OneQuestion
<1> QED
  BY <1>1, <1>2, <1>3, PageStep DEF SwitchTab, Opened

\* A question about an issue that is open, or was.
LEMMA AskStep ==
    ASSUME AreaInductive, NEW q \in Question, q.kind = "delete" => q.comment \in Comments,
           Ask(q), ui.issue # None,
           UNCHANGED <<ui, seq, reads, saves, server, actions, failures, excuse>>
    PROVE  AreaInductive'
<1>1. ui \in Page /\ DialogOK
  BY DEF AreaInductive, PageOK
<1>2. Tidies(ui, ui') /\ DialogOK'
  BY <1>1, TidiesSame, AskOK
<1> QED
  BY <1>2, PageStep

LEMMA DiscardStep ==
    ASSUME AreaInductive, NEW d \in Drafts, Discard(d), ui.issue # None
    PROVE  AreaInductive'
<1> DEFINE q == [kind |-> "discard", comment |-> None, draft |-> d]
<1>1. q \in Question /\ q.kind = "discard"
  BY DEF Question
<1>2. CASE Changed(d)
  BY <1>1, <1>2, AskStep DEF Discard
<1>3. CASE ~Changed(d)
  <2>1. ui \in Page /\ DialogOK
    BY DEF AreaInductive, PageOK
  <2>2. Tidies(ui, ui')
    BY <1>3, <2>1, DiscardedTidies DEF Discard
  <2>3. DialogOK'
    BY <1>3, <2>1 DEF Discard, DialogOK, OneQuestion
  <2> QED
    BY <1>3, <2>2, <2>3, PageStep DEF Discard
<1> QED
  BY <1>2, <1>3

\* Whoever has an editor open has opened an issue.
LEMMA NotBlank ==
    ASSUME AreaInductive, ~Blank(ui)
    PROVE  ui.issue # None /\ ui.issue \in Issues
BY DEF AreaInductive, PageOK, Page

LEMMA CancelEditorStep == ASSUME AreaInductive, CancelEditor PROVE AreaInductive'
<1>1. CASE ui.editor = New /\ Discard(New)
  <2>1. ui.issue # None
    BY <1>1, NotBlank, ActivityAssumption DEF Blank
  <2> QED
    BY <1>1, <2>1, DiscardStep DEF Drafts
<1>2. ASSUME NEW e \in ui.editors, Discard(e.n)
      PROVE  AreaInductive'
  <2>1. ui.issue # None
    BY <1>2, NotBlank DEF Blank
  <2>2. e.n \in Drafts
    BY DEF AreaInductive, PageOK, Page, Editor, Drafts
  <2> QED
    BY <1>2, <2>1, <2>2, DiscardStep
<1> QED
  BY <1>1, <1>2 DEF CancelEditor

LEMMA RemoveCommentStep ==
    ASSUME AreaInductive, NEW c \in Comments, RemoveComment(c)
    PROVE  AreaInductive'
<1> DEFINE q == [kind |-> "delete", comment |-> c, draft |-> None]
<1>1. q \in Question /\ q.comment \in Comments
  BY DEF Question, Drafts
<1>2. ui.issue # None
  BY NotBlank DEF RemoveComment, Blank
<1> QED
  BY <1>1, <1>2, AskStep DEF RemoveComment

LEMMA DoneStep == ASSUME AreaInductive, Done PROVE AreaInductive'
<1> DEFINE q == [kind |-> "done", comment |-> None, draft |-> ui.draft]
<1>1. ui \in Page /\ DialogOK /\ ui.draft \in Drafts
  BY DEF AreaInductive, PageOK, Page
<1>2. q \in Question /\ q.kind = "done"
  BY <1>1 DEF Question
<1>3. ui.issue # None
  BY NotBlank DEF Done, Blank
<1>4. CASE Ask(q) /\ UNCHANGED ui
  BY <1>2, <1>3, <1>4, AskStep DEF Done
<1>5. CASE ui' = Closed(Discarded(ui, ui.draft)) /\ UNCHANGED dialog
  <2>1. Refuse(q)
    BY <1>5 DEF Refuse
  <2>2. Tidies(ui, ui')
    BY <1>1, <2>1, RefuseTidies
  <2>3. DialogOK'
    BY <1>1, <1>5 DEF DialogOK, OneQuestion
  <2> QED
    BY <1>3, <2>2, <2>3, PageStep DEF Done
<1> QED
  BY <1>4, <1>5 DEF Done

-----------------------------------------------------------------------------
(* Saves begin. *)

LEMMA SameDialogOK == ASSUME DialogOK, dialog' \in {dialog, NoDialog} PROVE DialogOK'
<1>1. CASE dialog' = dialog
  BY <1>1 DEF DialogOK, OneQuestion
<1> QED
  BY <1>1, NoDialogOK

\* A step that leaves the page alone, and of what is asked and saved adds at most one save.
LEMMA SavesStep ==
    ASSUME AreaInductive, ui.issue # None, dialog' \in {dialog, NoDialog}, SavesOK',
           \A field \in BOOLEAN : AboutToAsk(field) => AboutToAsk(field)',
           actions' \in 0..MaxActions, UNCHANGED <<ui, seq, reads, server, failures, excuse>>
    PROVE  AreaInductive'
<1>1. PageOK /\ DialogOK /\ ReadsOK /\ RestOK /\ Opened /\ ListsCurrent
  BY DEF AreaInductive
<1>2. Tidies(ui, ui') /\ Stays(ui, ui')
  BY <1>1, TidiesSame DEF PageOK, Stays
<1>3. PageOK' /\ ReadsOK' /\ DialogOK' /\ ListsCurrent'
  BY <1>1, <1>2, PageFrame, ReadsFrame, SameDialogOK, ListsFrame
<1>4. RestOK' /\ Opened'
  BY <1>1 DEF RestOK, Opened
<1> QED
  BY <1>3, <1>4 DEF AreaInductive

LEMMA SaveStep ==
    ASSUME AreaInductive, ui.issue # None, dialog' \in {dialog, NoDialog},
           NEW kind \in SaveKinds, NEW comment \in Comments \cup {None}, NEW draft \in Drafts,
           NEW close \in BOOLEAN, Save(kind, comment, draft, close),
           kind \in {"update", "delete"} => comment \in Comments, kind = "create" => draft = New,
           UNCHANGED <<ui, seq, reads, server, failures, excuse>>
    PROVE  AreaInductive'
<1> DEFINE text == IF kind = "create" THEN ui.text ELSE None
           save == [n |-> actions + 1, kind |-> kind, issue |-> ui.issue, comment |-> comment,
                    draft |-> draft, text |-> text, close |-> close, pc |-> "sent", seq |-> 0]
<1>1. PageOK /\ SavesOK /\ RestOK
  BY DEF AreaInductive
<1> PICK new : new = save
  OBVIOUS
<1>2. /\ actions' = actions + 1 /\ actions' \in 1..MaxActions /\ actions \in Nat
      /\ saves' = saves \cup {new}
  BY <1>1, ActivityAssumption DEF Save, Act, RestOK
<1>3. text \in Issues \cup {None} /\ (kind = "create" => text = ui.text) /\ ui.issue \in Issues
  BY <1>1 DEF PageOK, Page
<1> HIDE DEF text
<1>4. save \in Saving
  BY <1>2, <1>3 DEF Saving
<1>5. /\ new \in Saving /\ new.n = actions'
      /\ new.kind = kind /\ new.comment = comment /\ new.draft = draft
      /\ new.text = text /\ new.pc = "sent" /\ new.seq = 0
  BY <1>2, <1>4
<1> HIDE DEF save
<1>6. SaveOK(new)'
  BY <1>1, <1>2, <1>3, <1>5 DEF SaveOK, RestOK
<1>7. SavesOK'
  <2>1. ASSUME NEW s \in saves
        PROVE  SaveOK(s)'
    BY <1>1, <1>2 DEF SavesOK, SaveOK
  <2> QED
    BY <1>2, <1>6, <2>1 DEF SavesOK
<1>8. \A field \in BOOLEAN : AboutToAsk(field) => AboutToAsk(field)'
  BY <1>2 DEF AboutToAsk
<1> QED
  BY <1>2, <1>7, <1>8, SavesStep

\* A save under way is joined.
LEMMA JoinStep ==
    ASSUME AreaInductive, ui.issue # None, dialog' \in {dialog, NoDialog}, NEW d,
           saves' = {IF s.draft = d THEN [s EXCEPT !.close = TRUE] ELSE s : s \in saves},
           UNCHANGED <<ui, seq, reads, server, actions, failures, excuse>>
    PROVE  AreaInductive'
<1> DEFINE joined(s) == IF s.draft = d THEN [s EXCEPT !.close = TRUE] ELSE s
<1>1. SavesOK /\ RestOK
  BY DEF AreaInductive
<1>2. ASSUME NEW s \in saves
      PROVE  SaveOK(joined(s))' /\ joined(s).pc = s.pc /\ joined(s).kind = s.kind
  <2> DEFINE t == joined(s)
  <2>1. SaveOK(s) /\ s \in Saving
    BY <1>1 DEF SavesOK, SaveOK
  <2>2. /\ t \in Saving /\ t.n = s.n /\ t.kind = s.kind /\ t.comment = s.comment
        /\ t.draft = s.draft /\ t.text = s.text /\ t.pc = s.pc /\ t.seq = s.seq
    BY <2>1 DEF Saving
  <2> HIDE DEF t
  <2>3. SaveOK(t)'
    BY <2>1, <2>2 DEF SaveOK
  <2> QED
    BY <2>2, <2>3 DEF t
<1>3. saves' = {joined(s) : s \in saves}
  OBVIOUS
<1> HIDE DEF joined
<1>4. SavesOK'
  BY <1>2, <1>3 DEF SavesOK
<1>5. \A field \in BOOLEAN : AboutToAsk(field) => AboutToAsk(field)'
  BY <1>2, <1>3 DEF AboutToAsk
<1>6. actions' \in 0..MaxActions
  BY <1>1 DEF RestOK
<1> QED
  BY <1>4, <1>5, <1>6, SavesStep

LEMMA SaveDraftStep ==
    ASSUME AreaInductive, ui.issue # None, dialog' \in {dialog, NoDialog}, NEW d,
           NEW close \in BOOLEAN, SaveDraft(d, close),
           UNCHANGED <<ui, seq, reads, server, failures, excuse>>
    PROVE  AreaInductive'
<1>1. CASE d = New
  BY <1>1, SaveStep DEF SaveDraft, SaveKinds, Drafts
<1>2. CASE d # New
  <2>1. PICK e \in ui.editors : e.n = d /\ Save("update", e.comment, d, close)
    BY <1>2 DEF SaveDraft
  <2>2. e.comment \in Comments /\ d \in Drafts
    BY <2>1 DEF AreaInductive, PageOK, Page, Editor, Drafts
  <2> QED
    BY <2>1, <2>2, SaveStep DEF SaveKinds
<1> QED
  BY <1>1, <1>2

\* The user saves nothing, and a dialog closes.
LEMMA NothingSavedStep ==
    ASSUME AreaInductive, ui.issue # None, dialog' \in {dialog, NoDialog},
           UNCHANGED <<ui, seq, reads, saves, server, actions, failures, excuse>>
    PROVE  AreaInductive'
<1>1. PageOK /\ DialogOK
  BY DEF AreaInductive
<1> QED
  BY <1>1, TidiesSame, SameDialogOK, PageStep DEF PageOK

LEMMA ConfirmStep == ASSUME AreaInductive, Confirm PROVE AreaInductive'
<1>1. DialogOK /\ Opened /\ ui \in Page
  BY DEF AreaInductive, PageOK
<1>2. PICK q \in dialog.waiting :
        \/ q.kind = "delete" /\ Save("delete", q.comment, None, FALSE) /\ UNCHANGED ui
        \/ q.kind = "discard" /\ ui' = Discarded(ui, q.draft) /\ UNCHANGED <<saves, actions>>
        \/ q.kind = "done" /\ SaveAndClose(q.draft) /\ UNCHANGED ui
  BY DEF Confirm
<1>3. /\ dialog' = NoDialog
      /\ UNCHANGED <<seq, reads, server, failures, excuse>>
  BY DEF Confirm
<1>4. ui.issue # None /\ q \in Question /\ (q.kind = "delete" => q.comment \in Comments)
  BY <1>1, <1>2 DEF Opened, DialogOK
<1>5. CASE q.kind = "delete" /\ Save("delete", q.comment, None, FALSE) /\ UNCHANGED ui
  BY <1>3, <1>4, <1>5, SaveStep DEF SaveKinds, Drafts
<1>6. CASE ui' = Discarded(ui, q.draft) /\ UNCHANGED <<saves, actions>>
  BY <1>1, <1>3, <1>6, DiscardedTidies, NoDialogOK, PageStep
<1>7. CASE SaveAndClose(q.draft) /\ UNCHANGED ui
  <2>1. CASE Busy(q.draft)
    BY <1>3, <1>4, <1>7, <2>1, JoinStep DEF SaveAndClose
  <2>2. CASE ~Busy(q.draft) /\ Changed(q.draft)
    BY <1>3, <1>4, <1>7, <2>2, SaveDraftStep DEF SaveAndClose
  <2>3. CASE ~Busy(q.draft) /\ ~Changed(q.draft)
    BY <1>3, <1>4, <1>7, <2>3, NothingSavedStep DEF SaveAndClose
  <2> QED
    BY <2>1, <2>2, <2>3
<1> QED
  BY <1>2, <1>5, <1>6, <1>7

LEMMA SubmitNewStep == ASSUME AreaInductive, SubmitNew PROVE AreaInductive'
<1>1. ui.issue # None
  BY NotBlank DEF SubmitNew, Blank
<1> QED
  BY <1>1, SaveStep DEF SubmitNew, SaveKinds, Drafts

LEMMA SaveEditStep ==
    ASSUME AreaInductive, NEW e \in ui.editors, SaveEdit(e)
    PROVE  AreaInductive'
<1>1. ui.issue # None
  BY NotBlank DEF Blank
<1>2. e.comment \in Comments /\ e.n \in Drafts
  BY DEF AreaInductive, PageOK, Page, Editor, Drafts
<1> QED
  BY <1>1, <1>2, SaveStep DEF SaveEdit, SaveKinds

LEMMA ChangeFieldStep == ASSUME AreaInductive, ChangeField PROVE AreaInductive'
<1>1. ui.issue # None
  BY NotBlank DEF ChangeField, Blank
<1> QED
  BY <1>1, SaveStep DEF ChangeField, SaveKinds, Drafts

-----------------------------------------------------------------------------
(* Editors, and the modal, are opened. *)

LEMMA WriteNewStep == ASSUME AreaInductive, WriteNew PROVE AreaInductive'
<1>1. PageOK /\ DialogOK /\ ReadsOK /\ SavesOK /\ RestOK /\ Opened /\ ListsCurrent
  BY DEF AreaInductive
<1>2. ui.issue \in Issues
  BY NotBlank DEF WriteNew, Blank
<1>3. /\ ui' \in Page
      /\ ui'.open = ui.open /\ ui'.issue = ui.issue /\ ui'.view = ui.view /\ ui'.page = ui.page
      /\ ui'.editors = ui.editors /\ ui'.editor = New /\ ui'.draft = New /\ ui'.text = ui.issue
  BY <1>1, <1>2 DEF WriteNew, PageOK, Page, Drafts
<1>4. Stays(ui, ui')
  BY <1>3 DEF Stays
<1>5. PageOK'
  BY <1>1, <1>2, <1>3, ActivityAssumption DEF WriteNew, MayWrite, PageOK, OneShown
<1>6. SavesOK'
  BY <1>1 DEF SavesOK, SaveOK, WriteNew, MayWrite, Busy
<1>7. DialogOK' /\ RestOK' /\ Opened'
  BY <1>1, <1>3 DEF WriteNew, DialogOK, OneQuestion, RestOK, Opened
<1>8. \A field \in BOOLEAN : AboutToAsk(field) => AboutToAsk(field)'
  BY DEF AboutToAsk, WriteNew
<1>9. ReadsOK' /\ ListsCurrent'
  BY <1>1, <1>4, <1>8, ReadsFrame, ListsFrame DEF WriteNew
<1> QED
  BY <1>5, <1>6, <1>7, <1>9 DEF AreaInductive

LEMMA EnterEditStep ==
    ASSUME AreaInductive, NEW c \in Comments, NEW changed \in BOOLEAN, EnterEdit(c, changed)
    PROVE  AreaInductive'
<1>1. PageOK /\ DialogOK /\ ReadsOK /\ SavesOK /\ RestOK /\ Opened /\ ListsCurrent
  BY DEF AreaInductive
<1>2. actions' = actions + 1 /\ actions' \in 1..MaxActions /\ ui.editor = None
  BY <1>1, ActivityAssumption DEF EnterEdit, MayEdit, Act, RestOK
<1> PICK new : new = [n |-> actions', comment |-> c, changed |-> changed, shown |-> TRUE]
  OBVIOUS
<1>3. new \in Editor /\ new.n = actions'
  BY <1>2 DEF Editor
<1>4. /\ ui' \in Page
      /\ ui'.open = ui.open /\ ui'.issue = ui.issue /\ ui'.view = ui.view /\ ui'.page = ui.page
      /\ ui'.editors = ui.editors \cup {new} /\ ui'.editor = c /\ ui'.draft = actions'
      /\ ui'.text = ui.text
  BY <1>1, <1>2, <1>3 DEF EnterEdit, PageOK, Page, Drafts
<1>5. Stays(ui, ui')
  BY <1>4 DEF Stays
<1>6. ui.issue # None
  BY NotBlank DEF EnterEdit, Blank
<1>7. PageOK'
  BY <1>1, <1>2, <1>3, <1>4, <1>6, ActivityAssumption DEF EnterEdit, PageOK, OneShown
<1>8. SavesOK'
  BY <1>1, <1>2, <1>4, SavesFrame DEF EnterEdit
<1>9. DialogOK' /\ RestOK' /\ Opened'
  BY <1>1, <1>2, <1>4 DEF EnterEdit, DialogOK, OneQuestion, RestOK, Opened
<1>10. \A field \in BOOLEAN : AboutToAsk(field) => AboutToAsk(field)'
  BY DEF AboutToAsk, EnterEdit
<1>11. ReadsOK' /\ ListsCurrent'
  BY <1>1, <1>5, <1>10, ReadsFrame, ListsFrame DEF EnterEdit
<1> QED
  BY <1>7, <1>8, <1>9, <1>11 DEF AreaInductive

\* A new request is the newest, and brings the lists of its kind.
LEMMA ReadStep ==
    ASSUME ReadsOK, RestOK, NEW kind \in {"load", "history", "comments"}, NEW issue \in Issues,
           Read(kind, issue), ui'.open => ui'.issue = issue
    PROVE  /\ ReadsOK'
           /\ \E r \in reads' : /\ r.seq = seq' /\ r.kind = kind /\ r.pc = "sent"
                                /\ \A kinds : Brings(kinds)' = IF kind \in kinds THEN {r} ELSE {}
<1> PICK new :
        new = [seq |-> seq + 1, kind |-> kind, issue |-> issue, pc |-> "sent", view |-> Empty]
  OBVIOUS
<1>1. seq \in Nat /\ seq' = seq + 1 /\ reads' = reads \cup {new}
  BY DEF Read, RestOK
<1>2. Empty \in View
  BY DEF Empty, View
<1>3. /\ new \in Reading /\ new.seq = seq + 1
      /\ new.kind = kind /\ new.issue = issue /\ new.pc = "sent"
  BY <1>1, <1>2 DEF Reading
<1>4. \A r \in reads : r.seq \in 1..seq
  BY DEF ReadsOK
<1>5. \A r \in reads' : r.seq = seq' => r = new
  BY <1>1, <1>4
<1>6. ReadsOK'
  BY <1>1, <1>3, <1>4, <1>5 DEF ReadsOK
<1>7. \A kinds : Brings(kinds)' = IF kind \in kinds THEN {new} ELSE {}
  BY <1>1, <1>3, <1>5 DEF Brings
<1> QED
  BY <1>1, <1>3, <1>6, <1>7

LEMMA OpenStep == ASSUME AreaInductive, NEW i \in Issues, Open(i) PROVE AreaInductive'
<1>1. PageOK /\ DialogOK /\ ReadsOK /\ SavesOK /\ RestOK
  BY DEF AreaInductive
<1> PICK u : u = [ui EXCEPT !.open = TRUE, !.issue = i, !.view = Empty]
  OBVIOUS
<1>2. Empty \in View
  BY DEF Empty, View
<1>3. /\ u \in Page /\ u.issue = i /\ u.text = ui.text
      /\ u.editors = ui.editors /\ u.editor = ui.editor /\ u.draft = ui.draft
  BY <1>1, <1>2 DEF PageOK, Page
<1>4. Tidies(u, ui')
  BY <1>3, EditorsClosedTidies DEF Open
<1>5. ui' \in Page /\ ui'.issue = i /\ ui'.text \in {ui.text, None} /\ i # None
  BY <1>3, <1>4, ActivityAssumption DEF Tidies, Keeps
<1>6. PageOK'
  BY <1>1, <1>3, <1>4, <1>5 DEF PageOK, OneShown, Tidies, Open
<1>7. actions' = actions + 1 /\ actions' \in 0..MaxActions
  BY <1>1, ActivityAssumption DEF Open, Act, RestOK
<1>8. SavesOK'
  <2>1. seq' = seq + 1 /\ seq \in Nat /\ actions \in Nat
    BY <1>1 DEF Open, Read, RestOK
  <2> QED
    BY <1>1, <1>5, <1>7, <2>1 DEF SavesOK, SaveOK, Open
<1>9. DialogOK' /\ RestOK' /\ Opened'
  <2>1. seq' \in Nat
    BY <1>1 DEF Open, Read, RestOK
  <2>2. excuse' = [excuse EXCEPT !.missed = FALSE]
    BY DEF Open
  <2>3. excuse' \in [missed : BOOLEAN, late : BOOLEAN]
    BY <1>1, <2>2 DEF RestOK
  <2>4. RestOK'
    BY <1>1, <1>7, <2>1, <2>3 DEF Open, RestOK
  <2>5. DialogOK'
    BY <1>1 DEF Open, DialogOK, OneQuestion
  <2> QED
    BY <1>5, <2>4, <2>5 DEF Opened
<1>10. /\ ReadsOK'
       /\ \E r \in reads' : /\ r.seq = seq' /\ r.kind = "load" /\ r.pc = "sent"
                            /\ \A kinds : Brings(kinds)' = IF "load" \in kinds THEN {r} ELSE {}
  BY <1>1, <1>5, ReadStep DEF Open
<1>11. ListsCurrent'
  BY <1>10 DEF ListsCurrent, CommentsCurrent, HistoryCurrent
<1> QED
  BY <1>6, <1>8, <1>9, <1>10, <1>11 DEF AreaInductive

-----------------------------------------------------------------------------
(* The server. *)

\* What a save does to the lists.
LEMMA ApplyOK ==
    ASSUME server \in [Issues -> View], NEW s, SaveOK(s), Apply(s)
    PROVE  /\ server' \in [Issues -> View]
           /\ s.kind = "field" => \A i \in Issues : server'[i].comments = server[i].comments
           /\ s.kind # "field" => \A i \in Issues : server'[i].history = server[i].history
<1>1. s.issue \in Issues /\ s.kind \in SaveKinds
  BY DEF SaveOK, Saving
<1>2. \A v \in View : v.comments \in [Comments -> Nat] /\ v.history \in Nat
  BY DEF View
<1>3. ASSUME NEW c \in Comments, NEW n \in Nat, server' = [server EXCEPT ![s.issue].comments[c] = n]
      PROVE  /\ server' \in [Issues -> View]
             /\ \A i \in Issues : server'[i].history = server[i].history
  BY <1>1, <1>2, <1>3 DEF View
<1>4. CASE s.kind = "update" /\ server' = [server EXCEPT ![s.issue].comments[s.comment] = @ + 1]
  <2>1. s.comment \in Comments
    BY <1>4 DEF SaveOK
  <2>2. server[s.issue].comments[s.comment] + 1 \in Nat
    BY <1>1, <1>2, <2>1
  <2> QED
    BY <1>3, <1>4, <2>1, <2>2
<1>5. CASE s.kind = "delete" /\ server' = [server EXCEPT ![s.issue].comments[s.comment] = 0]
  <2>1. s.comment \in Comments
    BY <1>5 DEF SaveOK
  <2> QED
    BY <1>3, <1>5, <2>1
<1>6. CASE s.kind = "create" /\ \E c \in Comments :
              Fresh(c) /\ server' = [server EXCEPT ![s.issue].comments[c] = 1]
  BY <1>3, <1>6
<1>7. CASE s.kind = "field" /\ server' = [server EXCEPT ![s.issue].history = @ + 1]
  BY <1>1, <1>2, <1>7 DEF View
<1> QED
  BY <1>4, <1>5, <1>6, <1>7 DEF Apply

LEMMA ServedOK ==
    ASSUME SavesOK, NEW s \in saves, s.pc = "sent", NEW pc \in {"saved", "failed"}, Served(s, pc),
           UNCHANGED <<ui, seq, actions>>
    PROVE  /\ SavesOK'
           /\ \A field \in BOOLEAN : AboutToAsk(field) => AboutToAsk(field)'
           /\ pc = "saved" => AboutToAsk(s.kind = "field")'
<1> PICK t : t = [s EXCEPT !.pc = pc]
  OBVIOUS
<1>1. saves' = (saves \ {s}) \cup {t}
  BY DEF Served
<1>2. SaveOK(s) /\ s \in Saving
  BY DEF SavesOK, SaveOK
<1>3. /\ t \in Saving /\ t.n = s.n /\ t.kind = s.kind /\ t.comment = s.comment
      /\ t.draft = s.draft /\ t.text = s.text /\ t.pc = pc /\ t.seq = s.seq
  BY <1>2 DEF Saving
<1>4. SaveOK(t)'
  BY <1>2, <1>3 DEF SaveOK
<1>5. SavesOK'
  BY <1>1, <1>4 DEF SavesOK, SaveOK
<1>6. \A field \in BOOLEAN : AboutToAsk(field) => AboutToAsk(field)'
  BY <1>1 DEF AboutToAsk
<1>7. pc = "saved" => AboutToAsk(s.kind = "field")'
  BY <1>1, <1>3 DEF AboutToAsk
<1> QED
  BY <1>5, <1>6, <1>7

\* A save is executed, or not: either a list is asked for again, or the miss is known.
LEMMA ServedStep ==
    ASSUME AreaInductive, NEW s \in saves, s.pc = "sent",
           NEW pc \in {"saved", "failed"}, Served(s, pc),
           \/ UNCHANGED server
           \/ Apply(s) /\ (pc = "saved" \/ excuse'.missed),
           excuse' = excuse \/ excuse' = [excuse EXCEPT !.missed = TRUE],
           failures' \in 0..MaxFailures, UNCHANGED <<ui, dialog, seq, reads, actions>>
    PROVE  AreaInductive'
<1>1. PageOK /\ DialogOK /\ ReadsOK /\ SavesOK /\ RestOK /\ Opened /\ ListsCurrent
  BY DEF AreaInductive
<1>2. SaveOK(s)
  BY <1>1 DEF SavesOK
<1>3. /\ server' \in [Issues -> View]
      /\ UNCHANGED server \/ Apply(s)
  BY <1>1, <1>2, ApplyOK DEF RestOK
<1>4. /\ excuse' \in [missed : BOOLEAN, late : BOOLEAN]
      /\ excuse'.late = excuse.late /\ (excuse.missed => excuse'.missed)
  BY <1>1 DEF RestOK
<1>5. RestOK'
  BY <1>1, <1>3, <1>4 DEF RestOK
<1>6. /\ SavesOK'
      /\ \A field \in BOOLEAN : AboutToAsk(field) => AboutToAsk(field)'
      /\ pc = "saved" => AboutToAsk(s.kind = "field")'
  BY <1>1, ServedOK
<1>7. Tidies(ui, ui') /\ Stays(ui, ui')
  BY <1>1, TidiesSame DEF PageOK, Stays
<1>8. PageOK' /\ ReadsOK' /\ DialogOK'
  BY <1>1, <1>4, <1>7, PageFrame, ReadsFrame, SameDialogOK
<1>9. Opened'
  BY <1>1 DEF Opened
<1>10. ListsCurrent'
  <2>1. CASE UNCHANGED server
    BY <1>1, <1>4, <1>6, <1>7, <2>1, ListsFrame
  <2>2. CASE ~UNCHANGED server /\ excuse'.missed
    BY <2>2 DEF ListsCurrent
  <2>3. CASE ~UNCHANGED server /\ ~excuse'.missed
    <3>1. Apply(s) /\ AboutToAsk(s.kind = "field")'
      BY <1>6, <2>3
    <3>2. SUFFICES ASSUME ui.open
                   PROVE  /\ CommentsCurrent' /\ HistoryCurrent'
                          /\ Brings({"load"})' = {} => ui'.page = ui'.view
      BY DEF ListsCurrent
    <3>3. /\ CommentsCurrent /\ HistoryCurrent
          /\ Brings({"load"}) = {} => ui.page = ui.view
      BY <1>1, <1>4, <2>3, <3>2 DEF ListsCurrent
    <3>4. \A kinds : Brings(kinds)' = Brings(kinds)
      BY DEF Brings
    <3>5. ui.issue \in Issues
      BY <3>2, NotBlank DEF Blank
    <3>6. CASE s.kind = "field"
      <4>1. HistoryCurrent'
        BY <3>1, <3>6 DEF HistoryCurrent, AboutToAsk
      <4>2. server'[ui.issue].comments = server[ui.issue].comments
        BY <1>1, <1>2, <3>1, <3>5, <3>6, ApplyOK DEF RestOK
      <4>3. CommentsCurrent'
        <5>1. CASE AboutToAsk(FALSE)
          BY <1>6, <5>1 DEF AboutToAsk, CommentsCurrent
        <5>2. CASE ~AboutToAsk(FALSE)
          BY <3>3, <3>4, <4>2, <5>2 DEF AboutToAsk, CommentsCurrent
        <5> QED
          BY <5>1, <5>2
      <4> QED
        BY <3>3, <3>4, <4>1, <4>3
    <3>7. CASE s.kind # "field"
      <4>1. CommentsCurrent'
        BY <3>1, <3>7 DEF CommentsCurrent, AboutToAsk
      <4>2. server'[ui.issue].history = server[ui.issue].history
        BY <1>1, <1>2, <3>1, <3>5, <3>7, ApplyOK DEF RestOK
      <4>3. HistoryCurrent'
        <5>1. CASE AboutToAsk(TRUE)
          BY <1>6, <5>1 DEF AboutToAsk, HistoryCurrent
        <5>2. CASE ~AboutToAsk(TRUE)
          BY <3>3, <3>4, <4>2, <5>2 DEF AboutToAsk, HistoryCurrent
        <5> QED
          BY <5>1, <5>2
      <4> QED
        BY <3>3, <3>4, <4>1, <4>3
    <3> QED
      BY <3>6, <3>7
  <2> QED
    BY <2>1, <2>2, <2>3
<1> QED
  BY <1>5, <1>6, <1>8, <1>9, <1>10 DEF AreaInductive

LEMMA ServeStep == ASSUME AreaInductive, NEW s \in saves, Serve(s) PROVE AreaInductive'
<1>1. failures' \in 0..MaxFailures
  BY DEF AreaInductive, Serve, RestOK
<1>2. CASE Allowed(s)
  BY <1>1, <1>2, ServedStep DEF Serve
<1>3. CASE ~Allowed(s)
  BY <1>1, <1>3, ServedStep DEF Serve
<1> QED
  BY <1>2, <1>3

LEMMA ServeInVainStep ==
    ASSUME AreaInductive, NEW s \in saves, NEW executed \in BOOLEAN, ServeInVain(s, executed)
    PROVE  AreaInductive'
<1>1. RestOK
  BY DEF AreaInductive
<1>2. failures' \in 0..MaxFailures
  BY <1>1, ActivityAssumption DEF ServeInVain, Fail, RestOK
<1>3. excuse.missed \in BOOLEAN /\ excuse \in [missed : BOOLEAN, late : BOOLEAN]
  BY <1>1 DEF RestOK
<1>4. CASE executed
  <2>1. excuse' = [excuse EXCEPT !.missed = TRUE] /\ excuse'.missed
    BY <1>3, <1>4 DEF ServeInVain
  <2> QED
    BY <1>2, <1>4, <2>1, ServedStep DEF ServeInVain
<1>5. CASE ~executed
  <2>1. excuse' = excuse
    BY <1>3, <1>5 DEF ServeInVain
  <2> QED
    BY <1>2, <1>5, <2>1, ServedStep DEF ServeInVain
<1> QED
  BY <1>4, <1>5

\* A request is answered: it brings what the server has by now.
LEMMA ServeReadStep ==
    ASSUME AreaInductive, NEW r \in reads, NEW fails \in BOOLEAN, ServeRead(r, fails)
    PROVE  AreaInductive'
<1>1. PageOK /\ DialogOK /\ ReadsOK /\ SavesOK /\ RestOK /\ Opened /\ ListsCurrent
  BY DEF AreaInductive
<1> DEFINE view == IF fails THEN Empty ELSE server[r.issue]
           pc == IF fails THEN "failed" ELSE "answered"
<1> PICK t : t = [r EXCEPT !.pc = pc, !.view = view]
  OBVIOUS
<1>2. reads' = (reads \ {r}) \cup {t} /\ r.pc = "sent"
  BY DEF ServeRead
<1>3. r \in Reading /\ r.issue \in Issues /\ Empty \in View
  BY <1>1 DEF ReadsOK, Reading, Empty, View
<1>4. view \in View /\ pc \in {"answered", "failed"} /\ (pc = "answered" => view = server[r.issue])
  BY <1>1, <1>3 DEF RestOK
<1> HIDE DEF view, pc
<1>5. /\ t \in Reading /\ t.seq = r.seq /\ t.kind = r.kind /\ t.issue = r.issue
      /\ t.pc = pc /\ t.view = view
  BY <1>3, <1>4 DEF Reading
<1>6. UNCHANGED <<ui, dialog, seq, saves, server, actions, excuse>>
  BY DEF ServeRead
<1>7. failures' \in 0..MaxFailures
  BY <1>1, ActivityAssumption DEF ServeRead, Fail, RestOK
<1>8. ReadsOK'
  <2>1. reads' \subseteq Reading
    BY <1>1, <1>2, <1>5 DEF ReadsOK
  <2>2. \A q \in reads' : q.seq \in 1..seq /\ (q.seq = seq /\ ui.open => q.issue = ui.issue)
    BY <1>1, <1>2, <1>5 DEF ReadsOK
  <2>3. \A p, q \in reads' : p.seq = seq /\ q.seq = seq => p = q
    BY <1>1, <1>2, <1>5 DEF ReadsOK
  <2> QED
    BY <1>6, <2>1, <2>2, <2>3 DEF ReadsOK
<1>9. Tidies(ui, ui') /\ Stays(ui, ui')
  BY <1>1, <1>6, TidiesSame DEF PageOK, Stays
<1>10. PageOK' /\ DialogOK' /\ SavesOK' /\ RestOK' /\ Opened'
  <2>1. PageOK' /\ DialogOK'
    BY <1>1, <1>6, <1>9, PageFrame, SameDialogOK
  <2>2. SavesOK'
    BY <1>1, <1>6, SavesFrame
  <2> QED
    BY <1>1, <1>6, <1>7, <2>1, <2>2 DEF RestOK, Opened
<1>11. \A field \in BOOLEAN : AboutToAsk(field) => AboutToAsk(field)'
  BY <1>6 DEF AboutToAsk
<1>12. ListsCurrent'
  <2>1. CASE r.seq # seq
    <3>1. \A kinds : Brings(kinds)' = Brings(kinds)
      BY <1>2, <1>5, <1>6, <2>1 DEF Brings
    <3> QED
      BY <1>1, <1>6, <1>9, <1>11, <3>1, ListsKept
  <2>2. CASE r.seq = seq
    <3>1. \A kinds : Brings(kinds)' = (IF r.kind \in kinds THEN {t} ELSE {})
      BY <1>1, <1>2, <1>5, <1>6, <2>2 DEF Brings, ReadsOK
    <3>2. \A kinds : Brings(kinds) = (IF r.kind \in kinds THEN {r} ELSE {})
      BY <1>1, <2>2 DEF Brings, ReadsOK
    <3>3. SUFFICES ASSUME ui.open, ~excuse.missed
                   PROVE  /\ CommentsCurrent' /\ HistoryCurrent'
                          /\ Brings({"load"})' = {} => ui'.page = ui'.view
      BY <1>6 DEF ListsCurrent
    <3>4. /\ CommentsCurrent /\ HistoryCurrent
          /\ Brings({"load"}) = {} => ui.page = ui.view
      BY <1>1, <3>3 DEF ListsCurrent
    <3>5. t.pc = "answered" => t.view = server[ui.issue]
      BY <1>1, <1>4, <1>5, <2>2, <3>3 DEF ReadsOK
    <3>6. CommentsCurrent'
      <4>1. CASE r.kind \in {"load", "comments"}
        BY <1>6, <3>1, <3>5, <4>1 DEF CommentsCurrent
      <4>2. CASE r.kind \notin {"load", "comments"}
        BY <1>6, <3>1, <3>2, <3>4, <4>2 DEF CommentsCurrent
      <4> QED
        BY <4>1, <4>2
    <3>7. HistoryCurrent'
      <4>1. CASE r.kind \in {"load", "history"}
        BY <1>6, <3>1, <3>5, <4>1 DEF HistoryCurrent
      <4>2. CASE r.kind \notin {"load", "history"}
        BY <1>6, <3>1, <3>2, <3>4, <4>2 DEF HistoryCurrent
      <4> QED
        BY <4>1, <4>2
    <3> QED
      BY <1>6, <3>1, <3>2, <3>4, <3>6, <3>7
  <2> QED
    BY <2>1, <2>2
<1> QED
  BY <1>8, <1>10, <1>12 DEF AreaInductive

-----------------------------------------------------------------------------
(* Answers. *)

LEMMA SaveFailsStep == ASSUME AreaInductive, NEW s \in saves, SaveFails(s) PROVE AreaInductive'
<1>1. SavesOK /\ RestOK /\ Opened
  BY DEF AreaInductive
<1>2. SavesOK'
  BY <1>1 DEF SaveFails, SavesOK, SaveOK
<1>3. \A field \in BOOLEAN : AboutToAsk(field) => AboutToAsk(field)'
  BY DEF SaveFails, AboutToAsk
<1>4. ui.issue # None /\ actions' \in 0..MaxActions
  BY <1>1 DEF Opened, RestOK, SaveFails
<1> QED
  BY <1>2, <1>3, <1>4, SavesStep DEF SaveFails

\* The save is answered, and the list it has changed is asked for.
LEMMA SaveReturnsStep == ASSUME AreaInductive, NEW s \in saves, SaveReturns(s) PROVE AreaInductive'
<1>1. PageOK /\ DialogOK /\ ReadsOK /\ SavesOK /\ RestOK /\ Opened /\ ListsCurrent
  BY DEF AreaInductive
<1> DEFINE kind == Refreshes(s)
           late == excuse.late \/ (s.kind = "update" /\ ui.draft # s.draft)
<1>2. SaveOK(s) /\ s \in Saving /\ s.pc = "saved"
  BY <1>1 DEF SavesOK, SaveOK, SaveReturns
<1>3. ui \in Page /\ ui.issue # None /\ ui.issue \in Issues
  BY <1>1 DEF Opened, PageOK, Page
<1>4. /\ kind \in {"history", "comments"}
      /\ kind = "history" <=> s.kind = "field"
  BY DEF Refreshes
<1>5. seq \in Nat /\ seq' = seq + 1
  BY <1>1 DEF SaveReturns, Read, RestOK
<1>6. excuse' = [missed |-> excuse.missed \/ Missed(kind), late |-> late]
  BY DEF SaveReturns
<1>7. UNCHANGED <<dialog, server, actions, failures>>
  BY DEF SaveReturns
<1>8. /\ ui' = CASE s.kind = "create" -> NewFormClosed(ui)
               [] s.kind = "update" -> Finished(ui, s.draft)
               [] OTHER -> ui
      /\ Read(kind, ui.issue)
  BY DEF SaveReturns
<1>9. Keeps(ui, ui') /\ (~late => OneShown(ui'))
  <2>1. CASE s.kind = "create"
    <3>1. ui' = NewFormClosed(ui)
      BY <1>8, <2>1
    <3> QED
      BY <1>1, <1>3, <3>1, NewFormClosedTidies DEF PageOK, Tidies
  <2>2. CASE s.kind = "update"
    <3>1. ui' = Finished(ui, s.draft)
      BY <1>8, <2>2
    <3> QED
      BY <1>1, <1>3, <2>2, <3>1, FinishedKeeps DEF PageOK
  <2>3. CASE s.kind \notin {"create", "update"}
    <3>1. ui' = ui
      BY <1>8, <2>3
    <3> QED
      BY <1>1, <1>3, <3>1, TidiesSame DEF PageOK, Tidies
  <2> QED
    BY <2>1, <2>2, <2>3
<1> HIDE DEF late
<1>10. excuse'.late = late /\ excuse'.missed = (excuse.missed \/ Missed(kind))
  BY <1>6
<1>11. late \in BOOLEAN /\ excuse.missed \in BOOLEAN /\ Missed(kind) \in BOOLEAN
  BY <1>1 DEF late, RestOK, Missed
<1> HIDE DEF kind
<1>12. PageOK'
  BY <1>3, <1>9, <1>10 DEF PageOK, Keeps
<1>13. SavesOK'
  <2> PICK t : t = [s EXCEPT !.pc = "refreshes", !.seq = seq + 1]
    OBVIOUS
  <2>1. \A q \in saves' : q \in saves \/ q = t
    BY DEF SaveReturns
  <2>2. /\ t \in Saving /\ t.n = s.n /\ t.kind = s.kind /\ t.comment = s.comment
        /\ t.draft = s.draft /\ t.pc = "refreshes" /\ t.seq = seq + 1
    <3>1. seq + 1 \in Nat
      BY <1>5
    <3>2. t.pc = "refreshes" /\ t.seq = seq + 1
      BY <1>2, <3>1 DEF Saving
    <3>3. /\ t.n = s.n /\ t.kind = s.kind /\ t.comment = s.comment
          /\ t.draft = s.draft
      BY <1>2 DEF Saving
    <3>4. t \in Saving
      BY <1>2, <3>1 DEF Saving
    <3> QED
      BY <3>2, <3>3, <3>4
  <2>3. SaveOK(t)'
    BY <1>2, <1>5, <1>7, <2>2 DEF SaveOK
  <2>4. ui'.text \in {ui.text, None}
    BY <1>9 DEF Keeps
  <2>5. ASSUME NEW q \in saves
        PROVE  SaveOK(q)'
    BY <1>1, <1>5, <1>7, <2>4 DEF SavesOK, SaveOK
  <2> QED
    BY <2>1, <2>3, <2>5 DEF SavesOK
<1>14. RestOK'
  <2>1. excuse' \in [missed : BOOLEAN, late : BOOLEAN]
    BY <1>6, <1>11
  <2> QED
    BY <1>1, <1>5, <1>7, <2>1 DEF RestOK
<1>15. DialogOK' /\ Opened'
  BY <1>1, <1>3, <1>7, <1>9, SameDialogOK DEF Opened, Keeps
<1>16. /\ ReadsOK'
       /\ \E r \in reads' : /\ r.seq = seq' /\ r.kind = kind /\ r.pc = "sent"
                            /\ \A kinds : Brings(kinds)' = IF kind \in kinds THEN {r} ELSE {}
  BY <1>1, <1>3, <1>4, <1>8, <1>9, ReadStep DEF Keeps
<1>17. ListsCurrent'
  <2>1. SUFFICES ASSUME ui'.open, ~excuse'.missed
                 PROVE  /\ CommentsCurrent' /\ HistoryCurrent'
                        /\ Brings({"load"})' = {} => ui'.page = ui'.view
    BY DEF ListsCurrent
  <2>2. ui.open /\ ~excuse.missed /\ ~Missed(kind)
    BY <1>9, <1>10, <2>1 DEF Keeps
  <2>3. /\ CommentsCurrent /\ HistoryCurrent
        /\ Brings({"load"}) = {} => ui.page = ui.view
    BY <1>1, <2>2 DEF ListsCurrent
  <2>4. \A q \in reads : q.seq = seq => q.kind = kind
    BY <2>2 DEF Missed
  <2>5. \A kinds : kind \notin kinds => Brings(kinds) = {} /\ Brings(kinds)' = {}
    BY <1>16, <2>4 DEF Brings
  <2>6. ui'.issue = ui.issue /\ ui'.view = ui.view /\ ui'.page \in {ui.page, ui.view}
    BY <1>9 DEF Keeps
  <2>7. \A q \in saves \ {s} : q \in saves'
    BY DEF SaveReturns
  <2>8. CASE kind = "comments"
    <3>1. CommentsCurrent'
      BY <1>16, <2>8 DEF CommentsCurrent
    <3>2. HistoryCurrent'
      BY <1>4, <1>7, <2>3, <2>5, <2>6, <2>7, <2>8 DEF HistoryCurrent
    <3> QED
      BY <2>3, <2>5, <2>6, <2>8, <3>1, <3>2
  <2>9. CASE kind = "history"
    <3>1. HistoryCurrent'
      BY <1>16, <2>9 DEF HistoryCurrent
    <3>2. CommentsCurrent'
      BY <1>4, <1>7, <2>3, <2>5, <2>6, <2>7, <2>9 DEF CommentsCurrent
    <3> QED
      BY <2>3, <2>5, <2>6, <2>9, <3>1, <3>2
  <2> QED
    BY <1>4, <2>8, <2>9
<1> QED
  BY <1>12, <1>13, <1>14, <1>15, <1>16, <1>17 DEF AreaInductive

\* A request is answered: unless it is no longer the newest, the lists it brings are shown.
LEMMA ReadReturnsStep == ASSUME AreaInductive, NEW r \in reads, ReadReturns(r) PROVE AreaInductive'
<1>1. PageOK /\ DialogOK /\ ReadsOK /\ SavesOK /\ RestOK /\ Opened /\ ListsCurrent
  BY DEF AreaInductive
<1> DEFINE lost == r.pc = "failed" \/ IsStale(r)
           ended == {s \in saves : s.seq = r.seq}
           closes == \E s \in ended : s.close
<1> PICK u : u = Taken(ui, r)
  OBVIOUS
<1> PICK taken : taken = IF lost THEN ui ELSE Rendered(u)
  OBVIOUS
<1>2. /\ ui' = IF closes THEN Closed(taken) ELSE taken
      /\ reads' = reads \ {r} /\ saves' = saves \ ended
      /\ excuse' = [excuse EXCEPT !.missed = @ \/ (r.pc = "failed" /\ r.seq = seq)]
      /\ UNCHANGED <<dialog, seq, server, actions, failures>>
      /\ r.pc # "sent"
  BY DEF ReadReturns
<1>3. r \in Reading /\ r.seq \in 1..seq /\ r.view \in View /\ ui \in Page
  BY <1>1 DEF ReadsOK, Reading, PageOK
<1>4. /\ u \in Page
      /\ u.open = ui.open /\ u.issue = ui.issue /\ u.text = ui.text
      /\ u.editor = ui.editor /\ u.draft = ui.draft /\ u.editors = ui.editors
      /\ r.kind \in {"load", "comments"} => u.view.comments = r.view.comments
      /\ r.kind \in {"load", "history"} => u.view.history = r.view.history
      /\ r.kind = "history" => u.view.comments = ui.view.comments
      /\ r.kind = "comments" => u.view.history = ui.view.history
  <2>1. CASE r.kind = "load"
    <3>1. u = [ui EXCEPT !.view = r.view]
      BY <2>1 DEF Taken
    <3> QED
      BY <1>3, <2>1, <3>1 DEF Page
  <2>2. CASE r.kind = "history"
    <3>1. u = [ui EXCEPT !.view.history = r.view.history]
      BY <2>2 DEF Taken
    <3> QED
      BY <1>3, <2>2, <3>1 DEF Page, View
  <2>3. CASE r.kind = "comments"
    <3>1. u = [ui EXCEPT !.view.comments = r.view.comments]
      BY <2>3 DEF Taken
    <3> QED
      BY <1>3, <2>3, <3>1 DEF Page, View
  <2> QED
    BY <1>3, <2>1, <2>2, <2>3 DEF Reading
<1>5. /\ taken \in Page /\ taken.issue = ui.issue /\ (taken.open => ui.open)
      /\ taken.text \in {ui.text, None} /\ (Blank(ui) => Blank(taken))
      /\ OneShown(ui) => OneShown(taken)
  <2>1. CASE lost
    BY <1>3, <2>1
  <2>2. CASE ~lost
    BY <1>3, <1>4, <2>2, RenderedTidies DEF Keeps, Blank
  <2> QED
    BY <2>1, <2>2
<1>6. Tidies(taken, ui') /\ (ui'.open => ui' = taken)
  BY <1>2, <1>5, ClosedTidies, TidiesSame
<1>7. excuse.late = excuse'.late /\ excuse' \in [missed : BOOLEAN, late : BOOLEAN]
  BY <1>1, <1>2 DEF RestOK
<1>8. excuse'.missed = (excuse.missed \/ (r.pc = "failed" /\ r.seq = seq))
  BY <1>1, <1>2 DEF RestOK
<1>9. PageOK'
  BY <1>1, <1>5, <1>6, <1>7 DEF PageOK, Tidies, Keeps
<1>10. ReadsOK'
  <2>1. ui'.issue = ui.issue /\ (ui'.open => ui.open)
    BY <1>5, <1>6 DEF Tidies, Keeps
  <2> QED
    BY <1>1, <1>2, <2>1 DEF ReadsOK
<1>11. SavesOK'
  <2>1. ui'.text \in {ui.text, None}
    BY <1>5, <1>6 DEF Tidies, Keeps
  <2> QED
    BY <1>1, <1>2, <2>1 DEF SavesOK, SaveOK
<1>12. RestOK' /\ DialogOK' /\ Opened'
  BY <1>1, <1>2, <1>5, <1>6, <1>7, SameDialogOK DEF RestOK, Opened, Tidies, Keeps
<1>13. \A field \in BOOLEAN : AboutToAsk(field) => AboutToAsk(field)'
  <2>1. \A s \in saves : s.pc = "saved" => s \in saves'
    BY <1>1, <1>2, <1>3 DEF SavesOK, SaveOK
  <2> QED
    BY <2>1 DEF AboutToAsk
<1>14. ListsCurrent'
  <2>1. SUFFICES ASSUME ui'.open, ~excuse'.missed
                 PROVE  ListsCurrent'
    BY DEF ListsCurrent
  <2>2. ui' = taken /\ ui.open /\ ~excuse.missed /\ ~(r.pc = "failed" /\ r.seq = seq)
    BY <1>5, <1>6, <1>8, <2>1
  <2>3. CASE r.seq # seq
    <3>1. \A kinds : Brings(kinds)' = Brings(kinds)
      BY <1>2, <2>3 DEF Brings
    <3>2. Stays(ui, ui')
      BY <2>2, <2>3 DEF Stays, IsStale
    <3> QED
      BY <1>1, <1>2, <1>8, <1>13, <3>1, <3>2, ListsKept
  <2>4. CASE r.seq = seq
    <3>1. r.pc = "answered" /\ ~lost
      BY <1>2, <1>3, <2>2, <2>4 DEF IsStale, Reading
    <3>2. ui'.view = u.view /\ ui'.page = u.view /\ ui'.issue = ui.issue
      BY <1>4, <2>2, <3>1, RenderedTidies DEF Keeps
    <3>3. \A kinds : Brings(kinds) = (IF r.kind \in kinds THEN {r} ELSE {})
      BY <1>1, <2>4 DEF Brings, ReadsOK
    <3>4. \A kinds : Brings(kinds)' = {}
      BY <1>1, <1>2, <2>4 DEF Brings, ReadsOK
    <3>5. CommentsCurrent /\ HistoryCurrent
      BY <1>1, <2>2 DEF ListsCurrent
    <3>6. r.kind \in {"load", "comments", "history"}
      BY <1>3 DEF Reading
    <3>7. CommentsCurrent'
      <4>1. CASE AboutToAsk(FALSE)
        BY <1>13, <4>1 DEF AboutToAsk, CommentsCurrent
      <4>2. CASE ~AboutToAsk(FALSE)
        <5>1. u.view.comments = server[ui.issue].comments
          BY <1>4, <3>1, <3>3, <3>5, <3>6, <4>2 DEF AboutToAsk, CommentsCurrent
        <5> QED
          BY <1>2, <3>2, <3>4, <5>1 DEF CommentsCurrent
      <4> QED
        BY <4>1, <4>2
    <3>8. HistoryCurrent'
      <4>1. CASE AboutToAsk(TRUE)
        BY <1>13, <4>1 DEF AboutToAsk, HistoryCurrent
      <4>2. CASE ~AboutToAsk(TRUE)
        <5>1. u.view.history = server[ui.issue].history
          BY <1>4, <3>1, <3>3, <3>5, <3>6, <4>2 DEF AboutToAsk, HistoryCurrent
        <5> QED
          BY <1>2, <3>2, <3>4, <5>1 DEF HistoryCurrent
      <4> QED
        BY <4>1, <4>2
    <3> QED
      BY <3>2, <3>7, <3>8 DEF ListsCurrent
  <2> QED
    BY <2>3, <2>4
<1> QED
  BY <1>9, <1>10, <1>11, <1>12, <1>14 DEF AreaInductive

-----------------------------------------------------------------------------
LEMMA InitFine == Init => AreaInductive
<1> SUFFICES ASSUME Init PROVE AreaInductive
  OBVIOUS
<1>1. Empty \in View
  BY DEF Empty, View
<1>2. PageOK
  BY <1>1 DEF Init, PageOK, Page, Blank, OneShown, Drafts
<1>3. DialogOK
  BY DEF Init, NoDialog, DialogOK, OneQuestion
<1>4. ReadsOK /\ SavesOK
  BY DEF Init, ReadsOK, SavesOK
<1>5. RestOK
  <2>1. [comments : [Comments -> 0..1], history : {0}] \subseteq View
    BY DEF View
  <2>2. server \in [Issues -> View]
    BY <2>1 DEF Init
  <2> QED
    BY <2>2, ActivityAssumption DEF Init, RestOK
<1>6. Opened /\ ListsCurrent
  BY DEF Init, NoDialog, Opened, ListsCurrent
<1> QED
  BY <1>2, <1>3, <1>4, <1>5, <1>6 DEF AreaInductive

LEMMA NextFine == ASSUME AreaInductive, [Next]_areaVars PROVE AreaInductive'
<1>1. CASE UNCHANGED areaVars
  <2>1. UNCHANGED <<ui, dialog, seq, reads, saves, server, actions, failures, excuse>>
    BY <1>1 DEF areaVars
  <2>2. Tidies(ui, ui') /\ DialogOK'
    BY <2>1, TidiesSame, SameDialogOK DEF AreaInductive, PageOK
  <2> QED
    BY <2>1, <2>2, PageStep DEF AreaInductive, Opened
<1>2. CASE Refused
  BY <1>2, RefusedStep
<1>3. CASE User
  BY <1>3, OpenStep, SwitchTabStep, WriteNewStep, SubmitNewStep, ChangeFieldStep, DoneStep,
     RemoveCommentStep, EnterEditStep, SaveEditStep DEF User
<1>4. CASE CancelEditor
  BY <1>4, CancelEditorStep
<1>5. CASE Dialog
  BY <1>5, CancelStep, ConfirmStep DEF Dialog
<1>6. CASE Network
  BY <1>6, ServeStep, ServeInVainStep, SaveFailsStep, SaveReturnsStep, ServeReadStep,
     ReadReturnsStep DEF Network
<1> QED
  BY <1>1, <1>2, <1>3, <1>4, <1>5, <1>6 DEF Next

\* What there is of an issue, its editors, saves and requests keeps its type.
THEOREM ActivityTyped == Spec => []TypeOK
<1>1. AreaInductive => TypeOK
  BY InductiveTyped
<1> QED
  BY <1>1, InitFine, NextFine, PTL DEF Spec

\* In whatever order requests and answers pass each other, the page shows the comments and the
\* history of the open issue as they are once nothing is under way (loadActivity,
\* refreshComments, refreshHistory, isStale).
THEOREM PageAlwaysShowsIssue == Spec => []PageShowsIssue
<1>1. ASSUME AreaInductive, ui.open, reads = {}, saves = {}, ~excuse.missed
      PROVE  ui.page = server[ui.issue]
  <2>1. PageOK /\ RestOK /\ ListsCurrent /\ ui.issue \in Issues
    BY <1>1, NotBlank DEF AreaInductive, Blank
  <2>2. \A kinds : Brings(kinds) = {}
    BY <1>1 DEF Brings
  <2>3. /\ ui.view.comments = server[ui.issue].comments
        /\ ui.view.history = server[ui.issue].history
        /\ ui.page = ui.view
    BY <1>1, <2>1, <2>2 DEF ListsCurrent, CommentsCurrent, HistoryCurrent
  <2>4. ui.view \in View /\ server[ui.issue] \in View
    BY <2>1 DEF PageOK, Page, RestOK
  <2>5. ui.view = server[ui.issue]
    BY <2>3, <2>4 DEF View
  <2> QED
    BY <2>3, <2>5
<1>2. AreaInductive => PageShowsIssue
  BY <1>1 DEF PageShowsIssue
<1> QED
  BY <1>2, InitFine, NextFine, PTL DEF Spec

\* One comment at a time is in edit mode (enterCommentEdit), unless an answer came late.
THEOREM OneEditorAtATime == Spec => []OneEditor
<1>1. AreaInductive => OneEditor
  BY DEF AreaInductive, PageOK, OneShown, OneEditor
<1> QED
  BY <1>1, InitFine, NextFine, PTL DEF Spec

\* The answer to a new comment takes no text along that was not sent (submitNewComment).
THEOREM OnlySentTextIsLost == Spec => []OnlySentTextIsCleared
<1>1. AreaInductive => OnlySentTextIsCleared
  BY DEF AreaInductive, SavesOK, SaveOK, OnlySentTextIsCleared
<1> QED
  BY <1>1, InitFine, NextFine, PTL DEF Spec

\* A click answers the question on the screen and no other (showConfirm).
THEOREM OneQuestionAtATime == Spec => []OneQuestion
<1>1. AreaInductive => OneQuestion
  BY DEF AreaInductive, DialogOK
<1> QED
  BY <1>1, InitFine, NextFine, PTL DEF Spec

-----------------------------------------------------------------------------
(* The order of the items. *)

Before(list, x, y) == \/ list[x].pos < list[y].pos
                      \/ list[x].pos = list[y].pos /\ x < y
ByPos(list) == {p \in (DOMAIN list) \X (DOMAIN list) : Before(list, p[1], p[2])}

LEMMA ByPosIsBefore ==
    ASSUME NEW list, NEW x \in DOMAIN list, NEW y \in DOMAIN list
    PROVE  <<x, y>> \in ByPos(list) <=> Before(list, x, y)
<1>1. <<x, y>> \in (DOMAIN list) \X (DOMAIN list)
  OBVIOUS
<1>2. <<x, y>>[1] = x /\ <<x, y>>[2] = y
  OBVIOUS
<1> QED
  BY <1>1, <1>2 DEF ByPos

LEMMA ByPosLinear ==
    ASSUME NEW list, DOMAIN list \subseteq TaskIds, \A t \in DOMAIN list : list[t].pos \in Nat
    PROVE  IsFiniteSet(DOMAIN list) /\ Linear(ByPos(list), DOMAIN list)
<1>1. IsFiniteSet(DOMAIN list)
  BY FS_Subset, TasksAssumption
<1>2. \A t \in DOMAIN list : t \in Nat
  BY TasksAssumption
<1>3. \A x, y \in DOMAIN list : <<x, y>> \in ByPos(list) <=> Before(list, x, y)
  BY ByPosIsBefore
<1> QED
  BY <1>1, <1>2, <1>3 DEF Linear, Before

LEMMA AlongByPos ==
    ASSUME NEW list, NEW s \in [1..Cardinality(DOMAIN list) -> DOMAIN list]
    PROVE  Along(ByPos(list), s) <=>
             \A m, n \in DOMAIN s : m < n =>
                \/ list[s[m]].pos < list[s[n]].pos
                \/ list[s[m]].pos = list[s[n]].pos /\ s[m] < s[n]
<1>1. \A m, n \in DOMAIN s : <<s[m], s[n]>> \in ByPos(list) <=> Before(list, s[m], s[n])
  BY ByPosIsBefore
<1> QED
  BY <1>1 DEF Along, Before

\* renderTasks shows every task once, and there is one order it can show them in.
LEMMA SortedEnumerates ==
    ASSUME NEW list, DOMAIN list \subseteq TaskIds, \A t \in DOMAIN list : list[t].pos \in Nat
    PROVE  /\ Enumerates(Sorted(list), ByPos(list), DOMAIN list)
           /\ IsOrder(Sorted(list), DOMAIN list)
           /\ \A s : Enumerates(s, ByPos(list), DOMAIN list) => s = Sorted(list)
<1>1. IsFiniteSet(DOMAIN list) /\ Linear(ByPos(list), DOMAIN list)
  BY ByPosLinear
<1>2. PICK r : Enumerates(r, ByPos(list), DOMAIN list)
  BY <1>1, EnumerationExists
<1> DEFINE S == [1..Cardinality(DOMAIN list) -> DOMAIN list]
           P(s) == \A m, n \in DOMAIN s : m < n =>
                      \/ list[s[m]].pos < list[s[n]].pos
                      \/ list[s[m]].pos = list[s[n]].pos /\ s[m] < s[n]
<1>3. \A s \in S : Along(ByPos(list), s) <=> P(s)
  BY AlongByPos
<1>4. Sorted(list) = CHOOSE s \in S : P(s)
  BY DEF Sorted
<1>5. r \in S /\ P(r)
  BY <1>2, <1>3 DEF Enumerates
<1> HIDE DEF S, P
<1>6. Sorted(list) \in S /\ P(Sorted(list))
  BY <1>4, <1>5
<1>7. Enumerates(Sorted(list), ByPos(list), DOMAIN list)
  BY <1>3, <1>6 DEF Enumerates, S
<1>8. \A s : Enumerates(s, ByPos(list), DOMAIN list) => s = Sorted(list)
  BY <1>1, <1>7, EnumerationUnique
<1>9. \A m, n \in DOMAIN Sorted(list) : Sorted(list)[m] = Sorted(list)[n] => m = n
  BY <1>1, <1>7, EnumerationRanks, Zenon
<1>10. IsOrder(Sorted(list), DOMAIN list)
  BY <1>7, <1>9 DEF IsOrder, Enumerates
<1> QED
  BY <1>7, <1>8, <1>10

\* Only the positions matter.
LEMMA SortedByPositions ==
    ASSUME NEW list, DOMAIN list \subseteq TaskIds, \A t \in DOMAIN list : list[t].pos \in Nat,
           NEW other, DOMAIN other = DOMAIN list,
           \A t \in DOMAIN list : other[t].pos = list[t].pos
    PROVE  Sorted(other) = Sorted(list)
<1>1. ByPos(other) = ByPos(list)
  <2>1. \A x, y \in DOMAIN list : Before(other, x, y) <=> Before(list, x, y)
    BY DEF Before
  <2>2. \A p \in (DOMAIN list) \X (DOMAIN list) : p[1] \in DOMAIN list /\ p[2] \in DOMAIN list
    OBVIOUS
  <2> QED
    BY <2>1, <2>2 DEF ByPos
<1>2. Enumerates(Sorted(other), ByPos(other), DOMAIN other)
  BY SortedEnumerates
<1> QED
  BY <1>1, <1>2, SortedEnumerates

\* saveTaskOrder: with the positions it gives, the items stand where they were dropped.
LEMMA DroppedIsSorted ==
    ASSUME NEW s, NEW D \in SUBSET TaskIds, IsOrder(s, D), NEW list, DOMAIN list = D,
           \A t \in D : list[t].pos = (CHOOSE k \in DOMAIN s : s[k] = t) - 1
    PROVE  /\ \A n \in DOMAIN s : s[n] \in D /\ list[s[n]].pos = n - 1
           /\ \A t \in D : list[t].pos \in Nat /\ \E n \in DOMAIN s : s[n] = t
           /\ s = Sorted(list)
<1> DEFINE c == Cardinality(D)
<1>0. IsFiniteSet(D)
  BY FS_Subset, TasksAssumption
<1>1. IsFiniteSet(D) /\ c \in Nat /\ IsFiniteSet(1..c) /\ Cardinality(1..c) = c
  BY <1>0, FS_CardinalityType, FS_Interval
<1>2. s \in [1..c -> D] /\ DOMAIN s = 1..c /\ \A m, n \in 1..c : s[m] = s[n] => m = n
  BY DEF IsOrder
<1>3. s \in Injection(1..c, D)
  BY <1>2 DEF Injection, IsInjective
<1>4. s \in Surjection(1..c, D)
  BY <1>1, <1>3, FS_Injection
<1>5. \A t \in D : \E n \in 1..c : s[n] = t
  BY <1>4 DEF Surjection
<1>6. ASSUME NEW n \in 1..c
      PROVE  s[n] \in D /\ list[s[n]].pos = n - 1
  <2>1. s[n] \in D
    BY <1>2
  <2>2. (CHOOSE k \in DOMAIN s : s[k] = s[n]) = n
    BY <1>2
  <2> QED
    BY <2>1, <2>2
<1>7. \A t \in D : list[t].pos \in Nat
  <2> SUFFICES ASSUME NEW t \in D
               PROVE  list[t].pos \in Nat
    OBVIOUS
  <2>1. PICK n \in 1..c : s[n] = t
    BY <1>5
  <2>2. n - 1 \in Nat
    BY <1>1
  <2> QED
    BY <1>6, <2>1, <2>2
<1>8. \A m, n \in DOMAIN s : m < n => list[s[m]].pos < list[s[n]].pos
  <2> SUFFICES ASSUME NEW m \in 1..c, NEW n \in 1..c, m < n
               PROVE  list[s[m]].pos < list[s[n]].pos
    BY <1>2
  <2>1. list[s[m]].pos = m - 1 /\ list[s[n]].pos = n - 1
    BY <1>6
  <2> QED
    BY <1>1, <2>1
<1>9. Enumerates(s, ByPos(list), DOMAIN list)
  BY <1>2, <1>8, AlongByPos DEF Enumerates
<1>10. s = Sorted(list)
  BY <1>7, <1>9, SortedEnumerates
<1> QED
  BY <1>2, <1>5, <1>6, <1>7, <1>10

-----------------------------------------------------------------------------
(* The inductive invariant. *)

TaskLists == UNION {[ids -> Task] : ids \in SUBSET TaskIds}
Boxes == UNION {[ids -> BOOLEAN] : ids \in SUBSET TaskIds}
TaskSave == [n : Nat, kind : {"toggle", "title", "order", "add", "delete"}, ids : SUBSET TaskIds,
             body : TaskLists, was : TaskLists, drawing : Nat, alone : BOOLEAN,
             pc : {"sent", "saved", "failed"}]

Last == items[Len(items)]

TaskTypes ==
    /\ tasks \in TaskLists /\ stored \in TaskLists
    /\ order = Sorted(tasks)
    /\ items \in Seq(Boxes) /\ items # <<>> /\ DOMAIN Last = DOMAIN tasks
    /\ taskSaves \subseteq TaskSave
    /\ taskActions \in 0..MaxTaskSaves /\ taskFailures \in 0..MaxTaskFailures /\ disturbed \in BOOLEAN

\* What a request writes it has the tasks of, and what its failure puts back.
TaskSaveOK(s) ==
    /\ s.n \in 1..taskActions /\ s.drawing \in 1..Len(items)
    /\ s.ids \subseteq DOMAIN s.body
    /\ s.kind \in {"toggle", "title", "add", "delete"} => \E t \in TaskIds : s.ids = {t}
    /\ s.kind = "toggle" => s.ids \subseteq DOMAIN items[s.drawing]
    /\ s.kind \in {"title", "order"} => s.ids \subseteq DOMAIN s.was

\* Until its answer is handled nobody else knows the task that is added.
AddOK(s) ==
    s.kind = "add" /\ s.pc # "failed" =>
        /\ s.ids \cap DOMAIN tasks = {}
        /\ \A r \in taskSaves : r # s => r.ids \cap s.ids = {}
        /\ s.pc = "sent" => s.ids \cap DOMAIN stored = {}
        /\ s.pc = "saved" => \A t \in s.ids : t \in DOMAIN stored /\ stored[t] = s.body[t]

DeleteOK(s) == s.kind = "delete" /\ s.pc = "saved" => s.ids \cap DOMAIN stored = {}

\* What the page and the server differ by while s is the only request.
Undoable(s) ==
    /\ s.was = stored /\ DOMAIN tasks = DOMAIN stored
    /\ \A t \in DOMAIN stored :
          /\ t \notin s.ids \/ s.kind \in {"add", "delete"} => tasks[t] = stored[t]
          /\ t \in s.ids /\ s.kind = "toggle" => tasks[t] = [stored[t] EXCEPT !.done = ~stored[t].done]
          /\ t \in s.ids /\ s.kind = "title" => tasks[t] = [stored[t] EXCEPT !.title = tasks[t].title]
          /\ t \in s.ids /\ s.kind = "order" => tasks[t] = [stored[t] EXCEPT !.pos = tasks[t].pos]

AloneOK(s) ==
    s.alone => /\ taskSaves = {s} /\ s.drawing = Len(items)
               /\ ~disturbed /\ s.pc # "saved" => Undoable(s)

Asks(s, kinds, t) == s.pc = "sent" /\ s.kind \in kinds /\ t \in s.ids
Texts == {"toggle", "title"}
Places == {"toggle", "title", "order"}

\* The page shows of a task what the newest request for it will have written.
TextAgrees(t) ==
    \/ /\ \A s \in taskSaves : ~Asks(s, Texts, t)
       /\ tasks[t].done = stored[t].done /\ tasks[t].title = stored[t].title
    \/ \E s \in taskSaves :
          /\ Asks(s, Texts, t) /\ \A r \in taskSaves : Asks(r, Texts, t) => r.n <= s.n
          /\ tasks[t].done = s.body[t].done /\ tasks[t].title = s.body[t].title
PosAgrees(t) ==
    \/ /\ \A s \in taskSaves : ~Asks(s, Places, t)
       /\ tasks[t].pos = stored[t].pos
    \/ \E s \in taskSaves :
          /\ Asks(s, Places, t) /\ \A r \in taskSaves : Asks(r, Places, t) => r.n <= s.n
          /\ tasks[t].pos = s.body[t].pos

\* One of the two has a task the other has not only while the answer is on its way.
Answering(kind, t) == \E s \in taskSaves : s.kind = kind /\ s.pc = "saved" /\ t \in s.ids

BoxesShown == \A t \in DOMAIN tasks : Last[t] = tasks[t].done
ListsAgree ==
    /\ \A t \in DOMAIN tasks \cap DOMAIN stored : TextAgrees(t) /\ PosAgrees(t)
    /\ \A t \in DOMAIN tasks \ DOMAIN stored : Answering("delete", t)
    /\ \A t \in DOMAIN stored \ DOMAIN tasks : Answering("add", t)

TasksInductive ==
    /\ TaskTypes
    /\ \A s \in taskSaves : TaskSaveOK(s) /\ AddOK(s) /\ DeleteOK(s) /\ AloneOK(s)
    /\ \A s, r \in taskSaves : r.n = s.n => r = s
    /\ ~disturbed => BoxesShown
    /\ ~disturbed /\ (\A s \in taskSaves : s.pc # "failed") => ListsAgree

LEMMA ListTyped ==
    /\ \A list \in TaskLists : DOMAIN list \subseteq TaskIds /\ \A t \in DOMAIN list : list[t] \in Task
    /\ \A ids \in SUBSET TaskIds : \A list : list \in [ids -> Task] => list \in TaskLists
    /\ \A box \in Boxes : DOMAIN box \subseteq TaskIds /\ \A t \in DOMAIN box : box[t] \in BOOLEAN
    /\ \A ids \in SUBSET TaskIds : \A box : box \in [ids -> BOOLEAN] => box \in Boxes
BY DEF TaskLists, Boxes

LEMMA TasksInvariantTyped == TasksInductive => TasksTypeOK
<1> SUFFICES ASSUME TasksInductive
             PROVE  TasksTypeOK
  OBVIOUS
<1>1. TaskTypes
  BY DEF TasksInductive
<1>2. /\ DOMAIN tasks \subseteq TaskIds /\ \A t \in DOMAIN tasks : tasks[t] \in Task
      /\ DOMAIN stored \subseteq TaskIds /\ \A t \in DOMAIN stored : stored[t] \in Task
  BY <1>1, ListTyped DEF TaskTypes
<1>3. IsOrder(order, DOMAIN tasks)
  <2>1. \A t \in DOMAIN tasks : tasks[t].pos \in Nat
    BY <1>2 DEF Task
  <2> QED
    BY <1>1, <1>2, <2>1, SortedEnumerates DEF TaskTypes
<1>4. /\ \A n \in DOMAIN items : DOMAIN items[n] \subseteq TaskIds
      /\ DOMAIN items[Len(items)] = DOMAIN tasks
      /\ DOMAIN items = 1..Len(items)
  <2>1. \A n \in DOMAIN items : items[n] \in Boxes
    BY <1>1 DEF TaskTypes
  <2> QED
    BY <1>1, <2>1, ListTyped DEF TaskTypes, Last
<1>5. ASSUME NEW s \in taskSaves
      PROVE  /\ s.kind \in {"toggle", "title", "order", "add", "delete"}
             /\ s.pc \in {"sent", "saved", "failed"} /\ s.n \in 1..taskActions
             /\ s.drawing \in DOMAIN items
  BY <1>1, <1>4 DEF TasksInductive, TaskTypes, TaskSave, TaskSaveOK
<1> QED
  BY <1>1, <1>2, <1>3, <1>4, <1>5 DEF TasksTypeOK, TaskTypes

LEMMA TasksInvariantShows == TasksInductive => TasksAsStored
<1> SUFFICES ASSUME TasksInductive, taskSaves = {}, ~disturbed
             PROVE  /\ tasks = stored
                    /\ order = Sorted(tasks)
                    /\ \A t \in DOMAIN tasks : items[Len(items)][t] = tasks[t].done
  BY DEF TasksAsStored
<1>1. TaskTypes /\ BoxesShown /\ ListsAgree
  BY DEF TasksInductive
<1>2. DOMAIN tasks = DOMAIN stored
  BY <1>1 DEF ListsAgree, Answering
<1>3. ASSUME NEW t \in DOMAIN tasks
      PROVE  tasks[t] = stored[t]
  <2>1. tasks[t] \in Task /\ stored[t] \in Task
    BY <1>1, <1>2, ListTyped DEF TaskTypes
  <2>2. /\ tasks[t].done = stored[t].done /\ tasks[t].title = stored[t].title
        /\ tasks[t].pos = stored[t].pos
    BY <1>1, <1>2 DEF ListsAgree, TextAgrees, PosAgrees
  <2> QED
    BY <2>1, <2>2 DEF Task
<1>4. tasks = stored
  <2>1. tasks \in [DOMAIN tasks -> Task] /\ stored \in [DOMAIN stored -> Task]
    BY <1>1 DEF TaskTypes, TaskLists
  <2> QED
    BY <1>2, <1>3, <2>1
<1> QED
  BY <1>1, <1>4 DEF TaskTypes, BoxesShown, Last

LEMMA TasksInitInductive == TasksInit => TasksInductive
<1> SUFFICES ASSUME TasksInit
             PROVE  TasksInductive
  OBVIOUS
<1>1. PICK ids \in SUBSET TaskIds :
        stored \in [ids -> [done : {FALSE}, title : {0}, pos : 0..Cardinality(ids)]]
  BY DEF TasksInit
<1>2. stored \in [ids -> Task]
  <2>1. IsFiniteSet(ids)
    BY FS_Subset, TasksAssumption
  <2>2. Cardinality(ids) \in Nat
    BY <2>1, FS_CardinalityType
  <2>3. ASSUME NEW x \in [done : {FALSE}, title : {0}, pos : 0..Cardinality(ids)]
        PROVE  x \in Task
    <3>1. x.done = FALSE /\ x.title = 0 /\ x.pos \in 0..Cardinality(ids)
      OBVIOUS
    <3>2. x = [done |-> x.done, title |-> x.title, pos |-> x.pos]
      OBVIOUS
    <3>3. x.title \in Nat /\ x.pos \in Nat
      BY <2>2, <3>1
    <3>4. x.done \in BOOLEAN
      BY <3>1
    <3> QED
      BY <3>2, <3>3, <3>4 DEF Task
  <2> QED
    BY <1>1, <2>3
<1>3. stored \in TaskLists /\ tasks = stored /\ DOMAIN stored = ids
  BY <1>2, ListTyped DEF TasksInit
<1> DEFINE box == [t \in DOMAIN tasks |-> tasks[t].done]
<1>4. box \in Boxes /\ DOMAIN box = DOMAIN tasks
  <2>1. box \in [ids -> BOOLEAN]
    BY <1>2, <1>3 DEF Task
  <2> QED
    BY <1>3, <2>1, ListTyped
<1>5. items = <<box>>
  BY DEF TasksInit
<1>6. BoxesShown
  <2>1. Last = box
    BY <1>5 DEF Last
  <2> QED
    BY <2>1 DEF BoxesShown
<1> HIDE DEF box
<1>7. items \in Seq(Boxes) /\ items # <<>> /\ Len(items) = 1 /\ Last = box
  BY <1>4, <1>5 DEF Last
<1>8. taskSaves = {} /\ taskActions = 0 /\ taskFailures = 0 /\ disturbed = FALSE /\ order = Sorted(tasks)
  BY DEF TasksInit
<1>9. TaskTypes
  <2>1. taskActions \in 0..MaxTaskSaves /\ taskFailures \in 0..MaxTaskFailures
    BY <1>8, TasksAssumption
  <2>2. taskSaves \subseteq TaskSave /\ disturbed \in BOOLEAN
    BY <1>8
  <2> QED
    BY <1>3, <1>4, <1>7, <1>8, <2>1, <2>2 DEF TaskTypes
<1>10. ListsAgree
  BY <1>3, <1>8 DEF ListsAgree, TextAgrees, PosAgrees
<1> QED
  BY <1>6, <1>8, <1>9, <1>10 DEF TasksInductive

-----------------------------------------------------------------------------
(* The user's changes. *)

\* Before its request, a change was made to the page.
LEMMA SaveAgrees ==
    ASSUME TasksInductive, NEW new, new.n = taskActions + 1, stored' = stored,
           taskSaves' = {[s EXCEPT !.alone = FALSE] : s \in taskSaves} \cup {new},
           NEW t
    PROVE  /\ Asks(new, Texts, t) /\ tasks'[t].done = new.body[t].done
              /\ tasks'[t].title = new.body[t].title => TextAgrees(t)'
           /\ ~Asks(new, Texts, t) /\ tasks'[t].done = tasks[t].done
              /\ tasks'[t].title = tasks[t].title /\ TextAgrees(t) => TextAgrees(t)'
           /\ Asks(new, Places, t) /\ tasks'[t].pos = new.body[t].pos => PosAgrees(t)'
           /\ ~Asks(new, Places, t) /\ tasks'[t].pos = tasks[t].pos /\ PosAgrees(t) => PosAgrees(t)'
           /\ \A kind : Answering(kind, t) => Answering(kind, t)'
<1>1. TaskTypes /\ taskActions \in Nat
  BY TasksAssumption DEF TasksInductive, TaskTypes
<1>2. ASSUME NEW s \in taskSaves, NEW q, q = [s EXCEPT !.alone = FALSE]
      PROVE  /\ q \in taskSaves' /\ q.n = s.n /\ q.n \in Nat /\ q.n < new.n
             /\ q.kind = s.kind /\ q.pc = s.pc /\ q.ids = s.ids /\ q.body = s.body
             /\ \A kinds : Asks(q, kinds, t) <=> Asks(s, kinds, t)
  <2>1. s \in TaskSave /\ s.n \in 1..taskActions
    BY <1>1 DEF TasksInductive, TaskTypes, TaskSaveOK
  <2>2. q.n = s.n /\ q.kind = s.kind /\ q.pc = s.pc /\ q.ids = s.ids /\ q.body = s.body
    BY <1>2, <2>1 DEF TaskSave
  <2>3. q.n \in Nat /\ q.n < new.n
    BY <1>1, <2>1, <2>2
  <2> QED
    BY <1>2, <2>2, <2>3 DEF Asks
<1>3. \A q \in taskSaves' : q = new \/ \E s \in taskSaves : q = [s EXCEPT !.alone = FALSE]
  OBVIOUS
<1>4. new \in taskSaves' /\ new.n \in Nat
  BY <1>1
<1>5. ASSUME NEW kinds, Asks(new, kinds, t)
      PROVE  \A q \in taskSaves' : Asks(q, kinds, t) => q.n <= new.n
  BY <1>2, <1>3, <1>4
<1>6. ASSUME NEW kinds, ~Asks(new, kinds, t), \A s \in taskSaves : ~Asks(s, kinds, t)
      PROVE  \A q \in taskSaves' : ~Asks(q, kinds, t)
  BY <1>2, <1>3, <1>6
<1>7. ASSUME NEW kinds, ~Asks(new, kinds, t), NEW s \in taskSaves, Asks(s, kinds, t),
             \A r \in taskSaves : Asks(r, kinds, t) => r.n <= s.n
      PROVE  \E q \in taskSaves' : /\ Asks(q, kinds, t) /\ q.body = s.body
                                   /\ \A r \in taskSaves' : Asks(r, kinds, t) => r.n <= q.n
  <2>1. PICK q : q = [s EXCEPT !.alone = FALSE]
    OBVIOUS
  <2>2. q \in taskSaves' /\ q.n = s.n /\ q.body = s.body /\ Asks(q, kinds, t)
    BY <1>2, <1>7, <2>1
  <2>3. ASSUME NEW r \in taskSaves', Asks(r, kinds, t)
        PROVE  r.n <= q.n
    <3>1. PICK o \in taskSaves : r = [o EXCEPT !.alone = FALSE]
      BY <1>3, <1>7, <2>3
    <3>2. r.n = o.n /\ Asks(o, kinds, t)
      BY <1>2, <2>3, <3>1
    <3> QED
      BY <1>7, <2>2, <3>2
  <2> QED
    BY <2>2, <2>3
<1>8. Asks(new, Texts, t) /\ tasks'[t].done = new.body[t].done
        /\ tasks'[t].title = new.body[t].title => TextAgrees(t)'
  BY <1>4, <1>5 DEF TextAgrees, Asks, Texts
<1>9. ASSUME ~Asks(new, Texts, t), tasks'[t].done = tasks[t].done,
             tasks'[t].title = tasks[t].title, TextAgrees(t)
      PROVE  TextAgrees(t)'
  <2>1. CASE /\ \A s \in taskSaves : ~Asks(s, Texts, t)
             /\ tasks[t].done = stored[t].done /\ tasks[t].title = stored[t].title
    <3>1. \A q \in taskSaves' : ~Asks(q, Texts, t)
      BY <1>6, <1>9, <2>1
    <3> QED
      BY <1>9, <2>1, <3>1 DEF TextAgrees, Asks, Texts
  <2>2. CASE ~\A s \in taskSaves : ~Asks(s, Texts, t)
    <3>1. PICK s \in taskSaves :
             /\ Asks(s, Texts, t) /\ \A r \in taskSaves : Asks(r, Texts, t) => r.n <= s.n
             /\ tasks[t].done = s.body[t].done /\ tasks[t].title = s.body[t].title
      BY <1>9, <2>2 DEF TextAgrees
    <3>2. PICK q \in taskSaves' : /\ Asks(q, Texts, t) /\ q.body = s.body
                                  /\ \A r \in taskSaves' : Asks(r, Texts, t) => r.n <= q.n
      BY <1>7, <1>9, <3>1
    <3> QED
      BY <1>9, <3>1, <3>2 DEF TextAgrees, Asks, Texts
  <2> QED
    BY <1>9, <2>1, <2>2 DEF TextAgrees
<1>10. Asks(new, Places, t) /\ tasks'[t].pos = new.body[t].pos => PosAgrees(t)'
  BY <1>4, <1>5 DEF PosAgrees, Asks, Places
<1>11. ASSUME ~Asks(new, Places, t), tasks'[t].pos = tasks[t].pos, PosAgrees(t)
       PROVE  PosAgrees(t)'
  <2>1. CASE (\A s \in taskSaves : ~Asks(s, Places, t)) /\ tasks[t].pos = stored[t].pos
    <3>1. \A q \in taskSaves' : ~Asks(q, Places, t)
      BY <1>6, <1>11, <2>1
    <3> QED
      BY <1>11, <2>1, <3>1 DEF PosAgrees, Asks, Places
  <2>2. CASE ~\A s \in taskSaves : ~Asks(s, Places, t)
    <3>1. PICK s \in taskSaves :
             /\ Asks(s, Places, t) /\ \A r \in taskSaves : Asks(r, Places, t) => r.n <= s.n
             /\ tasks[t].pos = s.body[t].pos
      BY <1>11, <2>2 DEF PosAgrees
    <3>2. PICK q \in taskSaves' : /\ Asks(q, Places, t) /\ q.body = s.body
                                  /\ \A r \in taskSaves' : Asks(r, Places, t) => r.n <= q.n
      BY <1>7, <1>11, <3>1
    <3> QED
      BY <1>11, <3>1, <3>2 DEF PosAgrees, Asks, Places
  <2> QED
    BY <1>11, <2>1, <2>2 DEF PosAgrees
<1>12. ASSUME NEW kind, Answering(kind, t)
       PROVE  Answering(kind, t)'
  <2>1. PICK s \in taskSaves : s.kind = kind /\ s.pc = "saved" /\ t \in s.ids
    BY <1>12 DEF Answering
  <2>2. PICK q : q = [s EXCEPT !.alone = FALSE]
    OBVIOUS
  <2>3. q \in taskSaves' /\ q.kind = kind /\ q.pc = "saved" /\ t \in q.ids
    BY <1>2, <2>1, <2>2
  <2> QED
    BY <2>3 DEF Answering
<1> QED
  BY <1>8, <1>9, <1>10, <1>11, <1>12

LEMMA SaveKeeps ==
    ASSUME TasksInductive,
           NEW new \in TaskSave, new.n = taskActions + 1, new.pc = "sent",
           new.drawing = Len(items), new.alone <=> taskSaves = {},
           taskActions < MaxTaskSaves, taskActions' = taskActions + 1,
           taskSaves' = {[s EXCEPT !.alone = FALSE] : s \in taskSaves} \cup {new},
           stored' = stored, taskFailures' = taskFailures, disturbed' = disturbed,
           tasks' \in TaskLists, DOMAIN tasks' = DOMAIN tasks, order' = Sorted(tasks'),
           items' \in Seq(Boxes), Len(items') = Len(items),
           \A n \in 1..Len(items) : DOMAIN items'[n] = DOMAIN items[n],
           ~disturbed => BoxesShown', TaskSaveOK(new)',
           new.kind # "add" => new.ids \subseteq DOMAIN tasks,
           new.kind = "add" => /\ new.ids \cap DOMAIN tasks = {} /\ new.ids \cap DOMAIN stored = {}
                               /\ \A s \in taskSaves : s.ids \cap new.ids = {},
           ~disturbed /\ taskSaves = {} => Undoable(new)',
           \A t \in DOMAIN tasks :
              IF Asks(new, Texts, t)
              THEN tasks'[t].done = new.body[t].done /\ tasks'[t].title = new.body[t].title
              ELSE tasks'[t].done = tasks[t].done /\ tasks'[t].title = tasks[t].title,
           \A t \in DOMAIN tasks :
              tasks'[t].pos = IF Asks(new, Places, t) THEN new.body[t].pos ELSE tasks[t].pos
    PROVE  TasksInductive'
<1>1. TaskTypes /\ taskActions \in Nat /\ Len(items) \in Nat
  BY TasksAssumption DEF TasksInductive, TaskTypes
<1>2. \A q \in taskSaves' : q = new \/ \E s \in taskSaves : q = [s EXCEPT !.alone = FALSE]
  OBVIOUS
<1>3. ASSUME NEW s \in taskSaves, NEW q, q = [s EXCEPT !.alone = FALSE]
      PROVE  /\ q \in TaskSave /\ q.n = s.n /\ q.kind = s.kind /\ q.ids = s.ids
             /\ q.body = s.body /\ q.was = s.was /\ q.drawing = s.drawing /\ q.pc = s.pc
             /\ q.alone = FALSE
  <2>1. s \in TaskSave
    BY <1>1 DEF TaskTypes
  <2>2. q \in TaskSave
    BY <1>3, <2>1 DEF TaskSave
  <2> QED
    BY <1>3, <2>1, <2>2 DEF TaskSave
<1>4. ASSUME NEW s \in taskSaves
      PROVE  TaskSaveOK(s) /\ AddOK(s) /\ DeleteOK(s) /\ s.n \in 1..taskActions
  BY DEF TasksInductive, TaskSaveOK
<1>5. TaskTypes'
  <2>1. taskSaves' \subseteq TaskSave
    BY <1>2, <1>3
  <2>2. taskActions' \in 0..MaxTaskSaves
    BY <1>1, TasksAssumption DEF TaskTypes
  <2>3. items' # <<>> /\ DOMAIN Last' = DOMAIN tasks'
    <3>1. Len(items) \in 1..Len(items)
      BY <1>1 DEF TaskTypes
    <3> QED
      BY <1>1, <3>1 DEF TaskTypes, Last
  <2> QED
    BY <1>1, <2>1, <2>2, <2>3 DEF TaskTypes
<1>6. ASSUME NEW q \in taskSaves', q # new
      PROVE  TaskSaveOK(q)' /\ AddOK(q)' /\ DeleteOK(q)' /\ AloneOK(q)'
  <2>1. PICK s \in taskSaves : q = [s EXCEPT !.alone = FALSE]
    BY <1>2, <1>6
  <2>2. /\ q.n = s.n /\ q.kind = s.kind /\ q.ids = s.ids
        /\ q.body = s.body /\ q.was = s.was /\ q.drawing = s.drawing /\ q.pc = s.pc
        /\ q.alone = FALSE
    BY <1>3, <2>1
  <2>3. TaskSaveOK(q)'
    <3>1. q.n \in 1..taskActions' /\ q.drawing \in 1..Len(items')
      BY <1>1, <1>4, <2>2 DEF TaskSaveOK
    <3>2. q.kind = "toggle" => q.ids \subseteq DOMAIN items'[q.drawing]
      BY <1>4, <2>2 DEF TaskSaveOK
    <3>3. /\ q.ids \subseteq DOMAIN q.body
          /\ q.kind \in {"toggle", "title", "add", "delete"} => \E t \in TaskIds : q.ids = {t}
          /\ q.kind \in {"title", "order"} => q.ids \subseteq DOMAIN q.was
      BY <1>4, <2>2 DEF TaskSaveOK
    <3> QED
      BY <3>1, <3>2, <3>3 DEF TaskSaveOK
  <2>4. AddOK(q)'
    <3> SUFFICES ASSUME q.kind = "add", q.pc # "failed"
                 PROVE  /\ q.ids \cap DOMAIN tasks' = {}
                        /\ \A r \in taskSaves' : r # q => r.ids \cap q.ids = {}
                        /\ q.pc = "sent" => q.ids \cap DOMAIN stored' = {}
                        /\ q.pc = "saved" => \A t \in q.ids : t \in DOMAIN stored' /\ stored'[t] = q.body[t]
      BY DEF AddOK
    <3>1. /\ s.ids \cap DOMAIN tasks = {}
          /\ \A r \in taskSaves : r # s => r.ids \cap s.ids = {}
          /\ s.pc = "sent" => s.ids \cap DOMAIN stored = {}
          /\ s.pc = "saved" => \A t \in s.ids : t \in DOMAIN stored /\ stored[t] = s.body[t]
      BY <1>4, <2>2 DEF AddOK
    <3>2. new.ids \cap s.ids = {}
      BY <3>1
    <3>3. ASSUME NEW r \in taskSaves', r # q
          PROVE  r.ids \cap q.ids = {}
      <4>1. CASE r = new
        BY <2>2, <3>2, <4>1
      <4>2. CASE r # new
        <5>1. PICK o \in taskSaves : r = [o EXCEPT !.alone = FALSE]
          BY <1>2, <4>2
        <5>2. o # s
          BY <2>1, <3>3, <5>1
        <5>3. r.ids = o.ids
          BY <1>3, <5>1
        <5> QED
          BY <2>2, <3>1, <5>2, <5>3
      <4> QED
        BY <4>1, <4>2
    <3> QED
      BY <2>2, <3>1, <3>3
  <2>5. DeleteOK(q)' /\ AloneOK(q)'
    BY <1>4, <2>2 DEF DeleteOK, AloneOK
  <2> QED
    BY <2>3, <2>4, <2>5
<1>7. AddOK(new)' /\ DeleteOK(new)' /\ AloneOK(new)'
  <2>1. AddOK(new)'
    <3>1. ASSUME new.kind = "add", NEW r \in taskSaves', r # new
          PROVE  r.ids \cap new.ids = {}
      <4>1. PICK o \in taskSaves : r = [o EXCEPT !.alone = FALSE]
        BY <1>2, <3>1
      <4>2. r.ids = o.ids
        BY <1>3, <4>1
      <4> QED
        BY <3>1, <4>2
    <3> QED
      BY <3>1 DEF AddOK
  <2>2. ASSUME new.alone
        PROVE  taskSaves' = {new}
    BY <2>2
  <2> QED
    BY <2>1, <2>2 DEF DeleteOK, AloneOK
<1>8. ASSUME NEW q \in taskSaves', NEW r \in taskSaves', r.n = q.n
      PROVE  r = q
  <2>1. ASSUME NEW p \in taskSaves', p # new
        PROVE  p.n \in 1..taskActions
    <3>1. PICK s \in taskSaves : p = [s EXCEPT !.alone = FALSE]
      BY <1>2, <2>1
    <3>2. p.n = s.n
      BY <1>3, <3>1
    <3> QED
      BY <1>4, <3>2
  <2>2. CASE q = new \/ r = new
    BY <1>1, <1>8, <2>1, <2>2
  <2>3. CASE q # new /\ r # new
    <3>1. PICK s \in taskSaves : q = [s EXCEPT !.alone = FALSE]
      BY <1>2, <2>3
    <3>2. PICK o \in taskSaves : r = [o EXCEPT !.alone = FALSE]
      BY <1>2, <2>3
    <3>3. o.n = s.n
      BY <1>3, <1>8, <3>1, <3>2
    <3> QED
      BY <3>1, <3>2, <3>3 DEF TasksInductive
  <2> QED
    BY <2>2, <2>3
<1>9. ASSUME ~disturbed, \A q \in taskSaves' : q.pc # "failed"
      PROVE  ListsAgree'
  <2>1. ASSUME NEW s \in taskSaves
        PROVE  s.pc # "failed"
    <3>1. PICK q : q = [s EXCEPT !.alone = FALSE]
      OBVIOUS
    <3>2. q \in taskSaves' /\ q.pc = s.pc
      BY <1>3, <3>1
    <3> QED
      BY <1>9, <3>2
  <2>2. ListsAgree
    BY <1>9, <2>1 DEF TasksInductive
  <2>3. ASSUME NEW t \in DOMAIN tasks' \cap DOMAIN stored'
        PROVE  TextAgrees(t)' /\ PosAgrees(t)'
    <3>1. TextAgrees(t) /\ PosAgrees(t) /\ t \in DOMAIN tasks
      BY <2>2, <2>3 DEF ListsAgree
    <3>2. TextAgrees(t)'
      BY <3>1, SaveAgrees
    <3>3. PosAgrees(t)'
      BY <3>1, SaveAgrees
    <3> QED
      BY <3>2, <3>3
  <2>4. \A t, kind : Answering(kind, t) => Answering(kind, t)'
    BY SaveAgrees
  <2>5. /\ \A t \in DOMAIN tasks' \ DOMAIN stored' : Answering("delete", t)'
        /\ \A t \in DOMAIN stored' \ DOMAIN tasks' : Answering("add", t)'
    BY <2>2, <2>4 DEF ListsAgree
  <2> QED
    BY <2>3, <2>5 DEF ListsAgree
<1> QED
  BY <1>5, <1>6, <1>7, <1>8, <1>9 DEF TasksInductive

IsSave(new, kind, ids, body, was) ==
    /\ new \in TaskSave
    /\ new.n = taskActions + 1 /\ new.kind = kind /\ new.ids = ids /\ new.body = body
    /\ new.was = was /\ new.drawing = Len(items) /\ new.pc = "sent"
    /\ new.alone <=> taskSaves = {}
    /\ taskSaves' = {[s EXCEPT !.alone = FALSE] : s \in taskSaves} \cup {new}

LEMMA SaveIs ==
    ASSUME TasksInductive, NEW kind \in {"toggle", "title", "order", "add", "delete"},
           NEW ids \in SUBSET TaskIds, NEW body \in TaskLists, NEW was \in TaskLists,
           SaveTasks(kind, ids, body, was)
    PROVE  /\ \E new : IsSave(new, kind, ids, body, was)
           /\ taskActions < MaxTaskSaves /\ taskActions' = taskActions + 1 /\ taskActions \in Nat
           /\ stored' = stored /\ taskFailures' = taskFailures /\ disturbed' = disturbed
           /\ Len(items) \in Nat /\ Len(items) \in 1..Len(items)
<1>1. taskActions \in Nat /\ Len(items) \in Nat /\ Len(items) \in 1..Len(items)
  BY TasksAssumption DEF TasksInductive, TaskTypes
<1> DEFINE record == [n |-> taskActions + 1, kind |-> kind, ids |-> ids, body |-> body, was |-> was,
                      drawing |-> Len(items), alone |-> taskSaves = {}, pc |-> "sent"]
<1>2. PICK new : new = record
  OBVIOUS
<1>3. taskSaves' = {[s EXCEPT !.alone = FALSE] : s \in taskSaves} \cup {new}
  BY <1>2 DEF SaveTasks
<1>4. /\ new.n = taskActions + 1 /\ new.kind = kind /\ new.ids = ids /\ new.body = body
      /\ new.was = was /\ new.drawing = Len(items) /\ new.pc = "sent"
  BY <1>2
<1>5. new.alone <=> taskSaves = {}
  BY <1>2
<1>6. (taskSaves = {}) \in BOOLEAN
  OBVIOUS
<1>7. new \in TaskSave
  BY <1>1, <1>2, <1>6 DEF TaskSave
<1>8. /\ taskActions < MaxTaskSaves /\ taskActions' = taskActions + 1
      /\ stored' = stored /\ taskFailures' = taskFailures /\ disturbed' = disturbed
  BY DEF SaveTasks
<1>9. IsSave(new, kind, ids, body, was)
  BY <1>3, <1>4, <1>5, <1>7 DEF IsSave
<1> QED
  BY <1>1, <1>8, <1>9

\* What the items of the page are, and that alone means in agreement.
LEMMA PageFacts ==
    ASSUME TasksInductive
    PROVE  /\ tasks \in TaskLists /\ tasks \in [DOMAIN tasks -> Task] /\ DOMAIN tasks \in SUBSET TaskIds
           /\ IsFiniteSet(DOMAIN tasks) /\ Cardinality(DOMAIN tasks) \in Nat
           /\ order = Sorted(tasks)
           /\ items \in Seq(Boxes) /\ Len(items) \in Nat /\ Len(items) \in 1..Len(items)
           /\ DOMAIN items = 1..Len(items)
           /\ DOMAIN items[Len(items)] = DOMAIN tasks
           /\ \A n \in 1..Len(items) : items[n] \in [DOMAIN items[n] -> BOOLEAN]
                                       /\ DOMAIN items[n] \in SUBSET TaskIds
           /\ ~disturbed => \A t \in DOMAIN tasks : items[Len(items)][t] = tasks[t].done
           /\ ~disturbed /\ taskSaves = {} => tasks = stored
<1>1. TaskTypes /\ (~disturbed => BoxesShown)
  BY DEF TasksInductive
<1>2. /\ tasks \in TaskLists /\ tasks \in [DOMAIN tasks -> Task] /\ DOMAIN tasks \in SUBSET TaskIds
  BY <1>1 DEF TaskTypes, TaskLists
<1>3. IsFiniteSet(DOMAIN tasks) /\ Cardinality(DOMAIN tasks) \in Nat
  <2>1. IsFiniteSet(DOMAIN tasks)
    BY <1>2, FS_Subset, TasksAssumption
  <2> QED
    BY <2>1, FS_CardinalityType
<1>4. /\ items \in Seq(Boxes) /\ Len(items) \in Nat /\ Len(items) \in 1..Len(items)
      /\ DOMAIN items = 1..Len(items) /\ DOMAIN items[Len(items)] = DOMAIN tasks
      /\ order = Sorted(tasks)
  BY <1>1 DEF TaskTypes, Last
<1>5. ASSUME NEW n \in 1..Len(items)
      PROVE  items[n] \in [DOMAIN items[n] -> BOOLEAN] /\ DOMAIN items[n] \in SUBSET TaskIds
  <2>1. items[n] \in Boxes
    BY <1>4
  <2> QED
    BY <2>1 DEF Boxes
<1>6. ~disturbed => \A t \in DOMAIN tasks : items[Len(items)][t] = tasks[t].done
  BY <1>1 DEF BoxesShown, Last
<1>7. ~disturbed /\ taskSaves = {} => tasks = stored
  BY TasksInvariantShows DEF TasksAsStored
<1> QED
  BY <1>2, <1>3, <1>4, <1>5, <1>6, <1>7

LEMMA ToggleKeeps ==
    ASSUME TasksInductive, NEW t \in DOMAIN tasks, Toggle(t)
    PROVE  TasksInductive'
<1> DEFINE box == ~items[Len(items)][t]
           list == [tasks EXCEPT ![t].done = box]
<1>1. /\ items' = [items EXCEPT ![Len(items)][t] = box]
      /\ tasks' = list /\ order' = order
      /\ SaveTasks("toggle", {t}, list, tasks)
  BY DEF Toggle
<1>2. box \in BOOLEAN
  OBVIOUS
<1>3. /\ list \in [DOMAIN tasks -> Task] /\ t \in TaskIds
      /\ \A u \in DOMAIN tasks : u # t => list[u] = tasks[u]
      /\ list[t] = [tasks[t] EXCEPT !.done = box]
      /\ list[t].title = tasks[t].title /\ list[t].pos = tasks[t].pos
  <2>1. [tasks[t] EXCEPT !.done = box] \in Task
    BY <1>2, PageFacts DEF Task
  <2> QED
    BY <2>1, PageFacts DEF Task
<1>4. list[t].done = box
  BY <1>2, PageFacts DEF Task
<1> HIDE DEF box
<1>5. list \in TaskLists /\ DOMAIN list = DOMAIN tasks
  BY <1>3, PageFacts, ListTyped
<1> HIDE DEF list
<1> PICK new : IsSave(new, "toggle", {t}, list, tasks)
  <2>1. /\ "toggle" \in {"toggle", "title", "order", "add", "delete"}
        /\ {t} \in SUBSET TaskIds /\ list \in TaskLists /\ tasks \in TaskLists
        /\ SaveTasks("toggle", {t}, list, tasks)
    BY <1>1, <1>3, <1>5, PageFacts
  <2> QED
    BY <2>1, SaveIs
<1>6. /\ new \in TaskSave
      /\ new.n = taskActions + 1 /\ new.kind = "toggle" /\ new.ids = {t} /\ new.body = list
      /\ new.was = tasks /\ new.drawing = Len(items) /\ new.pc = "sent"
      /\ new.alone <=> taskSaves = {}
      /\ taskSaves' = {[s EXCEPT !.alone = FALSE] : s \in taskSaves} \cup {new}
  BY DEF IsSave
<1>7. /\ taskActions < MaxTaskSaves /\ taskActions' = taskActions + 1 /\ taskActions \in Nat
      /\ stored' = stored /\ taskFailures' = taskFailures /\ disturbed' = disturbed
  BY <1>1, <1>3, <1>5, PageFacts, SaveIs
<1>8. order' = Sorted(tasks')
  <2>1. \A u \in DOMAIN tasks : list[u].pos = tasks[u].pos /\ tasks[u].pos \in Nat
    BY <1>3, PageFacts DEF Task
  <2> QED
    BY <1>1, <1>5, <2>1, PageFacts, SortedByPositions
<1>9. /\ Len(items') = Len(items) /\ items' \in Seq(Boxes)
      /\ \A n \in 1..Len(items) : DOMAIN items'[n] = DOMAIN items[n]
      /\ \A n \in 1..Len(items) : n # Len(items) => items'[n] = items[n]
      /\ items'[Len(items)] = [items[Len(items)] EXCEPT ![t] = box]
  <2> DEFINE top == [items[Len(items)] EXCEPT ![t] = box]
  <2>1. items' = [items EXCEPT ![Len(items)] = top]
    BY <1>1
  <2>2. top \in [DOMAIN items[Len(items)] -> BOOLEAN] /\ DOMAIN top = DOMAIN items[Len(items)]
    BY <1>2, PageFacts
  <2>3. top \in Boxes
    BY <2>2, PageFacts, ListTyped
  <2> HIDE DEF top
  <2>4. Len(items') = Len(items) /\ items' \in Seq(Boxes)
    BY <2>1, <2>3, PageFacts
  <2>5. /\ \A n \in 1..Len(items) : n # Len(items) => items'[n] = items[n]
        /\ items'[Len(items)] = top
    BY <2>1, PageFacts
  <2>6. \A n \in 1..Len(items) : DOMAIN items'[n] = DOMAIN items[n]
    BY <2>2, <2>5
  <2> QED
    BY <2>4, <2>5, <2>6 DEF top
<1>10. ~disturbed => BoxesShown'
  <2> SUFFICES ASSUME ~disturbed, NEW u \in DOMAIN tasks
               PROVE  items'[Len(items)][u] = list[u].done
    BY <1>1, <1>5, <1>9 DEF BoxesShown, Last
  <2> QED
    BY <1>3, <1>4, <1>9, PageFacts
<1>11. TaskSaveOK(new)'
  <2>1. new.n \in 1..taskActions' /\ new.drawing \in 1..Len(items')
    BY <1>6, <1>7, <1>9, PageFacts
  <2>2. new.ids \subseteq DOMAIN new.body /\ new.ids \subseteq DOMAIN items'[new.drawing]
    BY <1>5, <1>6, <1>9, PageFacts
  <2> QED
    BY <1>3, <1>6, <2>1, <2>2 DEF TaskSaveOK
<1>12. ASSUME ~disturbed, taskSaves = {}
       PROVE  Undoable(new)'
  <2>1. tasks = stored /\ box = ~tasks[t].done
    BY <1>12, PageFacts DEF box
  <2>2. list[t] = [stored[t] EXCEPT !.done = ~stored[t].done]
    BY <1>3, <2>1
  <2> QED
    BY <1>1, <1>3, <1>5, <1>6, <1>7, <2>1, <2>2 DEF Undoable
<1>13. \A u \in DOMAIN tasks :
          IF Asks(new, Texts, u)
          THEN tasks'[u].done = new.body[u].done /\ tasks'[u].title = new.body[u].title
          ELSE tasks'[u].done = tasks[u].done /\ tasks'[u].title = tasks[u].title
  BY <1>1, <1>3, <1>6 DEF Asks, Texts
<1>14. \A u \in DOMAIN tasks :
          tasks'[u].pos = IF Asks(new, Places, u) THEN new.body[u].pos ELSE tasks[u].pos
  BY <1>1, <1>3, <1>6 DEF Asks, Places
<1>15. new.kind # "add" /\ new.ids \subseteq DOMAIN tasks
  BY <1>6
<1>16. tasks' \in TaskLists /\ DOMAIN tasks' = DOMAIN tasks
  BY <1>1, <1>5
<1> QED
  BY <1>6, <1>7, <1>8, <1>9, <1>10, <1>11, <1>12, <1>13, <1>14, <1>15, <1>16, SaveKeeps

LEMMA RetitleKeeps ==
    ASSUME TasksInductive, NEW t \in DOMAIN tasks, Retitle(t)
    PROVE  TasksInductive'
<1> DEFINE list == [tasks EXCEPT ![t].title = taskActions + 1]
<1>1. /\ items' = items /\ order' = order /\ tasks' = list
      /\ SaveTasks("title", {t}, list, tasks)
  BY DEF Retitle, SameItems
<1>2. taskActions \in Nat
  BY TasksAssumption DEF TasksInductive, TaskTypes
<1>3. /\ list \in [DOMAIN tasks -> Task] /\ t \in TaskIds
      /\ \A u \in DOMAIN tasks : u # t => list[u] = tasks[u]
      /\ list[t] = [tasks[t] EXCEPT !.title = list[t].title]
      /\ list[t].done = tasks[t].done /\ list[t].pos = tasks[t].pos
  <2>0. tasks[t] \in Task /\ taskActions + 1 \in Nat
    BY <1>2, PageFacts
  <2>1. [tasks[t] EXCEPT !.title = taskActions + 1] \in Task
    BY <2>0 DEF Task
  <2> QED
    BY <2>1, PageFacts DEF Task
<1>5. list \in TaskLists /\ DOMAIN list = DOMAIN tasks
  BY <1>3, PageFacts, ListTyped
<1> HIDE DEF list
<1> PICK new : IsSave(new, "title", {t}, list, tasks)
  <2>1. /\ "title" \in {"toggle", "title", "order", "add", "delete"}
        /\ {t} \in SUBSET TaskIds /\ list \in TaskLists /\ tasks \in TaskLists
        /\ SaveTasks("title", {t}, list, tasks)
    BY <1>1, <1>3, <1>5, PageFacts
  <2> QED
    BY <2>1, SaveIs
<1>6. /\ new \in TaskSave
      /\ new.n = taskActions + 1 /\ new.kind = "title" /\ new.ids = {t} /\ new.body = list
      /\ new.was = tasks /\ new.drawing = Len(items) /\ new.pc = "sent"
      /\ new.alone <=> taskSaves = {}
      /\ taskSaves' = {[s EXCEPT !.alone = FALSE] : s \in taskSaves} \cup {new}
  BY DEF IsSave
<1>7. /\ taskActions < MaxTaskSaves /\ taskActions' = taskActions + 1 /\ taskActions \in Nat
      /\ stored' = stored /\ taskFailures' = taskFailures /\ disturbed' = disturbed
  BY <1>1, <1>3, <1>5, PageFacts, SaveIs, Zenon
<1>8. order' = Sorted(tasks')
  <2>1. \A u \in DOMAIN tasks : list[u].pos = tasks[u].pos /\ tasks[u].pos \in Nat
    BY <1>3, PageFacts DEF Task
  <2> QED
    BY <1>1, <1>5, <2>1, PageFacts, SortedByPositions
<1>9. /\ Len(items') = Len(items) /\ items' \in Seq(Boxes)
      /\ \A n \in 1..Len(items) : DOMAIN items'[n] = DOMAIN items[n]
  BY <1>1, PageFacts
<1>10. ~disturbed => BoxesShown'
  <2>1. \A u \in DOMAIN tasks : list[u].done = tasks[u].done
    BY <1>3
  <2> QED
    BY <1>1, <1>5, <2>1, PageFacts DEF BoxesShown, Last
<1>11. TaskSaveOK(new)'
  <2>1. new.n \in 1..taskActions' /\ new.drawing \in 1..Len(items')
    BY <1>6, <1>7, <1>9, PageFacts
  <2> QED
    BY <1>3, <1>5, <1>6, <2>1 DEF TaskSaveOK
<1>12. ASSUME ~disturbed, taskSaves = {}
       PROVE  Undoable(new)'
  <2>1. tasks = stored
    BY <1>12, PageFacts
  <2>2. list[t] = [stored[t] EXCEPT !.title = list[t].title]
    BY <1>3, <2>1
  <2> QED
    BY <1>1, <1>3, <1>5, <1>6, <1>7, <2>1, <2>2 DEF Undoable
<1>13. \A u \in DOMAIN tasks :
          IF Asks(new, Texts, u)
          THEN tasks'[u].done = new.body[u].done /\ tasks'[u].title = new.body[u].title
          ELSE tasks'[u].done = tasks[u].done /\ tasks'[u].title = tasks[u].title
  BY <1>1, <1>3, <1>6 DEF Asks, Texts
<1>14. \A u \in DOMAIN tasks :
          tasks'[u].pos = IF Asks(new, Places, u) THEN new.body[u].pos ELSE tasks[u].pos
  BY <1>1, <1>3, <1>6 DEF Asks, Places
<1>15. new.kind # "add" /\ new.ids \subseteq DOMAIN tasks
  BY <1>6
<1>16. tasks' \in TaskLists /\ DOMAIN tasks' = DOMAIN tasks
  BY <1>1, <1>5
<1> QED
  BY <1>6, <1>7, <1>8, <1>9, <1>10, <1>11, <1>12, <1>13, <1>14, <1>15, <1>16, SaveKeeps

LEMMA DragKeeps ==
    ASSUME TasksInductive, NEW s, IsOrder(s, DOMAIN tasks), Drag(s)
    PROVE  TasksInductive'
<1> DEFINE moved == {s[k] : k \in {n \in DOMAIN s : tasks[s[n]].pos # n - 1}}
           list == [t \in DOMAIN tasks |->
                      [tasks[t] EXCEPT !.pos = (CHOOSE k \in DOMAIN s : s[k] = t) - 1]]
<1>1. /\ items' = items /\ order' = s /\ tasks' = list
      /\ SaveTasks("order", moved, list, tasks)
  BY DEF Drag
<1>2. \A t \in DOMAIN tasks : list[t].pos = (CHOOSE k \in DOMAIN s : s[k] = t) - 1
  BY PageFacts DEF Task
<1>3. /\ DOMAIN list = DOMAIN tasks
      /\ \A t \in DOMAIN tasks : list[t].done = tasks[t].done /\ list[t].title = tasks[t].title
      /\ \A t \in DOMAIN tasks : list[t] = [tasks[t] EXCEPT !.pos = list[t].pos]
  <2>1. ASSUME NEW t \in DOMAIN tasks
        PROVE  /\ list[t].done = tasks[t].done /\ list[t].title = tasks[t].title
               /\ list[t] = [tasks[t] EXCEPT !.pos = list[t].pos]
    <3>1. tasks[t] \in Task
      BY PageFacts
    <3>2. list[t] = [tasks[t] EXCEPT !.pos = (CHOOSE k \in DOMAIN s : s[k] = t) - 1]
      OBVIOUS
    <3>3. list[t] = [tasks[t] EXCEPT !.pos = list[t].pos]
      BY <1>2, <3>2
    <3> HIDE DEF list
    <3> QED
      BY <3>1, <3>3 DEF Task
  <2> QED
    BY <2>1
<1>4. /\ \A n \in DOMAIN s : s[n] \in DOMAIN tasks /\ list[s[n]].pos = n - 1
      /\ \A t \in DOMAIN tasks : list[t].pos \in Nat /\ \E n \in DOMAIN s : s[n] = t
      /\ s = Sorted(list)
  <2> HIDE DEF list
  <2> QED
    BY <1>2, <1>3, PageFacts, DroppedIsSorted
<1> HIDE DEF list
<1>5. list \in TaskLists
  <2>1. ASSUME NEW t \in DOMAIN tasks
        PROVE  list[t] \in Task
    <3>1. tasks[t] \in Task /\ list[t].pos \in Nat
      BY <1>4, PageFacts
    <3> QED
      BY <1>3, <3>1 DEF Task
  <2>2. list \in [DOMAIN tasks -> Task]
    <3>1. list = [t \in DOMAIN tasks |-> list[t]]
      BY DEF list
    <3> QED
      BY <2>1, <3>1
  <2> QED
    BY <2>2, PageFacts, ListTyped
<1>20. moved \subseteq DOMAIN tasks /\ moved \in SUBSET TaskIds
  BY <1>4, PageFacts
<1>21. \A t \in DOMAIN tasks : t \notin moved => list[t].pos = tasks[t].pos
  BY <1>4
<1> HIDE DEF moved
<1> PICK new : IsSave(new, "order", moved, list, tasks)
  <2>1. /\ "order" \in {"toggle", "title", "order", "add", "delete"}
        /\ moved \in SUBSET TaskIds /\ list \in TaskLists /\ tasks \in TaskLists
        /\ SaveTasks("order", moved, list, tasks)
    BY <1>1, <1>5, <1>20, PageFacts
  <2> QED
    BY <2>1, SaveIs
<1>6. /\ new \in TaskSave
      /\ new.n = taskActions + 1 /\ new.kind = "order" /\ new.ids = moved /\ new.body = list
      /\ new.was = tasks /\ new.drawing = Len(items) /\ new.pc = "sent"
      /\ new.alone <=> taskSaves = {}
      /\ taskSaves' = {[r EXCEPT !.alone = FALSE] : r \in taskSaves} \cup {new}
  BY DEF IsSave
<1>7. /\ taskActions < MaxTaskSaves /\ taskActions' = taskActions + 1 /\ taskActions \in Nat
      /\ stored' = stored /\ taskFailures' = taskFailures /\ disturbed' = disturbed
  BY <1>1, <1>5, <1>20, PageFacts, SaveIs, Zenon
<1>9. /\ Len(items') = Len(items) /\ items' \in Seq(Boxes)
      /\ \A n \in 1..Len(items) : DOMAIN items'[n] = DOMAIN items[n]
  BY <1>1, PageFacts
<1>10. ~disturbed => BoxesShown'
  BY <1>1, <1>3, PageFacts DEF BoxesShown, Last
<1>11. TaskSaveOK(new)'
  <2>1. new.n \in 1..taskActions' /\ new.drawing \in 1..Len(items')
    BY <1>6, <1>7, <1>9, PageFacts
  <2> QED
    BY <1>3, <1>6, <1>20, <2>1 DEF TaskSaveOK
<1>12. ASSUME ~disturbed, taskSaves = {}
       PROVE  Undoable(new)'
  <2>1. tasks = stored
    BY <1>12, PageFacts
  <2>2. \A t \in DOMAIN stored : t \notin new.ids => list[t] = stored[t]
    <3> SUFFICES ASSUME NEW t \in DOMAIN tasks, t \notin moved
                 PROVE  list[t] = tasks[t]
      BY <1>6, <2>1
    <3>1. list[t].pos = tasks[t].pos /\ tasks[t] \in Task
      BY <1>21, PageFacts
    <3> QED
      BY <1>3, <3>1 DEF Task
  <2> QED
    BY <1>1, <1>3, <1>6, <1>7, <2>1, <2>2 DEF Undoable
<1>13. \A u \in DOMAIN tasks :
          IF Asks(new, Texts, u)
          THEN tasks'[u].done = new.body[u].done /\ tasks'[u].title = new.body[u].title
          ELSE tasks'[u].done = tasks[u].done /\ tasks'[u].title = tasks[u].title
  BY <1>1, <1>3, <1>6 DEF Asks, Texts
<1>14. \A u \in DOMAIN tasks :
          tasks'[u].pos = IF Asks(new, Places, u) THEN new.body[u].pos ELSE tasks[u].pos
  BY <1>1, <1>21, <1>6 DEF Asks, Places
<1>15. new.kind # "add" /\ new.ids \subseteq DOMAIN tasks
  BY <1>6, <1>20
<1>16. tasks' \in TaskLists /\ DOMAIN tasks' = DOMAIN tasks /\ order' = Sorted(tasks')
  BY <1>1, <1>3, <1>4, <1>5
<1> QED
  BY <1>6, <1>7, <1>9, <1>10, <1>11, <1>12, <1>13, <1>14, <1>15, <1>16, SaveKeeps

LEMMA AddTaskKeeps ==
    ASSUME TasksInductive, AddTask
    PROVE  TasksInductive'
<1> DEFINE record == [done |-> FALSE, title |-> 0, pos |-> Cardinality(DOMAIN tasks)]
           known == DOMAIN stored \cup DOMAIN tasks \cup UNION {s.ids : s \in taskSaves}
<1> PICK t \in TaskIds :
       /\ \A u \in known : u < t
       /\ SaveTasks("add", {t}, [i \in {t} |-> record], tasks)
       /\ tasks' = tasks /\ order' = order /\ items' = items
  BY DEF AddTask
<1> DEFINE list == [i \in {t} |-> record]
<1>1. /\ tasks' = tasks /\ order' = order /\ items' = items
      /\ SaveTasks("add", {t}, list, tasks)
  OBVIOUS
<1>3. t \notin known
  <2>1. t \in Nat
    BY TasksAssumption
  <2> HIDE DEF known
  <2> QED
    BY <2>1
<1>4. /\ t \notin DOMAIN tasks /\ t \notin DOMAIN stored
      /\ \A s \in taskSaves : t \notin s.ids
  BY <1>3
<1>5. list \in TaskLists /\ DOMAIN list = {t}
  <2>1. record \in Task
    BY PageFacts DEF Task
  <2>2. list \in [{t} -> Task]
    BY <2>1
  <2> QED
    BY <2>2, ListTyped
<1> HIDE DEF list, known
<1> PICK new : IsSave(new, "add", {t}, list, tasks)
  <2>1. /\ "add" \in {"toggle", "title", "order", "add", "delete"}
        /\ {t} \in SUBSET TaskIds /\ list \in TaskLists /\ tasks \in TaskLists
        /\ SaveTasks("add", {t}, list, tasks)
    BY <1>1, <1>5, PageFacts
  <2> QED
    BY <2>1, SaveIs
<1>6. /\ new \in TaskSave
      /\ new.n = taskActions + 1 /\ new.kind = "add" /\ new.ids = {t} /\ new.body = list
      /\ new.was = tasks /\ new.drawing = Len(items) /\ new.pc = "sent"
      /\ new.alone <=> taskSaves = {}
      /\ taskSaves' = {[s EXCEPT !.alone = FALSE] : s \in taskSaves} \cup {new}
  BY DEF IsSave
<1>7. /\ taskActions < MaxTaskSaves /\ taskActions' = taskActions + 1 /\ taskActions \in Nat
      /\ stored' = stored /\ taskFailures' = taskFailures /\ disturbed' = disturbed
  BY <1>1, <1>5, PageFacts, SaveIs, Zenon
<1>9. /\ Len(items') = Len(items) /\ items' \in Seq(Boxes)
      /\ \A n \in 1..Len(items) : DOMAIN items'[n] = DOMAIN items[n]
  BY <1>1, PageFacts
<1>10. ~disturbed => BoxesShown'
  BY <1>1, PageFacts DEF BoxesShown, Last
<1>11. TaskSaveOK(new)'
  <2>1. new.n \in 1..taskActions' /\ new.drawing \in 1..Len(items')
    BY <1>6, <1>7, <1>9, PageFacts
  <2> QED
    BY <1>5, <1>6, <2>1 DEF TaskSaveOK
<1>12. ASSUME ~disturbed, taskSaves = {}
       PROVE  Undoable(new)'
  <2>1. tasks = stored
    BY <1>12, PageFacts
  <2> QED
    BY <1>1, <1>6, <1>7, <2>1 DEF Undoable
<1>13. \A u \in DOMAIN tasks :
          IF Asks(new, Texts, u)
          THEN tasks'[u].done = new.body[u].done /\ tasks'[u].title = new.body[u].title
          ELSE tasks'[u].done = tasks[u].done /\ tasks'[u].title = tasks[u].title
  BY <1>1, <1>6 DEF Asks, Texts
<1>14. \A u \in DOMAIN tasks :
          tasks'[u].pos = IF Asks(new, Places, u) THEN new.body[u].pos ELSE tasks[u].pos
  BY <1>1, <1>6 DEF Asks, Places
<1>15. /\ new.ids \cap DOMAIN tasks = {} /\ new.ids \cap DOMAIN stored = {}
       /\ \A s \in taskSaves : s.ids \cap new.ids = {}
  BY <1>4, <1>6
<1>16. tasks' \in TaskLists /\ DOMAIN tasks' = DOMAIN tasks /\ order' = Sorted(tasks')
  BY <1>1, PageFacts
<1> QED
  BY <1>6, <1>7, <1>9, <1>10, <1>11, <1>12, <1>13, <1>14, <1>15, <1>16, SaveKeeps

LEMMA DeleteTaskKeeps ==
    ASSUME TasksInductive, NEW t \in DOMAIN tasks, DeleteTask(t)
    PROVE  TasksInductive'
<1>1. /\ tasks' = tasks /\ order' = order /\ items' = items
      /\ SaveTasks("delete", {t}, tasks, tasks)
  BY DEF DeleteTask
<1> PICK new : IsSave(new, "delete", {t}, tasks, tasks)
  <2>1. /\ "delete" \in {"toggle", "title", "order", "add", "delete"}
        /\ {t} \in SUBSET TaskIds /\ tasks \in TaskLists /\ tasks \in TaskLists
        /\ SaveTasks("delete", {t}, tasks, tasks)
    BY <1>1, PageFacts
  <2> QED
    BY <2>1, SaveIs
<1>6. /\ new \in TaskSave
      /\ new.n = taskActions + 1 /\ new.kind = "delete" /\ new.ids = {t} /\ new.body = tasks
      /\ new.was = tasks /\ new.drawing = Len(items) /\ new.pc = "sent"
      /\ new.alone <=> taskSaves = {}
      /\ taskSaves' = {[s EXCEPT !.alone = FALSE] : s \in taskSaves} \cup {new}
  BY DEF IsSave
<1>7. /\ taskActions < MaxTaskSaves /\ taskActions' = taskActions + 1 /\ taskActions \in Nat
      /\ stored' = stored /\ taskFailures' = taskFailures /\ disturbed' = disturbed
  BY <1>1, PageFacts, SaveIs, Zenon
<1>9. /\ Len(items') = Len(items) /\ items' \in Seq(Boxes)
      /\ \A n \in 1..Len(items) : DOMAIN items'[n] = DOMAIN items[n]
  BY <1>1, PageFacts
<1>10. ~disturbed => BoxesShown'
  BY <1>1, PageFacts DEF BoxesShown, Last
<1>11. TaskSaveOK(new)'
  <2>1. new.n \in 1..taskActions' /\ new.drawing \in 1..Len(items')
    BY <1>6, <1>7, <1>9, PageFacts
  <2>2. t \in TaskIds
    BY PageFacts
  <2> QED
    BY <1>6, <2>1, <2>2 DEF TaskSaveOK
<1>12. ASSUME ~disturbed, taskSaves = {}
       PROVE  Undoable(new)'
  <2>1. tasks = stored
    BY <1>12, PageFacts
  <2> QED
    BY <1>1, <1>6, <1>7, <2>1 DEF Undoable
<1>13. \A u \in DOMAIN tasks :
          IF Asks(new, Texts, u)
          THEN tasks'[u].done = new.body[u].done /\ tasks'[u].title = new.body[u].title
          ELSE tasks'[u].done = tasks[u].done /\ tasks'[u].title = tasks[u].title
  BY <1>1, <1>6 DEF Asks, Texts
<1>14. \A u \in DOMAIN tasks :
          tasks'[u].pos = IF Asks(new, Places, u) THEN new.body[u].pos ELSE tasks[u].pos
  BY <1>1, <1>6 DEF Asks, Places
<1>15. new.kind # "add" /\ new.ids \subseteq DOMAIN tasks
  BY <1>6
<1>16. tasks' \in TaskLists /\ DOMAIN tasks' = DOMAIN tasks /\ order' = Sorted(tasks')
  BY <1>1, PageFacts
<1> QED
  BY <1>6, <1>7, <1>9, <1>10, <1>11, <1>12, <1>13, <1>14, <1>15, <1>16, SaveKeeps

-----------------------------------------------------------------------------
(* The server serves a request. *)

LEMMA WrittenFacts ==
    ASSUME TasksInductive, NEW s \in taskSaves, s.pc = "sent", Exist(s)
    PROVE  /\ Written(s) \in TaskLists
           /\ DOMAIN Written(s) = IF s.kind = "delete" THEN DOMAIN stored \ s.ids
                                  ELSE DOMAIN stored \cup s.ids
           /\ \A t \in DOMAIN stored \ s.ids : Written(s)[t] = stored[t]
           /\ s.kind \in {"toggle", "title", "add"} => \A t \in s.ids : Written(s)[t] = s.body[t]
           /\ s.kind = "order" =>
                \A t \in s.ids : /\ Written(s)[t].done = stored[t].done
                                 /\ Written(s)[t].title = stored[t].title
                                 /\ Written(s)[t].pos = s.body[t].pos
           /\ s.kind = "add" \/ s.ids \subseteq DOMAIN stored
<1>1. /\ s \in TaskSave /\ stored \in TaskLists /\ s.ids \in SUBSET DOMAIN s.body
      /\ s.body \in TaskLists
  BY DEF TasksInductive, TaskTypes, TaskSaveOK, TaskSave
<1>2. /\ s.body \in [DOMAIN s.body -> Task] /\ DOMAIN s.body \in SUBSET TaskIds
      /\ stored \in [DOMAIN stored -> Task] /\ DOMAIN stored \in SUBSET TaskIds
  BY <1>1 DEF TaskLists
<1>3. s.kind = "add" \/ s.ids \subseteq DOMAIN stored
  BY DEF Exist
<1>4. CASE s.kind = "delete"
  <2> DEFINE list == [t \in DOMAIN stored \ s.ids |-> stored[t]]
  <2>1. Written(s) = list
    BY <1>4 DEF Written
  <2>2. list \in [DOMAIN stored \ s.ids -> Task]
    BY <1>2
  <2>3. list \in TaskLists
    BY <1>2, <2>2, ListTyped
  <2>4. DOMAIN list = DOMAIN stored \ s.ids /\ \A t \in DOMAIN stored \ s.ids : list[t] = stored[t]
    OBVIOUS
  <2> QED
    BY <1>3, <1>4, <2>1, <2>3, <2>4
<1>5. CASE s.kind = "order"
  <2> DEFINE write(t) == IF t \in s.ids THEN [stored[t] EXCEPT !.pos = s.body[t].pos] ELSE stored[t]
             list == [t \in DOMAIN stored |-> write(t)]
  <2>1. Written(s) = list
    BY <1>5 DEF Written
  <2>2. s.ids \subseteq DOMAIN stored
    BY <1>3, <1>5
  <2>3. ASSUME NEW t \in DOMAIN stored
        PROVE  /\ write(t) \in Task
               /\ t \in s.ids => /\ write(t).done = stored[t].done /\ write(t).title = stored[t].title
                                 /\ write(t).pos = s.body[t].pos
               /\ t \notin s.ids => write(t) = stored[t]
    <3>1. stored[t] \in Task
      BY <1>2
    <3>2. CASE t \in s.ids
      <4>1. s.body[t] \in Task
        BY <1>1, <1>2, <3>2
      <4> QED
        BY <3>1, <3>2, <4>1 DEF Task
    <3> QED
      BY <3>1, <3>2
  <2>4. list \in [DOMAIN stored -> Task]
    BY <2>3
  <2>5. list \in TaskLists
    BY <1>2, <2>4, ListTyped
  <2>6. DOMAIN list = DOMAIN stored /\ \A t \in DOMAIN stored : list[t] = write(t)
    OBVIOUS
  <2>7. DOMAIN stored = DOMAIN stored \cup s.ids
    BY <2>2
  <2> HIDE DEF list, write
  <2>8. /\ \A t \in DOMAIN stored \ s.ids : list[t] = stored[t]
        /\ \A t \in s.ids : /\ list[t].done = stored[t].done /\ list[t].title = stored[t].title
                            /\ list[t].pos = s.body[t].pos
    BY <2>2, <2>3, <2>6
  <2> QED
    BY <1>3, <1>5, <2>1, <2>5, <2>6, <2>7, <2>8
<1>6. CASE s.kind \in {"toggle", "title", "add"}
  <2> DEFINE list == [t \in DOMAIN stored \cup s.ids |-> IF t \in s.ids THEN s.body[t] ELSE stored[t]]
  <2>1. Written(s) = list
    BY <1>6 DEF Written
  <2>2. list \in [DOMAIN stored \cup s.ids -> Task]
    BY <1>1, <1>2
  <2>3. list \in TaskLists
    BY <1>1, <1>2, <2>2, ListTyped
  <2>4. /\ DOMAIN list = DOMAIN stored \cup s.ids
        /\ \A t \in DOMAIN stored \ s.ids : list[t] = stored[t]
        /\ \A t \in s.ids : list[t] = s.body[t]
    OBVIOUS
  <2> QED
    BY <1>3, <1>6, <2>1, <2>3, <2>4
<1> QED
  BY <1>1, <1>4, <1>5, <1>6 DEF TaskSave

LEMMA ServedKeeps ==
    ASSUME TasksInductive, NEW s \in taskSaves, NEW pc \in {"saved", "failed"},
           NEW executed \in BOOLEAN, TaskServed(s, pc, executed),
           executed => Exist(s), pc = "saved" => executed,
           disturbed => disturbed', disturbed' \in BOOLEAN, executed /\ pc = "failed" => disturbed',
           pc = "saved" /\ ~disturbed' => \A r \in taskSaves : ~(r.pc = "sent" /\ r.n < s.n),
           tasks' = tasks, items' = items, order' = order, taskActions' = taskActions,
           taskFailures' \in 0..MaxTaskFailures
    PROVE  TasksInductive'
<1>1. s.pc = "sent" /\ TaskTypes /\ s \in TaskSave
  BY DEF TasksInductive, TaskTypes, TaskServed
<1> PICK new : new = [s EXCEPT !.pc = pc]
  OBVIOUS
<1>2. /\ new \in TaskSave /\ new.n = s.n /\ new.kind = s.kind /\ new.ids = s.ids
      /\ new.body = s.body /\ new.was = s.was /\ new.drawing = s.drawing /\ new.alone = s.alone
      /\ new.pc = pc
  BY <1>1 DEF TaskSave
<1>3. taskSaves' = (taskSaves \ {s}) \cup {new}
  BY DEF TaskServed
<1>4. stored' = IF executed THEN Written(s) ELSE stored
  BY DEF TaskServed
<1>5. \A r \in taskSaves : TaskSaveOK(r) /\ AddOK(r) /\ DeleteOK(r) /\ AloneOK(r)
  BY DEF TasksInductive
<1>6. /\ stored' \in TaskLists
      /\ DOMAIN stored' \subseteq DOMAIN stored \cup s.ids
      /\ DOMAIN stored' \subseteq DOMAIN stored \/ s.kind = "add"
      /\ \A t \in DOMAIN stored \ s.ids : t \in DOMAIN stored' /\ stored'[t] = stored[t]
  BY <1>1, <1>4, WrittenFacts DEF TaskTypes
<1>7. TaskTypes'
  <2>1. taskSaves' \subseteq TaskSave
    BY <1>1, <1>2, <1>3 DEF TaskTypes
  <2> QED
    BY <1>1, <1>6, <2>1 DEF TaskTypes, Last
<1>8. \A q \in taskSaves' : q = new \/ (q \in taskSaves /\ q # s)
  BY <1>3
<1>9. ASSUME NEW q \in taskSaves, q # s, q \in taskSaves'
      PROVE  TaskSaveOK(q)' /\ AddOK(q)' /\ DeleteOK(q)' /\ AloneOK(q)'
  <2>1. TaskSaveOK(q)'
    BY <1>5 DEF TaskSaveOK
  <2>2. AddOK(q)'
    <3> SUFFICES ASSUME q.kind = "add", q.pc # "failed"
                 PROVE  /\ q.ids \cap DOMAIN tasks' = {}
                        /\ \A r \in taskSaves' : r # q => r.ids \cap q.ids = {}
                        /\ q.pc = "sent" => q.ids \cap DOMAIN stored' = {}
                        /\ q.pc = "saved" => \A t \in q.ids : t \in DOMAIN stored' /\ stored'[t] = q.body[t]
      BY DEF AddOK
    <3>1. /\ q.ids \cap DOMAIN tasks = {}
          /\ \A r \in taskSaves : r # q => r.ids \cap q.ids = {}
          /\ q.pc = "sent" => q.ids \cap DOMAIN stored = {}
          /\ q.pc = "saved" => \A t \in q.ids : t \in DOMAIN stored /\ stored[t] = q.body[t]
      BY <1>5 DEF AddOK
    <3>2. s.ids \cap q.ids = {}
      BY <1>9, <3>1
    <3>3. \A r \in taskSaves' : r # q => r.ids \cap q.ids = {}
      BY <1>2, <1>8, <3>1, <3>2
    <3>4. q.pc = "sent" => q.ids \cap DOMAIN stored' = {}
      BY <1>6, <3>1, <3>2
    <3>5. q.pc = "saved" => \A t \in q.ids : t \in DOMAIN stored' /\ stored'[t] = q.body[t]
      BY <1>6, <3>1, <3>2
    <3> QED
      BY <3>1, <3>3, <3>4, <3>5
  <2>3. DeleteOK(q)'
    <3> SUFFICES ASSUME q.kind = "delete", q.pc = "saved"
                 PROVE  q.ids \cap DOMAIN stored' = {}
      BY DEF DeleteOK
    <3>1. q.ids \cap DOMAIN stored = {}
      BY <1>5 DEF DeleteOK
    <3>2. s.kind = "add" => q.ids \cap s.ids = {}
      BY <1>1, <1>5, <1>9 DEF AddOK
    <3> QED
      BY <1>6, <3>1, <3>2
  <2>4. ~q.alone
    BY <1>5, <1>9 DEF AloneOK
  <2> QED
    BY <2>1, <2>2, <2>3, <2>4 DEF AloneOK
<1>10. TaskSaveOK(new)' /\ AddOK(new)' /\ DeleteOK(new)' /\ AloneOK(new)'
  <2>1. TaskSaveOK(new)'
    BY <1>2, <1>5 DEF TaskSaveOK
  <2>2. AddOK(new)'
    <3> SUFFICES ASSUME new.kind = "add", pc = "saved"
                 PROVE  /\ new.ids \cap DOMAIN tasks' = {}
                        /\ \A r \in taskSaves' : r # new => r.ids \cap new.ids = {}
                        /\ \A t \in new.ids : t \in DOMAIN stored' /\ stored'[t] = new.body[t]
      BY <1>2 DEF AddOK
    <3>1. s.ids \cap DOMAIN tasks = {} /\ \A r \in taskSaves : r # s => r.ids \cap s.ids = {}
      BY <1>1, <1>2, <1>5 DEF AddOK
    <3>2. \A t \in s.ids : t \in DOMAIN stored' /\ stored'[t] = s.body[t]
      BY <1>1, <1>2, <1>4, WrittenFacts
    <3> QED
      BY <1>2, <1>8, <3>1, <3>2
  <2>3. DeleteOK(new)'
    <3> SUFFICES ASSUME new.kind = "delete", pc = "saved"
                 PROVE  new.ids \cap DOMAIN stored' = {}
      BY <1>2 DEF DeleteOK
    <3> QED
      BY <1>1, <1>2, <1>4, WrittenFacts
  <2>4. ASSUME new.alone
        PROVE  /\ taskSaves' = {new} /\ new.drawing = Len(items)'
               /\ ~disturbed' /\ new.pc # "saved" => Undoable(new)'
    <3>1. /\ taskSaves = {s} /\ s.drawing = Len(items)
          /\ ~disturbed /\ s.pc # "saved" => Undoable(s)
      BY <1>2, <1>5, <2>4 DEF AloneOK
    <3>2. ASSUME ~disturbed', new.pc # "saved"
          PROVE  Undoable(new)'
      <4>1. Undoable(s) /\ stored' = stored
        BY <1>1, <1>2, <1>4, <3>1, <3>2
      <4> QED
        BY <1>2, <4>1 DEF Undoable
    <3> QED
      BY <1>2, <1>3, <3>1, <3>2
  <2> QED
    BY <2>1, <2>2, <2>3, <2>4 DEF AloneOK
<1>11. ASSUME NEW q \in taskSaves', NEW r \in taskSaves', r.n = q.n
       PROVE  r = q
  <2>1. \A x, y \in taskSaves : x.n = y.n => x = y
    BY DEF TasksInductive
  <2>2. CASE q = new
    BY <1>2, <1>8, <1>11, <2>1, <2>2
  <2>3. CASE q # new /\ r # new
    BY <1>8, <1>11, <2>1, <2>3
  <2>4. CASE q # new /\ r = new
    <3>1. q \in taskSaves /\ q # s /\ q.n = s.n
      BY <1>2, <1>8, <1>11, <2>4
    <3> QED
      BY <2>1, <3>1
  <2> QED
    BY <2>2, <2>3, <2>4
<1>12. ~disturbed' => BoxesShown'
  BY DEF TasksInductive, BoxesShown, Last
<1>13. ASSUME ~disturbed', \A q \in taskSaves' : q.pc # "failed"
       PROVE  ListsAgree'
  <2>1. pc = "saved" /\ executed /\ ~disturbed /\ Exist(s) /\ stored' = Written(s)
    BY <1>2, <1>3, <1>4, <1>13
  <2>2. ListsAgree
    <3>1. \A q \in taskSaves : q.pc # "failed"
      BY <1>1, <1>3, <1>13
    <3> QED
      BY <2>1, <3>1 DEF TasksInductive
  <2>3. ASSUME NEW kinds, NEW t, NEW m \in taskSaves, Asks(m, kinds, t), m # s,
               \A r \in taskSaves : Asks(r, kinds, t) => r.n <= m.n
        PROVE  m \in taskSaves' /\ \A r \in taskSaves' : Asks(r, kinds, t) => r.n <= m.n
    BY <1>2, <1>3, <1>8, <2>1, <2>3 DEF Asks
  <2>4. ASSUME NEW kinds, NEW t, Asks(s, kinds, t),
               \A r \in taskSaves : Asks(r, kinds, t) => r.n <= s.n
        PROVE  \A r \in taskSaves' : ~Asks(r, kinds, t)
    <3> SUFFICES ASSUME NEW r \in taskSaves, r # s, Asks(r, kinds, t)
                 PROVE  FALSE
      BY <1>2, <1>8, <2>1 DEF Asks
    <3>1. r.n \in Nat /\ s.n \in Nat
      BY <1>1 DEF TaskTypes, TaskSave
    <3>2. r.n <= s.n /\ ~(r.n < s.n)
      BY <1>13, <2>1, <2>4 DEF Asks
    <3>3. r.n = s.n
      BY <3>1, <3>2
    <3> QED
      BY <3>3 DEF TasksInductive
  <2>5. ASSUME NEW kinds, NEW t, \A r \in taskSaves : ~Asks(r, kinds, t)
        PROVE  \A r \in taskSaves' : ~Asks(r, kinds, t)
    BY <1>2, <1>8, <2>1, <2>5 DEF Asks
  <2>6. ASSUME NEW t \in DOMAIN tasks \cap DOMAIN stored'
        PROVE  t \in DOMAIN stored /\ TextAgrees(t) /\ PosAgrees(t)
    <3>1. t \in DOMAIN stored
      BY <1>1, <1>5, <1>6, <2>6 DEF AddOK
    <3> QED
      BY <2>2, <2>6, <3>1 DEF ListsAgree
  <2>7. ASSUME NEW t \in DOMAIN tasks \cap DOMAIN stored'
        PROVE  TextAgrees(t)'
    <3>1. CASE \A r \in taskSaves : ~Asks(r, Texts, t)
      <4>1. tasks[t].done = stored[t].done /\ tasks[t].title = stored[t].title
        BY <2>6, <3>1 DEF TextAgrees
      <4>2. s.kind \notin Texts \/ t \notin s.ids
        BY <1>1, <3>1 DEF Asks
      <4>3. stored'[t].done = stored[t].done /\ stored'[t].title = stored[t].title
        <5>1. CASE t \notin s.ids
          BY <1>6, <2>6, <5>1
        <5>2. CASE t \in s.ids
          <6>1. s.kind # "add" /\ s.kind # "delete"
            BY <1>1, <1>5, <2>1, <2>6, <2>7, <5>2, WrittenFacts DEF AddOK
          <6>2. s.kind = "order"
            BY <1>1, <4>2, <5>2, <6>1 DEF TaskSave, Texts
          <6> QED
            BY <1>1, <2>1, <5>2, <6>2, WrittenFacts
        <5> QED
          BY <5>1, <5>2
      <4>4. \A r \in taskSaves' : ~Asks(r, Texts, t)
        BY <2>5, <3>1
      <4> QED
        BY <4>1, <4>3, <4>4 DEF TextAgrees, Asks, Texts
    <3>2. CASE ~\A r \in taskSaves : ~Asks(r, Texts, t)
      <4>1. PICK m \in taskSaves :
               /\ Asks(m, Texts, t) /\ \A r \in taskSaves : Asks(r, Texts, t) => r.n <= m.n
               /\ tasks[t].done = m.body[t].done /\ tasks[t].title = m.body[t].title
        BY <2>6, <3>2 DEF TextAgrees
      <4>2. CASE m = s
        <5>1. \A r \in taskSaves' : ~Asks(r, Texts, t)
          BY <2>4, <4>1, <4>2
        <5>2. stored'[t] = s.body[t]
          BY <1>1, <2>1, <4>1, <4>2, WrittenFacts DEF Asks, Texts
        <5> QED
          BY <4>1, <4>2, <5>1, <5>2 DEF TextAgrees, Asks, Texts
      <4>3. CASE m # s
        <5>1. m \in taskSaves' /\ \A r \in taskSaves' : Asks(r, Texts, t) => r.n <= m.n
          BY <2>3, <4>1, <4>3
        <5> QED
          BY <4>1, <5>1 DEF TextAgrees, Asks, Texts
      <4> QED
        BY <4>2, <4>3
    <3> QED
      BY <3>1, <3>2
  <2>8. ASSUME NEW t \in DOMAIN tasks \cap DOMAIN stored'
        PROVE  PosAgrees(t)'
    <3>1. CASE \A r \in taskSaves : ~Asks(r, Places, t)
      <4>1. tasks[t].pos = stored[t].pos
        BY <2>6, <3>1 DEF PosAgrees
      <4>2. s.kind \notin Places \/ t \notin s.ids
        BY <1>1, <3>1 DEF Asks
      <4>3. t \notin s.ids
        <5> SUFFICES ASSUME t \in s.ids
                     PROVE  FALSE
          OBVIOUS
        <5>1. s.kind # "add" /\ s.kind # "delete"
          BY <1>1, <1>5, <2>1, <2>6, <2>8, WrittenFacts DEF AddOK
        <5> QED
          BY <1>1, <4>2, <5>1 DEF TaskSave, Places
      <4>4. stored'[t] = stored[t]
        BY <1>6, <2>6, <4>3
      <4>5. \A r \in taskSaves' : ~Asks(r, Places, t)
        BY <2>5, <3>1
      <4> QED
        BY <4>1, <4>4, <4>5 DEF PosAgrees, Asks, Places
    <3>2. CASE ~\A r \in taskSaves : ~Asks(r, Places, t)
      <4>1. PICK m \in taskSaves :
               /\ Asks(m, Places, t) /\ \A r \in taskSaves : Asks(r, Places, t) => r.n <= m.n
               /\ tasks[t].pos = m.body[t].pos
        BY <2>6, <3>2 DEF PosAgrees
      <4>2. CASE m = s
        <5>1. \A r \in taskSaves' : ~Asks(r, Places, t)
          BY <2>4, <4>1, <4>2
        <5>2. stored'[t].pos = s.body[t].pos
          BY <1>1, <2>1, <4>1, <4>2, WrittenFacts DEF Asks, Places
        <5> QED
          BY <4>1, <4>2, <5>1, <5>2 DEF PosAgrees, Asks, Places
      <4>3. CASE m # s
        <5>1. m \in taskSaves' /\ \A r \in taskSaves' : Asks(r, Places, t) => r.n <= m.n
          BY <2>3, <4>1, <4>3
        <5> QED
          BY <4>1, <5>1 DEF PosAgrees, Asks, Places
      <4> QED
        BY <4>2, <4>3
    <3> QED
      BY <3>1, <3>2
  <2>9. ASSUME NEW kind, NEW t, Answering(kind, t)
        PROVE  Answering(kind, t)'
    BY <1>1, <1>3, <2>9 DEF Answering
  <2>10. ASSUME NEW t \in DOMAIN tasks \ DOMAIN stored'
         PROVE  Answering("delete", t)'
    <3>1. CASE t \notin DOMAIN stored
      BY <2>2, <2>9, <2>10, <3>1 DEF ListsAgree
    <3>2. CASE t \in DOMAIN stored
      <4>1. s.kind = "delete" /\ t \in s.ids
        BY <1>1, <2>1, <2>10, <3>2, WrittenFacts
      <4> QED
        BY <1>2, <1>3, <2>1, <4>1 DEF Answering
    <3> QED
      BY <3>1, <3>2
  <2>11. ASSUME NEW t \in DOMAIN stored' \ DOMAIN tasks
         PROVE  Answering("add", t)'
    <3>1. CASE t \in DOMAIN stored
      BY <2>2, <2>9, <2>11, <3>1 DEF ListsAgree
    <3>2. CASE t \notin DOMAIN stored
      <4>1. s.kind = "add" /\ t \in s.ids
        BY <1>6, <2>11, <3>2
      <4> QED
        BY <1>2, <1>3, <2>1, <4>1 DEF Answering
    <3> QED
      BY <3>1, <3>2
  <2> QED
    BY <2>7, <2>8, <2>10, <2>11 DEF ListsAgree
<1> QED
  BY <1>7, <1>8, <1>9, <1>10, <1>11, <1>12, <1>13 DEF TasksInductive

LEMMA ServeTaskKeeps ==
    ASSUME TasksInductive, NEW s \in taskSaves, ServeTask(s)
    PROVE  TasksInductive'
<1>1. Exist(s) \in BOOLEAN
  BY DEF Exist
<1>2. /\ TaskServed(s, IF Exist(s) THEN "saved" ELSE "failed", Exist(s))
      /\ disturbed' = (disturbed \/ \E r \in taskSaves : r.pc = "sent" /\ r.n < s.n)
      /\ tasks' = tasks /\ items' = items /\ order' = order /\ taskActions' = taskActions
      /\ taskFailures' = taskFailures
  BY DEF ServeTask
<1>3. taskFailures \in 0..MaxTaskFailures
  BY DEF TasksInductive, TaskTypes
<1>4. /\ disturbed' <=> (disturbed \/ \E r \in taskSaves : r.pc = "sent" /\ r.n < s.n)
      /\ disturbed' \in BOOLEAN
  BY <1>2
<1>5. CASE Exist(s)
  <2>1. TaskServed(s, "saved", TRUE)
    BY <1>2, <1>5 DEF TaskServed
  <2> QED
    BY <1>2, <1>3, <1>4, <1>5, <2>1, ServedKeeps
<1>6. CASE ~Exist(s)
  <2>1. TaskServed(s, "failed", FALSE)
    BY <1>2, <1>6 DEF TaskServed
  <2> QED
    BY <1>2, <1>3, <1>4, <1>6, <2>1, ServedKeeps
<1> QED
  BY <1>5, <1>6

LEMMA ServeTaskInVainKeeps ==
    ASSUME TasksInductive, NEW s \in taskSaves, NEW executed \in BOOLEAN,
           ServeTaskInVain(s, executed)
    PROVE  TasksInductive'
<1>1. /\ taskFailures < MaxTaskFailures /\ taskFailures' = taskFailures + 1
      /\ executed => Exist(s)
      /\ TaskServed(s, "failed", executed)
      /\ disturbed' = (disturbed \/ executed)
      /\ tasks' = tasks /\ items' = items /\ order' = order /\ taskActions' = taskActions
  BY DEF ServeTaskInVain
<1>2. taskFailures' \in 0..MaxTaskFailures
  BY <1>1, TasksAssumption DEF TasksInductive, TaskTypes
<1>3. (disturbed' <=> (disturbed \/ executed)) /\ disturbed' \in BOOLEAN
  BY <1>1
<1> QED
  BY <1>1, <1>2, <1>3, ServedKeeps

-----------------------------------------------------------------------------
(* The page handles the answers. *)

LEMMA AnsweredKeeps ==
    ASSUME TasksInductive, NEW s \in taskSaves, taskSaves' = taskSaves \ {s},
           stored' = stored, taskActions' = taskActions, taskFailures' = taskFailures,
           tasks' \in TaskLists, order' = Sorted(tasks'),
           items' \in Seq(Boxes), items' # <<>>, DOMAIN Last' = DOMAIN tasks',
           Len(items) <= Len(items'),
           \A n \in 1..Len(items) : DOMAIN items'[n] = DOMAIN items[n],
           disturbed' \in BOOLEAN, disturbed => disturbed',
           \/ DOMAIN tasks' \subseteq DOMAIN tasks
           \/ s.kind = "add" /\ s.pc = "saved" /\ DOMAIN tasks' \subseteq DOMAIN tasks \cup s.ids,
           ~disturbed' => BoxesShown',
           ~disturbed' /\ (\A q \in taskSaves' : q.pc # "failed") => ListsAgree'
    PROVE  TasksInductive'
<1>1. TaskTypes /\ Len(items) \in Nat /\ Len(items') \in Nat
  BY DEF TasksInductive, TaskTypes
<1>2. TaskTypes'
  BY <1>1 DEF TaskTypes
<1>3. \A r \in taskSaves : TaskSaveOK(r) /\ AddOK(r) /\ DeleteOK(r) /\ AloneOK(r)
  BY DEF TasksInductive
<1>4. ASSUME NEW q \in taskSaves'
      PROVE  TaskSaveOK(q)' /\ AddOK(q)' /\ DeleteOK(q)' /\ AloneOK(q)'
  <2>1. q \in taskSaves /\ q # s
    OBVIOUS
  <2>2. TaskSaveOK(q)'
    <3>1. q.drawing \in 1..Len(items) /\ q.drawing \in 1..Len(items')
      BY <1>1, <1>3, <2>1 DEF TaskSaveOK
    <3> QED
      BY <1>3, <2>1, <3>1 DEF TaskSaveOK
  <2>3. AddOK(q)'
    <3> SUFFICES ASSUME q.kind = "add", q.pc # "failed"
                 PROVE  q.ids \cap DOMAIN tasks' = {}
      BY <1>3, <2>1 DEF AddOK
    <3>1. q.ids \cap DOMAIN tasks = {} /\ s.ids \cap q.ids = {}
      BY <1>3, <2>1 DEF AddOK
    <3> QED
      BY <3>1
  <2>4. DeleteOK(q)'
    BY <1>3, <2>1 DEF DeleteOK
  <2>5. ~q.alone
    BY <1>3, <2>1 DEF AloneOK
  <2> QED
    BY <2>2, <2>3, <2>4, <2>5 DEF AloneOK
<1>5. \A q, r \in taskSaves' : r.n = q.n => r = q
  BY DEF TasksInductive
<1> QED
  BY <1>2, <1>4, <1>5 DEF TasksInductive

LEMMA RenderFacts ==
    ASSUME TasksInductive, NEW list \in TaskLists, Render(list)
    PROVE  /\ tasks' = list /\ order' = Sorted(tasks')
           /\ items' \in Seq(Boxes) /\ items' # <<>> /\ DOMAIN Last' = DOMAIN tasks'
           /\ Len(items) <= Len(items')
           /\ \A n \in 1..Len(items) : DOMAIN items'[n] = DOMAIN items[n]
           /\ BoxesShown'
<1> DEFINE box == [t \in DOMAIN list |-> list[t].done]
<1>1. tasks' = list /\ order' = Sorted(tasks') /\ items' = Append(items, box)
  BY DEF Render
<1>2. \A t \in DOMAIN list : box[t] = list[t].done
  OBVIOUS
<1>3. box \in Boxes /\ DOMAIN box = DOMAIN list
  <2>1. box \in [DOMAIN list -> BOOLEAN]
    BY ListTyped DEF Task
  <2> QED
    BY <2>1, ListTyped
<1> HIDE DEF box
<1>4. /\ items' \in Seq(Boxes) /\ Len(items') = Len(items) + 1
      /\ items'[Len(items) + 1] = box
      /\ \A n \in 1..Len(items) : items'[n] = items[n]
  BY <1>1, <1>3, PageFacts
<1>5. items' # <<>> /\ Last' = box /\ Len(items) <= Len(items')
  BY <1>4, PageFacts DEF Last
<1>6. BoxesShown'
  BY <1>1, <1>2, <1>5 DEF BoxesShown
<1> QED
  BY <1>1, <1>3, <1>4, <1>5, <1>6

LEMMA TaskSavedKeeps ==
    ASSUME TasksInductive, NEW s \in taskSaves, TaskSaved(s)
    PROVE  TasksInductive'
<1>1. /\ s.pc = "saved" /\ taskSaves' = taskSaves \ {s}
      /\ stored' = stored /\ taskActions' = taskActions /\ taskFailures' = taskFailures
      /\ disturbed' = disturbed
  BY DEF TaskSaved
<1>2. /\ TaskTypes /\ s \in TaskSave /\ AddOK(s) /\ DeleteOK(s) /\ s.ids \subseteq DOMAIN s.body
      /\ s.body \in TaskLists /\ disturbed \in BOOLEAN
      /\ ~disturbed => BoxesShown
  BY DEF TasksInductive, TaskTypes, TaskSaveOK, TaskSave
<1>3. ASSUME ~disturbed, \A q \in taskSaves' : q.pc # "failed"
      PROVE  ListsAgree
  <2>1. \A q \in taskSaves : q.pc # "failed"
    BY <1>1, <1>3
  <2> QED
    BY <1>3, <2>1 DEF TasksInductive
<1>4. \A kinds, t : \A r \in taskSaves : Asks(r, kinds, t) => r \in taskSaves'
  BY <1>1 DEF Asks
<1>5. ASSUME NEW t, tasks'[t] = tasks[t], TextAgrees(t)
      PROVE  TextAgrees(t)'
  <2>1. CASE /\ \A r \in taskSaves : ~Asks(r, Texts, t)
             /\ tasks[t].done = stored[t].done /\ tasks[t].title = stored[t].title
    BY <1>1, <1>5, <2>1 DEF TextAgrees, Asks, Texts
  <2>2. CASE \E m \in taskSaves :
                /\ Asks(m, Texts, t) /\ \A r \in taskSaves : Asks(r, Texts, t) => r.n <= m.n
                /\ tasks[t].done = m.body[t].done /\ tasks[t].title = m.body[t].title
    <3>1. PICK m \in taskSaves' :
             /\ Asks(m, Texts, t) /\ \A r \in taskSaves' : Asks(r, Texts, t) => r.n <= m.n
             /\ tasks[t].done = m.body[t].done /\ tasks[t].title = m.body[t].title
      BY <1>1, <1>4, <2>2
    <3> QED
      BY <1>5, <3>1 DEF TextAgrees, Asks, Texts
  <2> QED
    BY <1>5, <2>1, <2>2 DEF TextAgrees
<1>6. ASSUME NEW t, tasks'[t] = tasks[t], PosAgrees(t)
      PROVE  PosAgrees(t)'
  <2>1. CASE (\A r \in taskSaves : ~Asks(r, Places, t)) /\ tasks[t].pos = stored[t].pos
    BY <1>1, <1>6, <2>1 DEF PosAgrees, Asks, Places
  <2>2. CASE \E m \in taskSaves :
                /\ Asks(m, Places, t) /\ \A r \in taskSaves : Asks(r, Places, t) => r.n <= m.n
                /\ tasks[t].pos = m.body[t].pos
    <3>1. PICK m \in taskSaves' :
             /\ Asks(m, Places, t) /\ \A r \in taskSaves' : Asks(r, Places, t) => r.n <= m.n
             /\ tasks[t].pos = m.body[t].pos
      BY <1>1, <1>4, <2>2
    <3> QED
      BY <1>6, <3>1 DEF PosAgrees, Asks, Places
  <2> QED
    BY <1>6, <2>1, <2>2 DEF PosAgrees
<1>7. ASSUME NEW kind, NEW t, Answering(kind, t), s.kind # kind \/ t \notin s.ids
      PROVE  Answering(kind, t)'
  BY <1>1, <1>7 DEF Answering
<1>8. CASE s.kind = "add"
  <2> DEFINE list == [t \in DOMAIN tasks \cup s.ids |-> IF t \in s.ids THEN s.body[t] ELSE tasks[t]]
  <2>1. Render(list)
    BY <1>8 DEF TaskSaved
  <2>2. list \in TaskLists
    <3>1. list \in [DOMAIN tasks \cup s.ids -> Task]
      BY <1>2, PageFacts, ListTyped
    <3>2. DOMAIN tasks \cup s.ids \in SUBSET TaskIds
      BY <1>2, PageFacts, ListTyped
    <3> QED
      BY <3>1, <3>2, ListTyped
  <2>3. /\ DOMAIN list = DOMAIN tasks \cup s.ids
        /\ \A t \in s.ids : list[t] = s.body[t]
        /\ \A t \in DOMAIN tasks \ s.ids : list[t] = tasks[t]
    OBVIOUS
  <2> HIDE DEF list
  <2>4. /\ tasks' = list /\ order' = Sorted(tasks')
        /\ items' \in Seq(Boxes) /\ items' # <<>> /\ DOMAIN Last' = DOMAIN tasks'
        /\ Len(items) <= Len(items')
        /\ \A n \in 1..Len(items) : DOMAIN items'[n] = DOMAIN items[n]
        /\ BoxesShown'
    BY <2>1, <2>2, RenderFacts
  <2>5. /\ s.ids \cap DOMAIN tasks = {}
        /\ \A r \in taskSaves : r # s => r.ids \cap s.ids = {}
        /\ \A t \in s.ids : t \in DOMAIN stored /\ stored[t] = s.body[t]
    BY <1>1, <1>2, <1>8 DEF AddOK
  <2>6. ASSUME ~disturbed, \A q \in taskSaves' : q.pc # "failed"
        PROVE  ListsAgree'
    <3>1. ListsAgree
      BY <1>3, <2>6
    <3>2. ASSUME NEW t \in DOMAIN tasks' \cap DOMAIN stored'
          PROVE  TextAgrees(t)' /\ PosAgrees(t)'
      <4>1. CASE t \in s.ids
        <5>1. \A r \in taskSaves' : t \notin r.ids
          BY <1>1, <2>5, <4>1
        <5>2. tasks'[t] = stored'[t]
          BY <1>1, <2>3, <2>4, <2>5, <4>1
        <5> QED
          BY <5>1, <5>2 DEF TextAgrees, PosAgrees, Asks
      <4>2. CASE t \notin s.ids
        <5>1. tasks'[t] = tasks[t] /\ t \in DOMAIN tasks \cap DOMAIN stored
          BY <1>1, <2>3, <2>4, <3>2, <4>2
        <5>2. TextAgrees(t) /\ PosAgrees(t)
          BY <3>1, <5>1 DEF ListsAgree
        <5> QED
          BY <1>5, <1>6, <5>1, <5>2
      <4> QED
        BY <4>1, <4>2
    <3>3. ASSUME NEW t \in DOMAIN tasks' \ DOMAIN stored'
          PROVE  Answering("delete", t)'
      <4>1. Answering("delete", t)
        BY <1>1, <2>3, <2>4, <2>5, <3>1, <3>3 DEF ListsAgree
      <4> QED
        BY <1>7, <1>8, <4>1
    <3>4. ASSUME NEW t \in DOMAIN stored' \ DOMAIN tasks'
          PROVE  Answering("add", t)'
      <4>1. Answering("add", t) /\ t \notin s.ids
        BY <1>1, <2>3, <2>4, <3>1, <3>4 DEF ListsAgree
      <4> QED
        BY <1>7, <4>1
    <3> QED
      BY <3>2, <3>3, <3>4 DEF ListsAgree
  <2>7. DOMAIN tasks' \subseteq DOMAIN tasks \cup s.ids
    BY <2>3, <2>4
  <2>8. tasks' \in TaskLists
    BY <2>2, <2>4
  <2> QED
    BY <1>1, <1>2, <1>8, <2>4, <2>6, <2>7, <2>8, AnsweredKeeps
<1>9. CASE s.kind = "delete"
  <2> DEFINE list == [t \in DOMAIN tasks \ s.ids |-> tasks[t]]
  <2>1. Render(list)
    BY <1>9 DEF TaskSaved
  <2>2. list \in TaskLists
    <3>1. list \in [DOMAIN tasks \ s.ids -> Task]
      BY PageFacts
    <3>2. DOMAIN tasks \ s.ids \in SUBSET TaskIds
      BY PageFacts
    <3> QED
      BY <3>1, <3>2, ListTyped
  <2>3. DOMAIN list = DOMAIN tasks \ s.ids /\ \A t \in DOMAIN tasks \ s.ids : list[t] = tasks[t]
    OBVIOUS
  <2> HIDE DEF list
  <2>4. /\ tasks' = list /\ order' = Sorted(tasks')
        /\ items' \in Seq(Boxes) /\ items' # <<>> /\ DOMAIN Last' = DOMAIN tasks'
        /\ Len(items) <= Len(items')
        /\ \A n \in 1..Len(items) : DOMAIN items'[n] = DOMAIN items[n]
        /\ BoxesShown'
    BY <2>1, <2>2, RenderFacts
  <2>5. s.ids \cap DOMAIN stored = {}
    BY <1>1, <1>2, <1>9 DEF DeleteOK
  <2>6. ASSUME ~disturbed, \A q \in taskSaves' : q.pc # "failed"
        PROVE  ListsAgree'
    <3>1. ListsAgree
      BY <1>3, <2>6
    <3>2. ASSUME NEW t \in DOMAIN tasks' \cap DOMAIN stored'
          PROVE  TextAgrees(t)' /\ PosAgrees(t)'
      <4>1. tasks'[t] = tasks[t] /\ t \in DOMAIN tasks \cap DOMAIN stored
        BY <1>1, <2>3, <2>4, <3>2
      <4>2. TextAgrees(t) /\ PosAgrees(t)
        BY <3>1, <4>1 DEF ListsAgree
      <4> QED
        BY <1>5, <1>6, <4>1, <4>2
    <3>3. ASSUME NEW t \in DOMAIN tasks' \ DOMAIN stored'
          PROVE  Answering("delete", t)'
      <4>1. Answering("delete", t) /\ t \notin s.ids
        BY <1>1, <2>3, <2>4, <3>1, <3>3 DEF ListsAgree
      <4> QED
        BY <1>7, <4>1
    <3>4. ASSUME NEW t \in DOMAIN stored' \ DOMAIN tasks'
          PROVE  Answering("add", t)'
      <4>1. Answering("add", t)
        BY <1>1, <2>3, <2>4, <2>5, <3>1, <3>4 DEF ListsAgree
      <4> QED
        BY <1>7, <1>9, <4>1
    <3> QED
      BY <3>2, <3>3, <3>4 DEF ListsAgree
  <2>7. DOMAIN tasks' \subseteq DOMAIN tasks
    BY <2>3, <2>4
  <2>8. tasks' \in TaskLists
    BY <2>2, <2>4
  <2> QED
    BY <1>1, <1>2, <2>4, <2>6, <2>7, <2>8, AnsweredKeeps
<1>10. CASE s.kind # "add" /\ s.kind # "delete"
  <2>1. tasks' = tasks /\ order' = order /\ items' = items
    BY <1>10 DEF TaskSaved, SameItems
  <2>2. ASSUME ~disturbed, \A q \in taskSaves' : q.pc # "failed"
        PROVE  ListsAgree'
    <3>1. ListsAgree
      BY <1>3, <2>2
    <3>2. \A t \in DOMAIN tasks' \cap DOMAIN stored' : TextAgrees(t)' /\ PosAgrees(t)'
      BY <1>1, <1>5, <1>6, <2>1, <3>1 DEF ListsAgree
    <3>3. \A t \in DOMAIN tasks' \ DOMAIN stored' : Answering("delete", t)'
      BY <1>1, <1>7, <1>10, <2>1, <3>1 DEF ListsAgree
    <3>4. \A t \in DOMAIN stored' \ DOMAIN tasks' : Answering("add", t)'
      BY <1>1, <1>7, <1>10, <2>1, <3>1 DEF ListsAgree
    <3> QED
      BY <3>2, <3>3, <3>4 DEF ListsAgree
  <2>3. ~disturbed => BoxesShown'
    BY <1>2, <2>1 DEF BoxesShown, Last
  <2>4. /\ items' # <<>> /\ DOMAIN Last' = DOMAIN tasks' /\ Len(items) <= Len(items')
        /\ order' = Sorted(tasks')
    BY <1>2, <2>1, PageFacts DEF TaskTypes, Last
  <2> QED
    BY <1>1, <1>2, <2>1, <2>2, <2>3, <2>4, PageFacts, AnsweredKeeps
<1> QED
  BY <1>8, <1>9, <1>10

LEMMA TaskFailsKeeps ==
    ASSUME TasksInductive, NEW s \in taskSaves, TaskFails(s)
    PROVE  TasksInductive'
<1>1. /\ s.pc = "failed" /\ taskSaves' = taskSaves \ {s}
      /\ stored' = stored /\ taskActions' = taskActions /\ taskFailures' = taskFailures
      /\ disturbed' = (disturbed \/ ~s.alone)
  BY DEF TaskFails
<1>2. /\ TaskTypes /\ s \in TaskSave /\ TaskSaveOK(s) /\ AloneOK(s)
      /\ s.ids \in SUBSET TaskIds /\ s.alone \in BOOLEAN /\ disturbed \in BOOLEAN
      /\ s.was \in TaskLists
      /\ ~disturbed => BoxesShown
  BY DEF TasksInductive, TaskTypes, TaskSaveOK, TaskSave
<1>3. (disturbed' <=> (disturbed \/ ~s.alone)) /\ disturbed' \in BOOLEAN
  BY <1>1
<1>4. ASSUME ~disturbed'
      PROVE  /\ ~disturbed /\ taskSaves' = {} /\ s.drawing = Len(items) /\ Undoable(s)
             /\ \A t \in DOMAIN tasks : items[Len(items)][t] = tasks[t].done
             /\ s.was = stored /\ DOMAIN tasks = DOMAIN stored /\ stored \in [DOMAIN tasks -> Task]
             /\ tasks' = stored => ListsAgree'
  <2>1. ~disturbed /\ s.alone
    BY <1>3, <1>4
  <2>2. taskSaves = {s} /\ s.drawing = Len(items) /\ Undoable(s)
    BY <1>1, <1>2, <2>1 DEF AloneOK
  <2>3. taskSaves' = {}
    BY <1>1, <2>2
  <2>4. s.was = stored /\ DOMAIN tasks = DOMAIN stored
    BY <2>2 DEF Undoable
  <2>5. stored \in [DOMAIN tasks -> Task]
    BY <1>2, <2>4 DEF TaskTypes, TaskLists
  <2>6. tasks' = stored => ListsAgree'
    BY <1>1, <2>3 DEF ListsAgree, TextAgrees, PosAgrees
  <2> QED
    BY <2>1, <2>2, <2>3, <2>4, <2>5, <2>6, PageFacts
<1>5. CASE s.kind = "toggle"
  <2>1. PICK t \in s.ids : RestoreBox(s, t)
    BY <1>5 DEF TaskFails
  <2>2. t \in DOMAIN items[s.drawing] /\ s.drawing \in 1..Len(items) /\ s.ids = {t}
    BY <1>2, <1>5, <2>1 DEF TaskSaveOK
  <2> DEFINE box == ~items[s.drawing][t]
             top == [items[s.drawing] EXCEPT ![t] = box]
             list == IF t \in DOMAIN tasks THEN [tasks EXCEPT ![t].done = box] ELSE tasks
  <2>3. items' = [items EXCEPT ![s.drawing] = top] /\ tasks' = list /\ order' = order
    BY <2>1 DEF RestoreBox
  <2>4. box \in BOOLEAN
    OBVIOUS
  <2>5. /\ top \in [DOMAIN items[s.drawing] -> BOOLEAN] /\ DOMAIN top = DOMAIN items[s.drawing]
        /\ top[t] = box /\ \A u \in DOMAIN items[s.drawing] : u # t => top[u] = items[s.drawing][u]
    BY <2>2, <2>4, PageFacts
  <2>6. top \in Boxes
    BY <2>2, <2>5, PageFacts, ListTyped
  <2>7. /\ list \in [DOMAIN tasks -> Task] /\ DOMAIN list = DOMAIN tasks
        /\ \A u \in DOMAIN tasks : u # t => list[u] = tasks[u]
        /\ t \in DOMAIN tasks => list[t] = [tasks[t] EXCEPT !.done = box]
    <3>1. ASSUME t \in DOMAIN tasks
          PROVE  [tasks[t] EXCEPT !.done = box] \in Task
      <4>1. tasks[t] \in Task
        BY <3>1, PageFacts
      <4> HIDE DEF box
      <4> QED
        BY <2>4, <4>1 DEF Task
    <3> HIDE DEF box
    <3> QED
      BY <3>1, PageFacts
  <2>8. \A u \in DOMAIN tasks : list[u].pos = tasks[u].pos /\ tasks[u].pos \in Nat
    BY <2>7, PageFacts DEF Task
  <2>9. t \in DOMAIN tasks => list[t].done = box
    BY <2>4, <2>7, PageFacts DEF Task
  <2> HIDE DEF top, list, box
  <2>10. order' = Sorted(tasks')
    BY <2>3, <2>7, <2>8, PageFacts, SortedByPositions
  <2>11. /\ items' \in Seq(Boxes) /\ Len(items') = Len(items) /\ items'[s.drawing] = top
         /\ \A n \in 1..Len(items) : n # s.drawing => items'[n] = items[n]
    BY <2>2, <2>3, <2>6, PageFacts
  <2>12. /\ \A n \in 1..Len(items) : DOMAIN items'[n] = DOMAIN items[n]
         /\ items' # <<>> /\ DOMAIN Last' = DOMAIN tasks' /\ Len(items) <= Len(items')
    <3>1. \A n \in 1..Len(items) : DOMAIN items'[n] = DOMAIN items[n]
      BY <2>5, <2>11
    <3>2. items' # <<>> /\ Len(items) <= Len(items')
      BY <2>11, PageFacts
    <3>3. DOMAIN Last' = DOMAIN tasks'
      BY <2>3, <2>7, <2>11, <3>1, PageFacts DEF Last
    <3> QED
      BY <3>1, <3>2, <3>3
  <2>13. tasks' \in TaskLists /\ DOMAIN tasks' \subseteq DOMAIN tasks
    BY <2>3, <2>7, PageFacts, ListTyped
  <2>14. ASSUME ~disturbed'
         PROVE  BoxesShown' /\ tasks' = stored
    <3>1. /\ s.drawing = Len(items) /\ Undoable(s) /\ DOMAIN tasks = DOMAIN stored
          /\ \A u \in DOMAIN tasks : items[Len(items)][u] = tasks[u].done
          /\ stored \in [DOMAIN tasks -> Task]
      BY <1>4, <2>14
    <3>2. DOMAIN items[Len(items)] = DOMAIN tasks
      BY PageFacts
    <3>3. \A u \in DOMAIN tasks : top[u] = list[u].done
      BY <2>5, <2>7, <2>9, <3>1, <3>2
    <3>4. BoxesShown'
      BY <2>3, <2>7, <2>11, <3>1, <3>3 DEF BoxesShown, Last
    <3>5. t \in DOMAIN tasks
      BY <2>2, <3>1, <3>2
    <3>6. tasks[t] = [stored[t] EXCEPT !.done = ~stored[t].done] /\ stored[t] \in Task
      BY <1>5, <2>2, <3>1, <3>5 DEF Undoable
    <3>7. list[t] = stored[t]
      <4>1. tasks[t].done = ~stored[t].done
        BY <3>6 DEF Task
      <4>2. box = stored[t].done
        <5>1. box = ~tasks[t].done
          BY <3>1, <3>5 DEF box
        <5>2. stored[t].done \in BOOLEAN
          BY <3>6 DEF Task
        <5> QED
          BY <4>1, <5>1, <5>2
      <4>3. list[t] = [tasks[t] EXCEPT !.done = stored[t].done]
        BY <2>7, <3>5, <4>2
      <4> QED
        BY <3>6, <4>3 DEF Task
    <3>8. \A u \in DOMAIN tasks : list[u] = stored[u]
      BY <2>2, <2>7, <3>1, <3>7 DEF Undoable
    <3>9. list = stored
      BY <2>7, <3>1, <3>8
    <3> QED
      BY <2>3, <3>4, <3>9
  <2>15. ~disturbed' => BoxesShown' /\ ListsAgree'
    BY <1>4, <2>14
  <2> QED
    BY <1>1, <1>3, <2>10, <2>11, <2>12, <2>13, <2>15, AnsweredKeeps
<1>6. CASE s.kind = "title"
  <2> DEFINE undo(t) == IF t \in s.ids THEN [tasks[t] EXCEPT !.title = s.was[t].title] ELSE tasks[t]
             list == [t \in DOMAIN tasks |-> undo(t)]
  <2>1. tasks' = list /\ order' = order /\ items' = items
    BY <1>6 DEF TaskFails, SameItems
  <2>2. ASSUME NEW t \in DOMAIN tasks
        PROVE  /\ undo(t) \in Task /\ undo(t).pos = tasks[t].pos /\ undo(t).done = tasks[t].done
               /\ tasks[t].pos \in Nat
               /\ t \notin s.ids => undo(t) = tasks[t]
    <3>1. tasks[t] \in Task
      BY PageFacts
    <3>2. ASSUME t \in s.ids
          PROVE  s.was[t] \in Task
      <4>1. t \in DOMAIN s.was
        BY <1>2, <1>6, <3>2 DEF TaskSaveOK
      <4>2. s.was \in [DOMAIN s.was -> Task]
        BY <1>2 DEF TaskLists
      <4> QED
        BY <4>1, <4>2
    <3> QED
      BY <3>1, <3>2 DEF Task
  <2>3. list \in [DOMAIN tasks -> Task] /\ \A t \in DOMAIN tasks : list[t] = undo(t)
    BY <2>2
  <2>4. DOMAIN list = DOMAIN tasks
    OBVIOUS
  <2> HIDE DEF list
  <2>5. order' = Sorted(tasks')
    <3>1. \A t \in DOMAIN tasks : list[t].pos = tasks[t].pos /\ tasks[t].pos \in Nat
      BY <2>2, <2>3
    <3> QED
      BY <2>1, <2>4, <3>1, PageFacts, SortedByPositions
  <2>6. tasks' \in TaskLists /\ DOMAIN tasks' \subseteq DOMAIN tasks
    BY <2>1, <2>3, <2>4, PageFacts, ListTyped
  <2>7. /\ items' \in Seq(Boxes) /\ items' # <<>> /\ DOMAIN Last' = DOMAIN tasks'
        /\ Len(items) <= Len(items') /\ \A n \in 1..Len(items) : DOMAIN items'[n] = DOMAIN items[n]
    BY <1>2, <2>1, <2>4, PageFacts DEF TaskTypes, Last
  <2>8. ASSUME ~disturbed'
        PROVE  BoxesShown' /\ tasks' = stored
    <3>1. \A t \in DOMAIN tasks : list[t].done = tasks[t].done
      BY <2>2, <2>3
    <3>2. BoxesShown'
      BY <1>4, <2>1, <2>4, <2>8, <3>1 DEF BoxesShown, Last
    <3>3. ASSUME NEW t \in DOMAIN tasks
          PROVE  list[t] = stored[t]
      <4>1. CASE t \notin s.ids
        BY <1>4, <2>2, <2>3, <2>8, <4>1 DEF Undoable
      <4>2. CASE t \in s.ids
        <5>1. /\ tasks[t] = [stored[t] EXCEPT !.title = tasks[t].title] /\ stored[t] \in Task
              /\ tasks[t] \in Task
          BY <1>4, <1>6, <2>8, <4>2, PageFacts DEF Undoable
        <5>2. list[t] = [tasks[t] EXCEPT !.title = stored[t].title]
          BY <1>4, <2>3, <2>8, <4>2
        <5> QED
          BY <5>1, <5>2 DEF Task
      <4> QED
        BY <4>1, <4>2
    <3>4. list = stored
      BY <1>4, <2>3, <2>8, <3>3
    <3> QED
      BY <2>1, <3>2, <3>4
  <2>9. ~disturbed' => BoxesShown' /\ ListsAgree'
    BY <1>4, <2>8
  <2> QED
    BY <1>1, <1>3, <2>5, <2>6, <2>7, <2>9, AnsweredKeeps
<1>7. CASE s.kind = "order"
  <2> DEFINE undo(t) == IF t \in s.ids THEN [tasks[t] EXCEPT !.pos = s.was[t].pos] ELSE tasks[t]
             list == [t \in DOMAIN tasks |-> undo(t)]
  <2>1. Render(list)
    BY <1>7 DEF TaskFails, RestoreOrder
  <2>2. ASSUME NEW t \in DOMAIN tasks
        PROVE  undo(t) \in Task /\ (t \notin s.ids => undo(t) = tasks[t])
    <3>1. tasks[t] \in Task
      BY PageFacts
    <3>2. ASSUME t \in s.ids
          PROVE  s.was[t] \in Task
      <4>1. t \in DOMAIN s.was
        BY <1>2, <1>7, <3>2 DEF TaskSaveOK
      <4>2. s.was \in [DOMAIN s.was -> Task]
        BY <1>2 DEF TaskLists
      <4> QED
        BY <4>1, <4>2
    <3> QED
      BY <3>1, <3>2 DEF Task
  <2>3. list \in [DOMAIN tasks -> Task] /\ \A t \in DOMAIN tasks : list[t] = undo(t)
    BY <2>2
  <2>4. DOMAIN list = DOMAIN tasks
    OBVIOUS
  <2> HIDE DEF list
  <2>5. list \in TaskLists
    BY <2>3, PageFacts, ListTyped
  <2>6. /\ tasks' = list /\ order' = Sorted(tasks')
        /\ items' \in Seq(Boxes) /\ items' # <<>> /\ DOMAIN Last' = DOMAIN tasks'
        /\ Len(items) <= Len(items')
        /\ \A n \in 1..Len(items) : DOMAIN items'[n] = DOMAIN items[n]
        /\ BoxesShown'
    BY <2>1, <2>5, RenderFacts
  <2>7. ASSUME ~disturbed'
        PROVE  tasks' = stored
    <3>1. ASSUME NEW t \in DOMAIN tasks
          PROVE  list[t] = stored[t]
      <4>1. CASE t \notin s.ids
        BY <1>4, <2>2, <2>3, <2>7, <4>1 DEF Undoable
      <4>2. CASE t \in s.ids
        <5>1. /\ tasks[t] = [stored[t] EXCEPT !.pos = tasks[t].pos] /\ stored[t] \in Task
              /\ tasks[t] \in Task
          BY <1>4, <1>7, <2>7, <4>2, PageFacts DEF Undoable
        <5>2. list[t] = [tasks[t] EXCEPT !.pos = stored[t].pos]
          BY <1>4, <2>3, <2>7, <4>2
        <5> QED
          BY <5>1, <5>2 DEF Task
      <4> QED
        BY <4>1, <4>2
    <3>2. list = stored
      BY <1>4, <2>3, <2>7, <3>1
    <3> QED
      BY <2>6, <3>2
  <2>8. ~disturbed' => ListsAgree'
    BY <1>4, <2>7
  <2>9. tasks' \in TaskLists /\ DOMAIN tasks' \subseteq DOMAIN tasks
    BY <2>4, <2>5, <2>6
  <2> QED
    BY <1>1, <1>3, <2>6, <2>8, <2>9, AnsweredKeeps
<1>8. CASE s.kind \in {"add", "delete"}
  <2>1. tasks' = tasks /\ order' = order /\ items' = items
    BY <1>8 DEF TaskFails, SameItems
  <2>2. /\ items' # <<>> /\ DOMAIN Last' = DOMAIN tasks' /\ Len(items) <= Len(items')
        /\ order' = Sorted(tasks')
    BY <1>2, <2>1, PageFacts DEF TaskTypes, Last
  <2>3. ASSUME ~disturbed'
        PROVE  BoxesShown' /\ ListsAgree'
    <3>1. BoxesShown'
      BY <1>4, <2>1, <2>3 DEF BoxesShown, Last
    <3>2. \A t \in DOMAIN tasks : tasks[t] = stored[t]
      BY <1>4, <1>8, <2>3 DEF Undoable
    <3>3. tasks = stored
      BY <1>4, <2>3, <3>2, PageFacts
    <3> QED
      BY <1>4, <2>1, <2>3, <3>1, <3>3
  <2> QED
    BY <1>1, <1>3, <2>1, <2>2, <2>3, PageFacts, AnsweredKeeps
<1> QED
  BY <1>2, <1>5, <1>6, <1>7, <1>8 DEF TaskSave

-----------------------------------------------------------------------------
LEMMA TasksStepInductive == TasksInductive /\ [TasksNext]_taskVars => TasksInductive'
<1> SUFFICES ASSUME TasksInductive, [TasksNext]_taskVars
             PROVE  TasksInductive'
  OBVIOUS
<1>1. ASSUME NEW t \in DOMAIN tasks, Toggle(t) \/ Retitle(t) \/ DeleteTask(t)
      PROVE  TasksInductive'
  BY <1>1, ToggleKeeps, RetitleKeeps, DeleteTaskKeeps
<1>2. ASSUME NEW s, IsOrder(s, DOMAIN tasks), Drag(s)
      PROVE  TasksInductive'
  BY <1>2, DragKeeps
<1>3. CASE AddTask
  BY <1>3, AddTaskKeeps
<1>4. ASSUME NEW s \in taskSaves, ServeTask(s)
      PROVE  TasksInductive'
  BY <1>4, ServeTaskKeeps
<1>5. ASSUME NEW s \in taskSaves, NEW executed \in BOOLEAN, ServeTaskInVain(s, executed)
      PROVE  TasksInductive'
  BY <1>5, ServeTaskInVainKeeps
<1>6. ASSUME NEW s \in taskSaves, TaskSaved(s) \/ TaskFails(s)
      PROVE  TasksInductive'
  BY <1>6, TaskSavedKeeps, TaskFailsKeeps
<1>7. CASE UNCHANGED taskVars
  <2>1. /\ tasks' = tasks /\ stored' = stored /\ items' = items /\ order' = order
        /\ taskSaves' = taskSaves /\ taskActions' = taskActions
        /\ taskFailures' = taskFailures /\ disturbed' = disturbed
    BY <1>7 DEF taskVars
  <2>2. TaskTypes' /\ (BoxesShown' <=> BoxesShown) /\ (ListsAgree' <=> ListsAgree)
    BY <2>1 DEF TasksInductive, TaskTypes, BoxesShown, ListsAgree, TextAgrees, PosAgrees,
                Answering, Asks, Last, Texts, Places
  <2>3. ASSUME NEW s \in taskSaves'
        PROVE  TaskSaveOK(s)' /\ AddOK(s)' /\ DeleteOK(s)' /\ AloneOK(s)'
    <3>1. TaskSaveOK(s) /\ AddOK(s) /\ DeleteOK(s) /\ AloneOK(s)
      BY <2>1, <2>3 DEF TasksInductive
    <3> QED
      BY <2>1, <3>1 DEF TaskSaveOK, AddOK, DeleteOK, AloneOK, Undoable
  <2> QED
    BY <2>1, <2>2, <2>3 DEF TasksInductive
<1> QED
  BY <1>1, <1>2, <1>3, <1>4, <1>5, <1>6, <1>7 DEF TasksNext

\* The lists, the items and the requests have the types the page and the server give them;
\* the items stand in an order of all tasks, whatever is rendered in between.
THEOREM TasksTyped == TasksSpec => []TasksTypeOK
<1>1. TasksSpec => []TasksInductive
  BY TasksInitInductive, TasksStepInductive, PTL DEF TasksSpec
<1> QED
  BY <1>1, TasksInvariantTyped, PTL

\* When nothing is being saved, the page shows the tasks the server has, in their order and
\* with their checkboxes: what renderTasks and saveTaskOrder put back is what was there.
THEOREM TasksShownAsStored == TasksSpec => []TasksAsStored
<1>1. TasksSpec => []TasksInductive
  BY TasksInitInductive, TasksStepInductive, PTL DEF TasksSpec
<1> QED
  BY <1>1, TasksInvariantShows, PTL

=============================================================================

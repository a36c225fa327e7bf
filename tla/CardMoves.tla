----------------------------- MODULE CardMoves -----------------------------
(* Cards moved and edited where they are listed: on the board, in the       *)
(* backlog, in the archive and in the planning panel (static/js/            *)
(* list-utils.js, components/board.js, backlog.js, archive.js, planning.js, *)
(* card.js).  Every gesture changes the issues of the page at once, saves   *)
(* them, and puts the old values back or reads the issues again when that   *)
(* fails.  The lists are modelled with the cards the page shows, since a    *)
(* drop saves what it finds there.  One user; requests are served in any    *)
(* order.                                                                   *)
EXTENDS Integers, FiniteSets, SequencesExt

CONSTANTS
    Issues,
    Columns,          \* the statuses listed, in the order of the page
    None,
    MaxGestures,      \* bound: moves, edits and refreshes by the user
    MaxFailures       \* bound: requests that are refused, or whose answer is lost

ASSUME IssuesAssumption == Issues \subseteq Nat /\ IsFiniteSet(Issues)
ASSUME ColumnsAssumption == Columns \in Seq(STRING) /\ "Archive" \notin ToSet(Columns)
ASSUME BoundsAssumption == MaxGestures \in Nat /\ MaxFailures \in Nat

VARIABLES
    heap,      \* the issues of the page; a refresh makes new ones, the old live on in callbacks
    shown,     \* the cards in the lists of the page
    drawn,     \* the lists the actions of the cards hold on to, and of which issues
    drag,      \* the card that is being dragged, and where the page shows it (None: left outside)
    ops,       \* gestures being saved
    requests,  \* their requests
    read,      \* the refresh under way
    server,    \* the issues on the server
    gestures, failures,
    excused    \* history: see Excuse
vars == <<heap, shown, drawn, drag, ops, requests, read, server, gestures, failures, excused>>

Listed == ToSet(Columns)
Statuses == Listed \cup {"Archive"}
\* field: the priority, the assignee, the planned dates or the release.
Row == [status : Statuses, pos : Nat, field : BOOLEAN]
Rows == [Issues -> Row]
Lists == [Listed -> Seq(Issues)]
Kinds == {"order", "section", "archive", "toggle", "plan", "lane"}

local == heap[Len(heap)]

TypeOK ==
    /\ heap \in Seq(Rows) /\ heap # <<>>
    /\ shown \in Lists
    /\ drawn \in [epoch : 1..Len(heap), lists : Lists]
    /\ drag \in [issue : Issues \cup {None}, list : Listed \cup {None}, at : Nat]
    /\ \A o \in ops :
          /\ o.n \in 1..gestures /\ o.kind \in Kinds /\ o.epoch \in 1..Len(heap)
          /\ \A ch \in ToSet(o.changes) : ch.issue \in Issues /\ ch.was \in Row
    /\ \A q \in requests :
          /\ q.n \in 1..gestures /\ q.sent \in Nat
          /\ q.kind \in {"put", "archive", "positions", "doubled"} /\ q.pc \in {"sent", "saved", "failed"}
          /\ DOMAIN q.body \subseteq Issues /\ \A i \in DOMAIN q.body : q.body[i] \in Row
    /\ read.pc \in {"none", "sent", "answered", "placed"} /\ read.rows \in Rows
    /\ server \in Rows
    /\ gestures \in 0..MaxGestures /\ failures \in 0..MaxFailures
    /\ excused \in BOOLEAN

-----------------------------------------------------------------------------
(* What a list shows. *)

\* sortByPosition; issues of the same position stay in the order of the answer.
Sorted(rows, S) ==
    CHOOSE s \in [1..Cardinality(S) -> S] :
        \A m, n \in DOMAIN s : m < n =>
            rows[s[m]].pos < rows[s[n]].pos \/ (rows[s[m]].pos = rows[s[n]].pos /\ s[m] < s[n])

Rendered(rows) == [c \in Listed |-> Sorted(rows, {i \in Issues : rows[i].status = c})]

\* renderBoard, renderBacklog, renderArchive: new cards for all issues; a card that is
\* being dragged is left outside the page.
Redraw(rows, epoch) ==
    /\ shown' = Rendered(rows)
    /\ drawn' = [epoch |-> epoch, lists |-> Rendered(rows)]
    /\ drag' = [drag EXCEPT !.list = None, !.at = 0]

\* The cards in the order of the page, each with its list and its index there.
Places(lists) ==
    FlattenSeq([k \in DOMAIN Columns |->
        [n \in DOMAIN lists[Columns[k]] |->
            [issue |-> lists[Columns[k]][n], status |-> Columns[k], pos |-> n - 1]]])

\* Mutant: a card is renumbered only in the list that it comes to.
MovedOnly(rows, places) ==
    LET to(n) == [rows EXCEPT ![places[n].issue].status = places[n].status,
                              ![places[n].issue].pos = places[n].pos]
    IN IF \E n \in DOMAIN places : rows[places[n].issue].status # places[n].status
       THEN LET n == CHOOSE m \in DOMAIN places : rows[places[m].issue].status # places[m].status
            IN [rows |-> to(n), changes |-> <<[issue |-> places[n].issue, was |-> rows[places[n].issue]]>>]
       ELSE [rows |-> rows, changes |-> <<>>]

\* applyOrderChange: an issue that is not where its card is moves there.
Moved(update, place) ==
    LET was == update.rows[place.issue] IN
    IF was.status = place.status /\ was.pos = place.pos THEN update
    ELSE [rows |-> [update.rows EXCEPT ![place.issue] =
                      [@ EXCEPT !.status = place.status, !.pos = place.pos]],
          changes |-> Append(update.changes, [issue |-> place.issue, was |-> was])]

\* getBoardUpdates, getListUpdates, updatePositions: one card after the other.
Reordered(rows, places) ==
    LET upTo[n \in 0..Len(places)] ==
            IF n = 0 THEN [rows |-> rows, changes |-> <<>>] ELSE Moved(upTo[n - 1], places[n])
    IN upTo[Len(places)]

-----------------------------------------------------------------------------
(* Saving. *)

\* sent: later than every request under way.
Request(n, kind, body) ==
    [n |-> n, sent |-> Max({0} \cup {q.sent : q \in {r \in requests : r.pc = "sent"}}) + 1,
     kind |-> kind, body |-> body, pc |-> "sent"]

StatusChanged(ch, rows) == rows[ch.issue].status # ch.was.status

\* The whole issue, without If-Match.
Puts(n, changes, rows) ==
    {Request(n, "put", [i \in {ch.issue} |-> rows[i]]) :
        ch \in {c \in ToSet(changes) : StatusChanged(c, rows)}}

\* All positions in one request, with the values of the moment.  The server refuses one that
\* names an issue twice (validatePositionUpdates).
Positions(n, changes, rows) ==
    LET rest == {m \in DOMAIN changes : ~StatusChanged(changes[m], rows)}
        moved == {changes[m].issue : m \in rest}
    IN IF rest = {} THEN {}
       ELSE {Request(n, IF Cardinality(moved) < Cardinality(rest) THEN "doubled" ELSE "positions",
                     [i \in moved |-> rows[i]])}

\* alone: no other gesture has been saved at the same time.
WithOp(n, kind, epoch, changes) ==
    {[o EXCEPT !.alone = FALSE] : o \in ops} \cup
    {[n |-> n, kind |-> kind, epoch |-> epoch, changes |-> changes, alone |-> ops = {}]}

\* What ends the agreement with the server: gestures while the issues are being read or a
\* lane's answer is awaited (here), cards dropped after their list was drawn again, gestures
\* that fail after others have overlapped them, requests that overtake others or are
\* overtaken by a refresh, and answers lost that nothing makes up for.
Excuse(kind) ==
    \/ read.pc # "none"
    \/ \E o \in ops : (o.kind = "lane" \/ kind = "lane")

Gesture ==
    /\ gestures < MaxGestures
    /\ gestures' = gestures + 1

\* saveIssueOrder: the statuses first, the positions at once if no status has changed.
SaveOrder(epoch, update) ==
    LET n == gestures + 1
        puts == Puts(n, update.changes, update.rows)
        first == IF puts # {} THEN puts ELSE Positions(n, update.changes, update.rows)
    IN /\ Gesture
       /\ heap' = [heap EXCEPT ![epoch] = update.rows]
       /\ ops' = IF first = {} THEN ops ELSE WithOp(n, "order", epoch, update.changes)
       /\ requests' = requests \cup first

NoDrag == [issue |-> None, list |-> None, at |-> 0]

\* dragstart, on the k-th card of list c.
StartDrag(c, k) ==
    /\ drag = NoDrag
    /\ k \in DOMAIN shown[c]
    /\ drag' = [issue |-> shown[c][k], list |-> c, at |-> k]
    /\ UNCHANGED <<heap, shown, drawn, ops, requests, read, server, gestures, failures, excused>>

\* dragover: the dragged card as the k-th of list c.  A card that was left outside the
\* page comes in addition to the one drawn in its place.
Others == IF drag.list = None THEN shown ELSE [shown EXCEPT ![drag.list] = RemoveAt(@, drag.at)]
Hovers(c, k) ==
    /\ drag.issue # None
    /\ k \in 1..(Len(Others[c]) + 1)
    /\ shown' = [Others EXCEPT ![c] = InsertAt(@, k, drag.issue)]

\* dragend without a drop: the card goes back to its list, or stays where it was last over
\* the page, if that list is gone.
CancelDrag ==
    /\ drag.issue # None
    /\ \/ UNCHANGED shown
       \/ drag.list = None /\ \E c \in Listed : \E k \in 1..(Len(shown[c]) + 1) : Hovers(c, k)
    /\ drag' = NoDrag
    /\ UNCHANGED <<heap, drawn, ops, requests, read, server, gestures, failures, excused>>

OneCardEach(lists) ==
    \A m, n \in DOMAIN Places(lists) : Places(lists)[m].issue = Places(lists)[n].issue => m = n

\* The drop handlers of the columns and lists: the page is saved as it is.
Drop(c, k) ==
    /\ Hovers(c, k)
    /\ SaveOrder(Len(heap), Reordered(local, Places(shown')))
    /\ drag' = NoDrag
    /\ excused' = (excused \/ Excuse("order") \/ ~OneCardEach(shown'))
    /\ UNCHANGED <<drawn, read, server, failures>>

\* handleMoveTop, handleMoveBottom: the list as it was drawn, with its issues.
MoveInList(i, c, top) ==
    LET list == drawn.lists[c]
        rest == RemoveAt(list, CHOOSE k \in DOMAIN list : list[k] = i)
        order == IF top THEN <<i>> \o rest ELSE Append(rest, i)
        rows == heap[drawn.epoch]
    IN /\ i \in ToSet(list) /\ order # list
       /\ SaveOrder(drawn.epoch,
             Reordered(rows, [n \in DOMAIN order |->
                 [issue |-> order[n], status |-> rows[order[n]].status, pos |-> n - 1]]))
       /\ excused' = (excused \/ Excuse("order"))
       /\ UNCHANGED <<shown, drawn, drag, read, server, failures>>

\* One issue changed and saved with one request.
SaveOne(kind, epoch, i, row, body) ==
    LET n == gestures + 1 IN
    /\ Gesture
    /\ heap' = [heap EXCEPT ![epoch][i] = row]
    /\ ops' = WithOp(n, kind, epoch, <<[issue |-> i, was |-> heap[epoch][i]]>>)
    /\ requests' = requests \cup
         {Request(n, IF kind = "archive" THEN "archive" ELSE "put", [j \in {i} |-> body])}
    /\ excused' = (excused \/ Excuse(kind))
    /\ UNCHANGED <<shown, drawn, read, server, failures>>

\* Dropped on a section, beside its list (setupSectionDrop).
DropOnSection(status) ==
    LET i == drag.issue
        row == [local[i] EXCEPT !.status = status]
    IN /\ i # None
       /\ local[i].status # status
       /\ SaveOne(IF status = "Archive" THEN "archive" ELSE "section", Len(heap), i, row, row)
       /\ drag' = NoDrag

\* handleTogglePriority, handleAssignToMe and the planning panel's remove button, on the
\* issue the card was drawn for.
EditOnCard(i) ==
    LET old == heap[drawn.epoch][i]
        row == [old EXCEPT !.field = ~@]
    IN SaveOne("toggle", drawn.epoch, i, row, row) /\ UNCHANGED drag

\* processDroppedCard: dropped on a day of the planning panel.
DropOnDay ==
    LET i == drag.issue
        row == [local[i] EXCEPT !.field = TRUE]
    IN /\ i # None /\ ~local[i].field
       /\ SaveOne("plan", Len(heap), i, row, row)
       /\ drag' = NoDrag

\* Dropped on a release of the backlog: only the answer changes the issue.
DropOnLane ==
    LET i == drag.issue IN
    /\ i # None /\ ~local[i].field
    /\ SaveOne("lane", Len(heap), i, local[i], [local[i] EXCEPT !.field = TRUE])
    /\ drag' = NoDrag

\* A view is entered: all issues are read again.
Refresh ==
    /\ Gesture
    /\ read' = [pc |-> "sent", rows |-> server]
    /\ excused' = (excused \/ ops # {})
    /\ UNCHANGED <<heap, shown, drawn, drag, ops, requests, server, failures>>

-----------------------------------------------------------------------------
(* The server. *)

\* Archived issues are read-only, and archiving is no PUT.
Accepts(q) ==
    /\ q.kind # "doubled"
    /\ \A i \in DOMAIN q.body :
        server[i].status # "Archive" /\ (q.kind = "put" => q.body[i].status # "Archive")

Applied(q) ==
    [i \in Issues |->
        IF i \notin DOMAIN q.body THEN server[i]
        ELSE CASE q.kind = "put" -> q.body[i]
               [] q.kind = "archive" -> [server[i] EXCEPT !.status = "Archive"]
               [] q.kind = "positions" -> [server[i] EXCEPT !.pos = q.body[i].pos]]

\* The answer to a gesture that has failed already interests nobody.
AnswerTo(q, pc, rows) ==
    requests' = (requests \ {q}) \cup
        (IF \E o \in ops : o.n = q.n THEN {[q EXCEPT !.pc = pc, !.body = rows]} ELSE {})

Serve(q) ==
    /\ q.pc = "sent"
    /\ server' = IF Accepts(q) THEN Applied(q) ELSE server
    /\ AnswerTo(q, IF Accepts(q) THEN "saved" ELSE "failed", [i \in DOMAIN q.body |-> server'[i]])
    /\ excused' = (excused \/ \E p \in requests : p.pc = "sent" /\ p.sent < q.sent)
    /\ UNCHANGED <<heap, shown, drawn, drag, ops, read, gestures, failures>>

\* Gestures that put one field back do not read the issues again when the answer is lost.
ServeInVain(q, executed) ==
    /\ q.pc = "sent"
    /\ failures < MaxFailures
    /\ failures' = failures + 1
    /\ executed => Accepts(q)
    /\ server' = IF executed THEN Applied(q) ELSE server
    /\ AnswerTo(q, "failed", q.body)
    /\ excused' = (excused \/ (executed /\ \E o \in ops : o.n = q.n /\ o.kind \in {"toggle", "lane"}))
    /\ UNCHANGED <<heap, shown, drawn, drag, ops, read, gestures>>

-----------------------------------------------------------------------------
(* Answers. *)

OfOp(o) == {q \in requests : q.n = o.n}

\* The statuses are saved: now the positions, if any.
SavePositions(o) ==
    LET next == Positions(o.n, o.changes, heap[o.epoch]) IN
    /\ o.kind = "order"
    /\ \A q \in OfOp(o) : q.kind = "put" /\ q.pc = "saved"
    /\ next # {}
    /\ requests' = (requests \ OfOp(o)) \cup next
    /\ UNCHANGED <<heap, shown, drawn, drag, ops, read, server, gestures, failures, excused>>

\* A lane merges the answer into the issue; the others have it already.
Merged(o) ==
    IF o.kind # "lane" THEN heap
    ELSE LET q == CHOOSE r \in OfOp(o) : TRUE
             i == CHOOSE j \in DOMAIN q.body : TRUE
         IN [heap EXCEPT ![o.epoch][i] = q.body[i]]

Saved(o) ==
    /\ \A q \in OfOp(o) : q.pc = "saved"
    /\ o.kind = "order" /\ (\E q \in OfOp(o) : q.kind = "put")
          => Positions(o.n, o.changes, heap[o.epoch]) = {}
    /\ heap' = Merged(o)
    /\ Redraw(heap'[Len(heap)], Len(heap))
    /\ ops' = ops \ {o}
    /\ requests' = requests \ OfOp(o)
    /\ UNCHANGED <<read, server, gestures, failures, excused>>

\* Mutant: the previous values replace the issue.
PreviousOnly(row, was, kind) == [status |-> was.status, pos |-> was.pos]

\* What a failed gesture puts back.
Restored(row, was, kind) ==
    CASE kind = "order" -> [row EXCEPT !.status = was.status, !.pos = was.pos]
      [] kind \in {"section", "archive"} -> [row EXCEPT !.status = was.status]
      [] kind = "toggle" -> [row EXCEPT !.field = was.field]
      [] kind \in {"plan", "lane"} -> row

\* ... change by change, in their order.
RolledBack(rows, changes, kind) ==
    LET upTo[n \in 0..Len(changes)] ==
            IF n = 0 THEN rows
            ELSE [upTo[n - 1] EXCEPT ![changes[n].issue] = Restored(@, changes[n].was, kind)]
    IN upTo[Len(changes)]

\* Mutant: only the fields put back are trusted, nothing is read.
ReadsNever(kind) == FALSE

\* showSaveFailure, handlePlanningDrop.
ReadsAgain(kind) == kind \in {"order", "section", "archive", "plan"}

\* The first failure counts (Promise.all); requests under way go on.
Fails(o) ==
    /\ \E q \in OfOp(o) : q.pc = "failed"
    /\ heap' = [heap EXCEPT ![o.epoch] = RolledBack(@, o.changes, o.kind)]
    /\ ops' = ops \ {o}
    /\ requests' = {q \in requests : q.n = o.n => q.pc = "sent"}
    /\ read' = IF ReadsAgain(o.kind) THEN [pc |-> "sent", rows |-> server] ELSE read
    /\ IF o.kind \in {"plan", "lane"} THEN UNCHANGED <<shown, drawn, drag>>
       ELSE Redraw(heap'[Len(heap)], Len(heap))
    /\ excused' = (excused \/ ~o.alone)
    /\ UNCHANGED <<server, gestures, failures>>

\* The answer of the newest refresh; a refresh that fails changes nothing.
ReadServed ==
    /\ read.pc = "sent"
    /\ read' = [pc |-> "answered", rows |-> server]
    /\ excused' = (excused \/ \E q \in requests : q.pc = "sent")
    /\ UNCHANGED <<heap, shown, drawn, drag, ops, requests, server, gestures, failures>>

\* setIssues: new issues, which the page shows when the rest of the refresh is there.
ReadReturns ==
    /\ read.pc = "answered"
    /\ heap' = Append(heap, read.rows)
    /\ read' = [read EXCEPT !.pc = "placed"]
    /\ UNCHANGED <<shown, drawn, drag, ops, requests, server, gestures, failures, excused>>

RefreshEnds ==
    /\ read.pc = "placed"
    /\ read' = [read EXCEPT !.pc = "none"]
    /\ Redraw(local, Len(heap))
    /\ UNCHANGED <<heap, ops, requests, server, gestures, failures, excused>>

-----------------------------------------------------------------------------
\* The page has just been drawn.
Init ==
    /\ server \in [Issues -> [status : Listed, pos : 0..(Cardinality(Issues) - 1), field : {FALSE}]]
    /\ heap = <<server>>
    /\ shown = Rendered(server)
    /\ drawn = [epoch |-> 1, lists |-> Rendered(server)]
    /\ drag = NoDrag
    /\ ops = {} /\ requests = {}
    /\ read = [pc |-> "none", rows |-> server]
    /\ gestures = 0 /\ failures = 0
    /\ excused = FALSE

Drops == \E c \in Listed : \E k \in 1..(Len(shown[c]) + 1) : Drop(c, k)
Answered == \E o \in ops : SavePositions(o) \/ Saved(o) \/ Fails(o)
Refreshing == ReadServed \/ ReadReturns \/ RefreshEnds

Next ==
    \/ \E c \in Listed : \E k \in 1..Len(shown[c]) : StartDrag(c, k)
    \/ Drops
    \/ \E i \in Issues : EditOnCard(i)
    \/ \E i \in Issues, c \in Listed, top \in BOOLEAN : MoveInList(i, c, top)
    \/ \E s \in Statuses : DropOnSection(s)
    \/ CancelDrag \/ DropOnDay \/ DropOnLane \/ Refresh
    \/ \E q \in requests : Serve(q) \/ \E executed \in BOOLEAN : ServeInVain(q, executed)
    \/ Answered
    \/ Refreshing

Spec == Init /\ [][Next]_vars

-----------------------------------------------------------------------------
(* Properties. *)

\* An archived issue is sorted by time, not by position.
Agree(rows, others) ==
    \A i \in Issues :
        /\ rows[i].status = others[i].status /\ rows[i].field = others[i].field
        /\ rows[i].pos = others[i].pos \/ rows[i].status = "Archive"

\* When nothing is being saved or read, the page has what the server has: after gestures
\* that overlapped, and after one that failed half way (saveIssueOrder, showSaveFailure).
LocalIsServer == ops = {} /\ requests = {} /\ read.pc = "none" /\ ~excused => Agree(local, server)

\* The lists show every issue that belongs there.  A drop may find one missing: when an issue
\* dragged since before it was archived is dropped on a section, and when the issues of a
\* refresh are there but not yet drawn.
Complete(lists, rows) ==
    \A i \in Issues : rows[i].status \in Listed =>
        \E n \in DOMAIN Places(lists) : Places(lists)[n].issue = i

\* A drop renumbers every list it disturbs, whatever has changed since the page was drawn:
\* the next rendering shows the cards as they were dropped (getBoardUpdates).
DropLands ==
    [][Drops /\ OneCardEach(shown') /\ Complete(shown', local) => Rendered(local') = shown']_vars

=============================================================================

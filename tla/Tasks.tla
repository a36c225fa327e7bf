------------------------------- MODULE Tasks -------------------------------
(* The tasks of the issue that is open in the modal (static/js/components/  *)
(* tasks.js, modal.js).  A change is made to the task of the page first and *)
(* saved then; what fails is put back, nothing is read again.  Every        *)
(* rendering makes new items; the handlers of the old ones go on with their *)
(* own checkboxes.                                                          *)
EXTENDS Naturals, Sequences, FiniteSets

CONSTANTS
    TaskIds,
    MaxTaskSaves,     \* bound: changes by the user
    MaxTaskFailures   \* bound: requests that fail, or whose answer is lost

ASSUME TasksAssumption ==
    /\ TaskIds \subseteq Nat /\ IsFiniteSet(TaskIds)
    /\ MaxTaskSaves \in Nat /\ MaxTaskFailures \in Nat

VARIABLES
    tasks,         \* currentIssue.tasks
    stored,        \* the tasks on the server
    items,         \* per rendering: the checkboxes of its items
    order,         \* the items of the last rendering, as they stand on the page
    taskSaves,     \* requests
    taskActions, taskFailures,
    disturbed      \* history: saves that failed or were served after others had overlapped
                   \* them, or whose answer was lost
taskVars == <<tasks, stored, items, order, taskSaves, taskActions, taskFailures, disturbed>>

Task == [done : BOOLEAN, title : Nat, pos : Nat]
IsOrder(s, ids) == s \in [1..Cardinality(ids) -> ids] /\ \A m, n \in DOMAIN s : s[m] = s[n] => m = n

TasksTypeOK ==
    /\ DOMAIN tasks \subseteq TaskIds /\ \A t \in DOMAIN tasks : tasks[t] \in Task
    /\ DOMAIN stored \subseteq TaskIds /\ \A t \in DOMAIN stored : stored[t] \in Task
    /\ IsOrder(order, DOMAIN tasks)
    /\ \A n \in DOMAIN items : DOMAIN items[n] \subseteq TaskIds
    /\ DOMAIN items[Len(items)] = DOMAIN tasks
    /\ \A s \in taskSaves :
          /\ s.kind \in {"toggle", "title", "order", "add", "delete"}
          /\ s.pc \in {"sent", "saved", "failed"} /\ s.n \in 1..taskActions /\ s.drawing \in DOMAIN items
    /\ taskActions \in 0..MaxTaskSaves /\ taskFailures \in 0..MaxTaskFailures /\ disturbed \in BOOLEAN

-----------------------------------------------------------------------------
Sorted(list) ==
    CHOOSE s \in [1..Cardinality(DOMAIN list) -> DOMAIN list] :
        \A m, n \in DOMAIN s : m < n =>
            \/ list[s[m]].pos < list[s[n]].pos
            \/ list[s[m]].pos = list[s[n]].pos /\ s[m] < s[n]

\* Mutant: the items of the last rendering stay where they are.
RenderInPlace(list) ==
    /\ tasks' = list
    /\ items' = Append(items, [t \in DOMAIN list |-> list[t].done])
    /\ UNCHANGED order

\* renderTasks.
Render(list) ==
    /\ tasks' = list
    /\ order' = Sorted(list)
    /\ items' = Append(items, [t \in DOMAIN list |-> list[t].done])

SameItems(list) == tasks' = list /\ UNCHANGED <<order, items>>

\* A request with the tasks it writes; was: what a failure puts back.
SaveTasks(kind, ids, body, was) ==
    /\ taskActions < MaxTaskSaves
    /\ taskActions' = taskActions + 1
    /\ taskSaves' = {[s EXCEPT !.alone = FALSE] : s \in taskSaves} \cup
         {[n |-> taskActions + 1, kind |-> kind, ids |-> ids, body |-> body, was |-> was,
           drawing |-> Len(items), alone |-> taskSaves = {}, pc |-> "sent"]}
    /\ UNCHANGED <<stored, taskFailures, disturbed>>

Running(kind) == {s \in taskSaves : s.kind = kind}

\* The checkbox: the task gets its value, and is saved as a whole.
Toggle(t) ==
    LET box == ~items[Len(items)][t]
        list == [tasks EXCEPT ![t].done = box]
    IN /\ items' = [items EXCEPT ![Len(items)][t] = box]
       /\ tasks' = list
       /\ SaveTasks("toggle", {t}, list, tasks)
       /\ UNCHANGED order

\* saveTask of an item; one runs at a time (guardSubmit).
Retitle(t) ==
    LET list == [tasks EXCEPT ![t].title = taskActions + 1] IN
    /\ ~\E s \in Running("title") : s.ids = {t} /\ s.drawing = Len(items)
    /\ SameItems(list)
    /\ SaveTasks("title", {t}, list, tasks)

\* saveTaskOrder: the tasks that do not stand where their position says.
Drag(s) ==
    LET moved == {s[k] : k \in {n \in DOMAIN s : tasks[s[n]].pos # n - 1}}
        list == [t \in DOMAIN tasks |->
                    [tasks[t] EXCEPT !.pos = (CHOOSE k \in DOMAIN s : s[k] = t) - 1]]
    IN /\ moved # {}
       /\ order' = s /\ tasks' = list
       /\ SaveTasks("order", moved, list, tasks)
       /\ UNCHANGED items

\* handleTaskSubmit, one at a time: the new task, of the highest id, goes to the end.
AddTask ==
    LET known == DOMAIN stored \cup DOMAIN tasks \cup UNION {s.ids : s \in taskSaves}
        new == [done |-> FALSE, title |-> 0, pos |-> Cardinality(DOMAIN tasks)]
    IN \E t \in TaskIds :
       /\ \A u \in known : u < t
       /\ Running("add") = {}
       /\ SaveTasks("add", {t}, [i \in {t} |-> new], tasks)
       /\ UNCHANGED <<tasks, order, items>>

\* Once the user has confirmed.
DeleteTask(t) ==
    /\ ~\E s \in Running("delete") : s.ids = {t}
    /\ SaveTasks("delete", {t}, tasks, tasks)
    /\ UNCHANGED <<tasks, order, items>>

-----------------------------------------------------------------------------
(* The server. *)

Exist(s) == s.kind = "add" \/ s.ids \subseteq DOMAIN stored

Written(s) ==
    CASE s.kind = "delete" -> [t \in DOMAIN stored \ s.ids |-> stored[t]]
      [] s.kind = "order" ->
            [t \in DOMAIN stored |->
                IF t \in s.ids THEN [stored[t] EXCEPT !.pos = s.body[t].pos] ELSE stored[t]]
      [] OTHER -> [t \in DOMAIN stored \cup s.ids |-> IF t \in s.ids THEN s.body[t] ELSE stored[t]]

TaskServed(s, pc, executed) ==
    /\ s.pc = "sent"
    /\ stored' = IF executed THEN Written(s) ELSE stored
    /\ taskSaves' = (taskSaves \ {s}) \cup {[s EXCEPT !.pc = pc]}

ServeTask(s) ==
    /\ TaskServed(s, IF Exist(s) THEN "saved" ELSE "failed", Exist(s))
    /\ disturbed' = (disturbed \/ \E r \in taskSaves : r.pc = "sent" /\ r.n < s.n)
    /\ UNCHANGED <<tasks, items, order, taskActions, taskFailures>>

ServeTaskInVain(s, executed) ==
    /\ taskFailures < MaxTaskFailures
    /\ taskFailures' = taskFailures + 1
    /\ executed => Exist(s)
    /\ TaskServed(s, "failed", executed)
    /\ disturbed' = (disturbed \/ executed)
    /\ UNCHANGED <<tasks, items, order, taskActions>>

-----------------------------------------------------------------------------
(* Answers. *)

TaskSaved(s) ==
    /\ s.pc = "saved"
    /\ CASE s.kind = "add" ->
                Render([t \in DOMAIN tasks \cup s.ids |-> IF t \in s.ids THEN s.body[t] ELSE tasks[t]])
         [] s.kind = "delete" -> Render([t \in DOMAIN tasks \ s.ids |-> tasks[t]])
         [] OTHER -> SameItems(tasks)
    /\ taskSaves' = taskSaves \ {s}
    /\ UNCHANGED <<stored, taskActions, taskFailures, disturbed>>

\* Mutant: the positions stay as they were dropped.
LeavesOrder(s) == Render(tasks)

\* saveTaskOrder puts the old positions back.
RestoreOrder(s) ==
    Render([t \in DOMAIN tasks |->
              IF t \in s.ids THEN [tasks[t] EXCEPT !.pos = s.was[t].pos] ELSE tasks[t]])

\* The checkbox of the item that was clicked flips back, and the task gets its value.
RestoreBox(s, t) ==
    LET box == ~items[s.drawing][t] IN
    /\ items' = [items EXCEPT ![s.drawing][t] = box]
    /\ tasks' = IF t \in DOMAIN tasks THEN [tasks EXCEPT ![t].done = box] ELSE tasks
    /\ UNCHANGED order

TaskFails(s) ==
    /\ s.pc = "failed"
    /\ CASE s.kind = "toggle" -> \E t \in s.ids : RestoreBox(s, t)
         [] s.kind = "title" ->
                SameItems([t \in DOMAIN tasks |->
                    IF t \in s.ids THEN [tasks[t] EXCEPT !.title = s.was[t].title] ELSE tasks[t]])
         [] s.kind = "order" -> RestoreOrder(s)
         [] OTHER -> SameItems(tasks)
    /\ taskSaves' = taskSaves \ {s}
    /\ disturbed' = (disturbed \/ ~s.alone)
    /\ UNCHANGED <<stored, taskActions, taskFailures>>

-----------------------------------------------------------------------------
TasksInit ==
    /\ \E ids \in SUBSET TaskIds :
          /\ stored \in [ids -> [done : {FALSE}, title : {0}, pos : 0..Cardinality(ids)]]
    /\ tasks = stored
    /\ order = Sorted(tasks)
    /\ items = <<[t \in DOMAIN tasks |-> tasks[t].done]>>
    /\ taskSaves = {}
    /\ taskActions = 0 /\ taskFailures = 0
    /\ disturbed = FALSE

TasksNext ==
    \/ \E t \in DOMAIN tasks : Toggle(t) \/ Retitle(t) \/ DeleteTask(t)
    \/ \E s \in [1..Cardinality(DOMAIN tasks) -> DOMAIN tasks] : IsOrder(s, DOMAIN tasks) /\ Drag(s)
    \/ AddTask
    \/ \E s \in taskSaves :
          \/ ServeTask(s) \/ (\E executed \in BOOLEAN : ServeTaskInVain(s, executed))
          \/ TaskSaved(s) \/ TaskFails(s)

TasksSpec == TasksInit /\ [][TasksNext]_taskVars

-----------------------------------------------------------------------------
(* Properties. *)

\* When nothing is being saved, the page shows the tasks the server has, each checkbox and
\* the order included, after failures too: what renderTasks and saveTaskOrder put back is
\* what was there.
TasksAsStored ==
    taskSaves = {} /\ ~disturbed =>
        /\ tasks = stored
        /\ order = Sorted(tasks)
        /\ \A t \in DOMAIN tasks : items[Len(items)][t] = tasks[t].done
=============================================================================

---------------------------- MODULE LessonTasks -----------------------------
(***************************************************************************)
(* The tasks of a lesson, edited in the course builder and saved with the  *)
(* course, or duplicated by the service one at a time.  Their rows obey the *)
(* same rules as those of lessons (CourseStructure), except that a task is *)
(* deleted, never archived: its order_index is free at once, while the     *)
(* slots of the tasks that stay are not freed before new ones are created. *)
(***************************************************************************)
EXTENDS CourseStructure, FiniteSets

CONSTANTS MaxEdits   \* edits, undos, duplications, loads and saves without changes

ASSUME TasksAssumption == MaxEdits \in Nat

VARIABLES
    taskRow,  \* lesson_tasks of the lesson
    store,    \* the lesson in the store of the builder
    copying,  \* the duplication under way
    edits

tasksVars == <<taskRow, store, copying, edits>>

NoSave == [at |-> "no", payload |-> <<>>, reply |-> <<>>]
Nothing == 0
NoDuplicate == [at |-> "no", of |-> Nothing, reply |-> [id |-> Nothing, order |-> 0]]

Loaded(r) ==
    [tasks |-> Copy(r), past |-> <<>>, future |-> <<>>, dirty |-> FALSE,
     save |-> NoSave, doomed |-> Nothing, drawn |-> TRUE, locals |-> 0]

\* Tasks made by a builder are numbered from 0, by create_lesson_task from 1.
TasksInit ==
    /\ \E base \in {0, 1}, n \in 0..2 : \E ids \in [1..n -> LessonId] :
          /\ IsInjective(ids)
          /\ taskRow = [i \in LessonId |->
                IF Contains(ids, i)
                THEN [order |-> base - 1 + CHOOSE k \in 1..n : ids[k] = i, archived |-> FALSE]
                ELSE NoRow]
    /\ store = Loaded(taskRow)
    /\ copying = NoDuplicate
    /\ edits = 0

OneEdit == edits < MaxEdits /\ edits' = edits + 1

\* Primary keys are random; none is used twice among what the store remembers.
TaskIds(items) == {items[k].id : k \in DOMAIN items}
InUse ==
    UNION {TaskIds(s) : s \in Range(store.past) \cup Range(store.future) \cup
                              {store.tasks, store.save.payload, store.save.reply}}
    \cup {store.doomed, copying.of, copying.reply.id} \cup Rows(taskRow)
TaskKeys(n) == {s \in [1..n -> LessonId \ InUse] : IsInjective(s)}

-----------------------------------------------------------------------------
(* Edits *)

Reindexed(items) == [k \in DOMAIN items |-> [items[k] EXCEPT !.order = k - 1]]

Pushed(items) ==
    [store EXCEPT !.tasks = items, !.past = Append(@, store.tasks), !.future = <<>>, !.dirty = TRUE]

AddTask ==
    LET id == -(store.locals + 1)
    IN /\ store.drawn /\ OneEdit
       /\ store' = [Pushed(Append(store.tasks, [id |-> id, order |-> Len(store.tasks)]))
                      EXCEPT !.locals = @ + 1]
       /\ UNCHANGED <<taskRow, copying>>

\* A title, or the content.
UpdateTask ==
    /\ store.drawn /\ store.tasks # <<>> /\ OneEdit
    /\ store' = Pushed(store.tasks)
    /\ UNCHANGED <<taskRow, copying>>

ReorderTasks ==
    \E from, to \in DOMAIN store.tasks :
        /\ store.drawn /\ from # to /\ OneEdit
        /\ store' = Pushed(Reindexed(InsertAt(RemoveAt(store.tasks, from), to, store.tasks[from])))
        /\ UNCHANGED <<taskRow, copying>>

RequestDelete ==
    /\ store.drawn /\ store.doomed = Nothing /\ edits < MaxEdits
    /\ \E id \in TaskIds(store.tasks) : store' = [store EXCEPT !.doomed = id]
    /\ UNCHANGED <<taskRow, copying, edits>>

\* The task may be gone by then, or have got an id of the service.
ConfirmDelete ==
    /\ store.drawn /\ store.doomed # Nothing /\ OneEdit
    /\ store' = [Pushed(Reindexed(SelectSeq(store.tasks, LAMBDA t : t.id # store.doomed)))
                   EXCEPT !.doomed = Nothing]
    /\ UNCHANGED <<taskRow, copying>>

CancelDelete ==
    /\ store.doomed # Nothing
    /\ store' = [store EXCEPT !.doomed = Nothing]
    /\ UNCHANGED <<taskRow, copying, edits>>

UndoTasks ==
    /\ store.past # <<>> /\ OneEdit
    /\ store' = [store EXCEPT !.tasks = Last(store.past), !.past = Front(@),
                              !.future = <<store.tasks>> \o @, !.dirty = TRUE]
    /\ UNCHANGED <<taskRow, copying>>

RedoTasks ==
    /\ store.future # <<>>
    /\ store' = [store EXCEPT !.tasks = Head(store.future), !.future = Tail(@),
                              !.past = Append(@, store.tasks), !.dirty = TRUE]
    /\ UNCHANGED <<taskRow, copying, edits>>

-----------------------------------------------------------------------------
(* Saving *)

\* The button and the timer save changes only, the key saves anyway.
SaveTasks ==
    /\ store.save.at = "no"
    /\ \/ store.dirty /\ UNCHANGED edits
       \/ ~store.dirty /\ OneEdit
    /\ store' = [store EXCEPT !.save = [NoSave EXCEPT !.at = "sent", !.payload = store.tasks]]
    /\ UNCHANGED <<taskRow, copying>>

\* Slip: tasks that the payload leaves out stay.
LeftAlone(r, payload) == r

\* "Archive removed tasks BEFORE creating new ones": they are deleted.
Removed(r, payload) == [i \in LessonId |-> IF i \in TaskIds(payload) THEN r[i] ELSE NoRow]

\* The tasks of the payload one by one: moved if the lesson has them, else created.
BulkTasks(r, payload, keys) ==
    FoldLeft(LAMBDA t, p : BulkLesson(Rows(r), t, p),
             [ok |-> TRUE, row |-> Removed(r, payload), keys |-> keys], payload)

ServeTasks ==
    LET payload == store.save.payload IN
    /\ store.save.at = "sent"
    /\ \E keys \in TaskKeys(Cardinality({k \in DOMAIN payload : payload[k].id \notin Rows(taskRow)})) :
          LET result == BulkTasks(taskRow, payload, keys)
          IN IF result.ok
             THEN /\ taskRow' = result.row
                  /\ store' = [store EXCEPT !.save.at = "done", !.save.reply = Copy(result.row)]
             ELSE /\ store' = [store EXCEPT !.save.at = "refused"]
                  /\ UNCHANGED taskRow
    /\ UNCHANGED <<copying, edits>>

TasksSaved ==
    /\ store.save.at = "done"
    /\ store' = [store EXCEPT !.tasks = store.save.reply, !.dirty = FALSE, !.save = NoSave]
    /\ UNCHANGED <<taskRow, copying, edits>>

\* Refused or lost: the error takes the place of the builder.
TasksFail ==
    /\ store.save.at # "no"
    /\ store' = [store EXCEPT !.save = NoSave, !.drawn = FALSE]
    /\ UNCHANGED <<taskRow, copying, edits>>

-----------------------------------------------------------------------------
(* Duplication *)

DuplicateTask ==
    /\ store.drawn /\ copying.at = "no" /\ OneEdit
    /\ \E id \in TaskIds(store.tasks) : copying' = [NoDuplicate EXCEPT !.at = "sent", !.of = id]
    /\ UNCHANGED <<taskRow, store>>

\* A local id is refused, as is the id of a task that is gone.
ServeDuplicate ==
    /\ copying.at = "sent"
    /\ IF copying.of \in Rows(taskRow)
       THEN \E keys \in TaskKeys(1) :
               /\ taskRow' = Insert(taskRow, keys[1], NextOrder(taskRow)).row
               /\ copying' = [copying EXCEPT !.at = "done",
                                  !.reply = [id |-> keys[1], order |-> NextOrder(taskRow)]]
       ELSE copying' = [copying EXCEPT !.at = "refused"] /\ UNCHANGED taskRow
    /\ UNCHANGED <<store, edits>>

\* Sorted by order, equals as they stood.
Sorted(items) ==
    LET at == SetToSortSeq(DOMAIN items, LAMBDA a, b :
                  \/ items[a].order < items[b].order
                  \/ items[a].order = items[b].order /\ a < b)
    IN [k \in DOMAIN items |-> items[at[k]]]

\* The copy joins the tasks with the order the service gave it when it was made; a save
\* may have deleted or moved it since.
Duplicated ==
    /\ copying.at = "done"
    /\ store' = Pushed(Sorted(Append(store.tasks, copying.reply)))
    /\ copying' = NoDuplicate
    /\ UNCHANGED <<taskRow, edits>>

DuplicateFails ==
    /\ copying.at # "no"
    /\ copying' = NoDuplicate
    /\ store' = [store EXCEPT !.drawn = FALSE]
    /\ UNCHANGED <<taskRow, edits>>

\* The page is loaded anew; what was under way is not waited for.
LoadTasks ==
    /\ OneEdit
    /\ store' = Loaded(taskRow)
    /\ copying' = NoDuplicate
    /\ UNCHANGED taskRow

-----------------------------------------------------------------------------
TasksNext ==
    \/ AddTask \/ UpdateTask \/ ReorderTasks \/ RequestDelete \/ ConfirmDelete \/ CancelDelete
    \/ UndoTasks \/ RedoTasks \/ SaveTasks \/ ServeTasks \/ TasksSaved \/ TasksFail
    \/ DuplicateTask \/ ServeDuplicate \/ Duplicated \/ DuplicateFails \/ LoadTasks

TasksSpec == TasksInit /\ [][TasksNext]_tasksVars

-----------------------------------------------------------------------------
(* Properties *)

Rising(items) == \A k \in 1..(Len(items) - 1) : items[k].order < items[k + 1].order

\* A save that succeeds leaves just the tasks of its payload, in its order, though they
\* are moved one by one and each move renumbers others; a task the lesson still had
\* keeps its row.  A copy made while the save was under way does not survive it.
SaveKeepsTasks ==
    [][store.save.at = "sent" /\ store'.save.at = "done" /\ Rising(store.save.payload) =>
          LET payload == store.save.payload
              after == Listing(taskRow')
          IN /\ Len(after) = Len(payload)
             /\ \A k \in DOMAIN payload :
                   IF payload[k].id \in Rows(taskRow) THEN after[k] = payload[k].id
                   ELSE after[k] \notin Rows(taskRow)]_tasksVars

\* update_course_structure_bulk: "Archive removed tasks BEFORE creating new ones (avoid
\* order_index conflicts)".  No save whose tasks are numbered one after the other is
\* refused for their order.
NoOrderConflict ==
    [][~ (/\ store.save.at = "sent" /\ store'.save.at = "refused"
          /\ store.save.payload = Reindexed(store.save.payload))]_tasksVars
=============================================================================

---------------------------- MODULE CourseEditor ----------------------------
(***************************************************************************)
(* The course builder of the web admin (its store, with undo history and   *)
(* autosave) editing the lessons of a course that the backend keeps        *)
(* (CourseStructure), while the catalog panel, or a colleague with the     *)
(* same course open, changes the same lessons.                             *)
(*                                                                         *)
(* The builder works on a copy: it saves the whole copy in one request and *)
(* takes the answer as its new copy.  The user goes on editing while the   *)
(* request is under way.                                                   *)
(***************************************************************************)
EXTENDS CourseStructure

CONSTANTS
    Editor,     \* open course builders
    None,
    MaxSteps    \* bound: edits, and requests of the panel, in a behaviour

VARIABLES
    row,     \* course_lessons
    editor,  \* the store of each course builder
    steps    \* edits and panel requests so far

vars == <<row, editor, steps>>

\* Ids of lessons that were never saved (genLocalId) are negative.
LocalId == {-n : n \in 1..MaxSteps}
Item == [id : LessonId \cup LocalId, order : Nat]

\* A save under way: what was sent, and the answer once the server gave one.
Saving == [payload : Seq(Item), state : {"sent", "done", "refused"}, reply : Seq(Item)]
Awaits(e, state) == editor[e].saving # None /\ editor[e].saving.state = state

TypeOK ==
    /\ row \in [LessonId -> LessonRow \cup {NoRow}]
    /\ editor \in [Editor -> [course : Seq(Item), past : Seq(Seq(Item)), future : Seq(Seq(Item)),
                              dirty : BOOLEAN, saving : {None} \cup Saving,
                              reload : BOOLEAN, error : BOOLEAN, locals : 0..MaxSteps]]
    /\ steps \in 0..MaxSteps

\* A course with some lessons, written by a builder (numbered from 0) or by the
\* panel (numbered from 1), and opened.
Init ==
    /\ \E base \in {0, 1}, n \in 0..2 : \E ids \in [1..n -> LessonId] :
          /\ IsInjective(ids)
          /\ row = [i \in LessonId |->
                      IF \E k \in 1..n : ids[k] = i
                      THEN [order |-> base - 1 + CHOOSE k \in 1..n : ids[k] = i, archived |-> FALSE]
                      ELSE NoRow]
    /\ editor = [e \in Editor |->
          [course |-> Copy(row), past |-> <<>>, future |-> <<>>, dirty |-> FALSE,
           saving |-> None, reload |-> FALSE, error |-> FALSE, locals |-> 0]]
    /\ steps = 0

Step == steps < MaxSteps /\ steps' = steps + 1

\* Primary keys are random: a new row gets any key that no row has and that no
\* builder remembers.
Ids(items) == {items[k].id : k \in DOMAIN items}
Remembered(e) ==
    Ids(editor[e].course)
    \cup UNION {Ids(c) : c \in Range(editor[e].past) \cup Range(editor[e].future)}
    \cup IF editor[e].saving = None THEN {} ELSE Ids(editor[e].saving.payload)
Keys(n) ==
    {s \in [1..n -> (LessonId \ Rows(row)) \ UNION {Remembered(e) : e \in Editor}] : IsInjective(s)}

-----------------------------------------------------------------------------
(* Edits of the copy *)

\* An error takes the place of the builder, for as long as the page stays open.
\* The keys for undo and redo, and the autosave, go on.
Drawn(e) == ~editor[e].error

Numbered(items) == [k \in DOMAIN items |-> [items[k] EXCEPT !.order = k - 1]]

\* Every edit pushes the copy it replaces on the undo history.
Edit(e, course) ==
    /\ Step
    /\ editor' = [editor EXCEPT ![e].course = course,
                                ![e].past = Append(@, editor[e].course),
                                ![e].future = <<>>,
                                ![e].dirty = TRUE]
    /\ UNCHANGED row

AddLesson(e) ==
    LET id == -(editor[e].locals + 1)
        new == [id |-> id, order |-> Len(editor[e].course)]
    IN /\ Drawn(e) /\ Step
       /\ editor' = [editor EXCEPT ![e].course = Append(@, new),
                                   ![e].past = Append(@, editor[e].course),
                                   ![e].future = <<>>,
                                   ![e].dirty = TRUE,
                                   ![e].locals = @ + 1]
       /\ UNCHANGED row

RemoveLesson(e) ==
    Drawn(e) /\ \E k \in DOMAIN editor[e].course : Edit(e, Numbered(RemoveAt(editor[e].course, k)))

ReorderLessons(e) ==
    \E from, to \in DOMAIN editor[e].course :
        /\ Drawn(e) /\ from # to
        /\ Edit(e, Numbered(InsertAt(RemoveAt(editor[e].course, from), to,
                                     editor[e].course[from])))

Undo(e) ==
    /\ editor[e].past # <<>>
    /\ Step
    /\ editor' = [editor EXCEPT ![e].course = Last(editor[e].past),
                                ![e].past = Front(@),
                                ![e].future = <<editor[e].course>> \o @,
                                ![e].dirty = TRUE]
    /\ UNCHANGED row

Redo(e) ==
    /\ editor[e].future # <<>>
    /\ Step
    /\ editor' = [editor EXCEPT ![e].course = Head(editor[e].future),
                                ![e].past = Append(@, editor[e].course),
                                ![e].future = Tail(@),
                                ![e].dirty = TRUE]
    /\ UNCHANGED row

-----------------------------------------------------------------------------
(* Saving: by the button or the autosave timer, or by a key without changes *)

SendCopy(e) ==
    /\ editor[e].saving = None
    /\ editor' = [editor EXCEPT ![e].saving =
                      [payload |-> editor[e].course, state |-> "sent", reply |-> <<>>]]
    /\ UNCHANGED row

Save(e) == editor[e].dirty /\ SendCopy(e) /\ UNCHANGED steps
SaveUnchanged(e) == ~editor[e].dirty /\ Step /\ SendCopy(e)

\* The server handles the request.
BulkSave(e) ==
    LET payload == editor[e].saving.payload IN
    /\ Awaits(e, "sent")
    /\ \E keys \in Keys(Cardinality(Created(row, payload))) :
         LET result == Bulk(row, payload, keys) IN
         IF result.ok
         THEN /\ row' = result.row
              /\ editor' = [editor EXCEPT ![e].saving.state = "done",
                                          ![e].saving.reply = Copy(result.row)]
         ELSE /\ editor' = [editor EXCEPT ![e].saving.state = "refused"]
              /\ UNCHANGED row
    /\ UNCHANGED steps

\* The answer becomes the copy, whatever happened to the copy meanwhile.
Saved(e) ==
    /\ Awaits(e, "done")
    /\ editor' = [editor EXCEPT ![e].course = editor[e].saving.reply,
                                ![e].dirty = FALSE,
                                ![e].saving = None]
    /\ UNCHANGED <<row, steps>>

\* Slip: isSaving stays set after a refusal.
SaveFailedSilently(e) ==
    /\ editor[e].saving # None
    /\ ~Awaits(e, "refused")
    /\ editor' = [editor EXCEPT ![e].saving = None]
    /\ UNCHANGED <<row, steps>>

\* An error answer, or a connection lost before or after the server's work: the
\* copy stays dirty and the timer starts again.
SaveFailed(e) ==
    /\ editor[e].saving # None
    /\ editor' = [editor EXCEPT ![e].saving = None, ![e].error = TRUE]
    /\ UNCHANGED <<row, steps>>

\* loadCourse, and the reload after a rollback (which keeps the undo history)
LoadCourse(e) ==
    /\ Step
    /\ editor' = [editor EXCEPT ![e].course = Copy(row), ![e].past = <<>>,
                                ![e].future = <<>>, ![e].dirty = FALSE,
                                ![e].error = FALSE]
    /\ UNCHANGED row

Reload(e) ==
    /\ editor[e].reload
    /\ editor' = [editor EXCEPT ![e].course = Copy(row), ![e].dirty = FALSE,
                                ![e].reload = FALSE]
    /\ UNCHANGED <<row, steps>>

\* rollback_course, asked for in a builder, to a release of n lessons
RollbackCourse(e, n) ==
    /\ Drawn(e) /\ ~editor[e].reload
    /\ Step
    /\ \E keys \in Keys(n) : row' = Rebuilt(keys)
    /\ editor' = [editor EXCEPT ![e].reload = TRUE]

\* It is refused, or its answer or the reload is lost.
RollbackFailed(e) ==
    /\ Drawn(e) \/ editor[e].reload
    /\ editor' = [editor EXCEPT ![e].reload = FALSE, ![e].error = TRUE]
    /\ UNCHANGED <<row, steps>>

-----------------------------------------------------------------------------
(* The catalog panel *)

PanelWrite(result) ==
    /\ Step
    /\ result.ok
    /\ row' = result.row
    /\ UNCHANGED editor

PanelCreate == \E keys \in Keys(1) : PanelWrite(Insert(row, keys[1], NextOrder(row)))
PanelArchive(i) == PanelWrite(ArchiveLesson(row, i))
PanelRestore(i) == PanelWrite(SetArchived(row, i, FALSE))
\* update_course_lesson: the status of a lesson, without moving it
PanelPatch(i) == \E archived \in BOOLEAN : PanelWrite(SetArchived(row, i, archived))
\* The panel sends the position among the lessons it lists, counted from 1.
PanelReorder(i) ==
    \E k \in DOMAIN Listing(row) : PanelWrite(ReorderLesson(row, i, k))

-----------------------------------------------------------------------------
Next ==
    \/ \E e \in Editor :
          \/ AddLesson(e) \/ RemoveLesson(e) \/ ReorderLessons(e)
          \/ Undo(e) \/ Redo(e)
          \/ Save(e) \/ SaveUnchanged(e) \/ BulkSave(e) \/ Saved(e) \/ SaveFailed(e)
          \/ LoadCourse(e) \/ Reload(e) \/ RollbackFailed(e)
          \/ \E n \in 1..2 : RollbackCourse(e, n)
    \/ PanelCreate
    \/ \E i \in Rows(row) :
          PanelArchive(i) \/ PanelRestore(i) \/ PanelPatch(i) \/ PanelReorder(i)

Spec == Init /\ [][Next]_vars

\* The timer fires once the user pauses, and a fetch is settled one way or the
\* other.  Nothing is assumed of the server.
FairSpec ==
    /\ Spec
    /\ \A e \in Editor : WF_vars(Save(e)) /\ WF_vars(Saved(e) \/ SaveFailed(e))

-----------------------------------------------------------------------------
\* No two lessons of the course share an order_index, archived ones included,
\* although reorder_lesson renumbers them one UPDATE at a time.
UniqueOrder ==
    \A i, j \in Rows(row) : i # j => row[i].order # row[j].order

\* The handling of a save request, by its effect on the builder that sent it.
Handled(e) == Awaits(e, "sent") /\ Awaits(e, "done")'

Ascending(items) == \A k \in 1..(Len(items) - 1) : items[k].order < items[k + 1].order

\* A save that succeeds leaves the lessons of its payload, no other, in the
\* order of the payload if that is ascending, even though update_course_structure_bulk moves them one
\* by one and each move renumbers lessons that were placed before.  A lesson
\* the course still had keeps its row, and with it the learners' progress.
SaveKeepsOrder ==
    [][\A e \in Editor : Handled(e) /\ Ascending(editor[e].saving.payload) =>
          LET payload == editor[e].saving.payload
              after == Listing(row')
          IN /\ Len(after) = Len(payload)
             /\ \A k \in DOMAIN payload :
                   IF payload[k].id \in Live(row) THEN after[k] = payload[k].id
                   ELSE after[k] \notin Rows(row)]_vars

\* The autosave never gives up: as long as the copy has changes that the server
\* did not take, another request goes out, after a refusal, after a lost
\* connection and after edits made while a save was under way (the effect of
\* useAutosave depends on isDirty and isSaving; save clears isSaving in its catch).
AutosaveRetries ==
    \A e \in Editor : editor[e].dirty ~> (~editor[e].dirty \/ Awaits(e, "sent"))

-----------------------------------------------------------------------------
\* update_course_structure_bulk: "archived lessons ... must move out of the
\* active range".  Once the slots are freed, no lesson of the payload asks for
\* the order_index of an archived lesson.
SlotsAreFree ==
    \A e \in Editor : Awaits(e, "sent") =>
        LET payload == editor[e].saving.payload
            freed == FreeSlots(row, payload)
        IN \A i \in Rows(freed) \ Live(freed), k \in DOMAIN payload :
              payload[k].order # freed[i].order

\* "Course builder save must preserve selection by lesson/task position when
\* local ids are replaced by server ids": the store looks for the selected lesson
\* at its old position in the answer (selectedLessonIndex), so the answer must have
\* every lesson at the position it has in the copy that was sent.
SaveKeepsPositions ==
    [][\A e \in Editor : Handled(e) =>
          LET sent == editor[e].saving.payload
              reply == editor'[e].saving.reply
          IN \A k \in DOMAIN sent :
                sent[k].id \in Live(row) => reply[k].id = sent[k].id]_vars

\* The header shows "saved" when lastSavedAt is set and the store is not dirty.
\* What the builder calls saved is what the user has on the screen: the answer
\* of a save never discards edits made while it was under way.
SaveLosesNoEdit ==
    [][\A e \in Editor : Awaits(e, "done") /\ editor'[e].saving = None
                          /\ editor[e].dirty /\ ~editor'[e].dirty
          => editor[e].course = editor[e].saving.payload]_vars
=============================================================================

-------------------------- MODULE CourseStructure ---------------------------
(***************************************************************************)
(* The draft structure of one course: its lessons and their order_index    *)
(* (backend catalog).  Two facts of the database decide what an edit can   *)
(* do: UNIQUE (course_id, order_index) is not deferrable, so every UPDATE  *)
(* statement is checked when it runs; and a flush issues one UPDATE per    *)
(* changed row, in the order of the primary keys, which are random.        *)
(* An archived lesson keeps an order_index, so it takes part in both.      *)
(*                                                                         *)
(* A row set is a function r on LessonId; an operation maps it to a result *)
(* [ok, row], where ok = FALSE is an IntegrityError: the request is rolled *)
(* back and answered with an error.  draft and active lessons are not told *)
(* apart by any operation here, so only archived is kept of a status.      *)
(* The tasks of a lesson follow the same rules (LessonTasks).              *)
(***************************************************************************)
EXTENDS Integers, Sequences, SequencesExt, FiniteSetsExt

CONSTANTS
    LessonId,  \* primary keys, comparable: a flush goes through them in order
    NoRow

ASSUME StructureConstants ==
    /\ LessonId \subseteq Nat
    /\ NoRow \notin [order : Nat, archived : BOOLEAN]

LessonRow == [order : Nat, archived : BOOLEAN]

Rows(r) == {i \in LessonId : r[i] # NoRow}
Live(r) == {i \in Rows(r) : ~r[i].archived}

\* list_lessons_by_course
Listing(r) == SetToSortSeq(Live(r), LAMBDA i, j : r[i].order < r[j].order)

\* get_course_structure, as the builder takes it
Copy(r) == [k \in DOMAIN Listing(r) |-> [id |-> Listing(r)[k], order |-> r[Listing(r)[k]].order]]

\* get_next_lesson_order_index: archived lessons count.
NextOrder(r) ==
    IF Rows(r) = {} THEN 1 ELSE Max({r[i].order : i \in Rows(r)}) + 1

-----------------------------------------------------------------------------
(* One flush *)

\* When row i is written, the rows before it have their new order_index
\* already and the rows after it still have the old one.
OrderSeenBy(i, j, old, new) == IF j < i THEN new[j].order ELSE old[j].order

Flush(old, new) ==
    [ok |-> \A i \in Rows(old) : new[i].order # old[i].order =>
               \A j \in Rows(old) \ {i} : new[i].order # OrderSeenBy(i, j, old, new),
     row |-> new]

Insert(r, i, order) ==
    [ok |-> \A j \in Rows(r) : r[j].order # order,
     row |-> [r EXCEPT ![i] = [order |-> order, archived |-> FALSE]]]

-----------------------------------------------------------------------------
(* The operations of the repository *)

ArchiveLesson(r, i) ==
    Flush(r, [r EXCEPT ![i] = [order |-> NextOrder(r), archived |-> TRUE]])

SetArchived(r, i, archived) ==
    Flush(r, [r EXCEPT ![i].archived = archived])

\* Where the other live lessons go when one leaves order "from" for "to".
Shifted(order, from, to) ==
    IF from < order /\ order <= to THEN order - 1
    ELSE IF to <= order /\ order < from THEN order + 1
    ELSE order

\* reorder_lesson: nothing happens to a lesson that is archived or gone.
ReorderLesson(r, i, to) ==
    IF i \notin Live(r) THEN [ok |-> TRUE, row |-> r]
    ELSE Flush(r, [j \in LessonId |->
             IF j = i THEN [r[i] EXCEPT !.order = to]
             ELSE IF j \in Live(r) THEN [r[j] EXCEPT !.order = Shifted(@, r[i].order, to)]
             ELSE r[j]])

\* rollback_course: every lesson goes, and as many as the release has come
\* back as new rows, numbered from 0.
Rebuilt(ids) ==
    [i \in LessonId |->
        IF Contains(ids, i)
        THEN [order |-> (CHOOSE k \in DOMAIN ids : ids[k] = i) - 1, archived |-> FALSE]
        ELSE NoRow]

-----------------------------------------------------------------------------
(* update_course_structure_bulk, with a payload of [id, order] in the order *)
(* of the request; an id that is not a live lesson's is a new lesson.       *)

\* The archiving of the live lessons that the payload leaves out; it comes
\* first, "to free order_index slots".
FreeSlots(r, payload) ==
    FoldLeft(LAMBDA t, i : ArchiveLesson(t, i).row, r,
             SelectSeq(Listing(r), LAMBDA i : \A k \in DOMAIN payload : payload[k].id # i))

\* Slip: an archived lesson is taken for an existing one.
KnownWithArchived(r) == Rows(r)
Known(r) == Live(r)

\* One lesson of the payload; t is the transaction so far, with the keys that
\* the new rows will get.
BulkLesson(known, t, p) ==
    LET write == IF p.id \in known
                 THEN ReorderLesson(t.row, p.id, p.order)
                 ELSE Insert(t.row, Head(t.keys), p.order)
    IN IF ~t.ok THEN t
       ELSE [ok |-> write.ok, row |-> write.row,
             keys |-> IF p.id \in known THEN t.keys ELSE Tail(t.keys)]

Bulk(r, payload, keys) ==
    FoldLeft(LAMBDA t, p : BulkLesson(Known(r), t, p),
             [ok |-> TRUE, row |-> FreeSlots(r, payload), keys |-> keys],
             payload)

Created(r, payload) == {k \in DOMAIN payload : payload[k].id \notin Known(r)}
=============================================================================

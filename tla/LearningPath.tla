---------------------------- MODULE LearningPath ----------------------------
(***************************************************************************)
(* The learning path of one learner: the lessons done (backend progress),  *)
(* the results of the diagnostics and the trajectory of recommended        *)
(* courses (backend diagnostics), while an author archives and restores    *)
(* lessons.                                                                *)
(*                                                                         *)
(* As in ReleaseLifecycle a request is a transaction of its own: a check   *)
(* on a snapshot, then the flush that takes its row locks, then the        *)
(* commit.  A learner has several requests in flight when the player saves *)
(* one lesson while another is being saved, or on two devices.             *)
(***************************************************************************)
EXTENDS Naturals, FiniteSets, Functions

CONSTANTS
    Lesson, Course, CourseOf,   \* the lessons of each course
    Question, CompetencyOf,     \* the active question bank, all weights 1
    Link,         \* course_competencies: a course teaches a competency
    Attempt,      \* diagnostic attempts of the learner
    Client,       \* request handlers that may be in flight together
    MaxRequests,  \* bound: requests accepted in a behaviour
    None

Competency == Range(CompetencyOf)
CourseType == {"foundation", "practice", "additional"}

\* Courses and competencies are numbered in the order of titles and questions.
ASSUME LearningConstants ==
    /\ Course \subseteq Nat
    /\ IsFiniteSet(Lesson) /\ IsFiniteSet(Link)
    /\ CourseOf \in [Lesson -> Course]
    /\ CompetencyOf \in [Question -> Nat]
    /\ Link \subseteq [course : Course, competency : Competency, type : CourseType]
    /\ MaxRequests \in Nat

VARIABLES
    archived,   \* the archived lessons
    progress,   \* lesson_progress.status of each lesson
    glossary,   \* the lessons whose terms the learner has unlocked
    attempt,    \* diagnostic_attempts with their answers
    score,      \* diagnostic_competency_scores.status of each attempt
    item,       \* learning_trajectory_items
    request,    \* what each handler has read and is about to write
    clock,      \* wall clock: one tick per accepted request
    overlapped  \* whether two requests have ever overlapped

vars == <<archived, progress, glossary, attempt, score, item, request, clock, overlapped>>
rows == <<archived, progress, glossary, attempt, score, item>>

Grade == {"deficit", "needs_practice", "strong"}
Done == {"in_progress", "completed"}

AttemptRow ==
    [status : Done, completedAt : 0..MaxRequests, answers : [Question -> {None} \cup BOOLEAN]]
Item ==
    [batch : 1..MaxRequests, attempt : Attempt, course : Course, competency : Competency,
     priority : Nat \ {0}, status : {"recommended", "completed"}]

Idle == [op |-> "idle"]
ProgressRequest ==
    [op : {"progress"}, lesson : Lesson, status : Done, loaded : {None} \cup Done,
     flushed : BOOLEAN, item : {None} \cup Item]
AnswerRequest ==
    [op : {"answer"}, attempt : Attempt, question : Question, correct : BOOLEAN,
     loaded : {None} \cup BOOLEAN]
CompleteRequest ==
    [op : {"complete"}, attempt : Attempt, grades : [Competency -> Grade],
     at : 1..MaxRequests, flushed : BOOLEAN, deleted : SUBSET Item]

\* NULL is no value of any column.
ASSUME NoneIsNoValue ==
    /\ None \notin Done
    /\ None \notin Grade
    /\ None \notin AttemptRow
    /\ None \notin Item

TypeOK ==
    /\ archived \subseteq Lesson
    /\ progress \in [Lesson -> {None} \cup Done]
    /\ glossary \subseteq Lesson
    /\ attempt \in [Attempt -> {None} \cup AttemptRow]
    /\ score \in [Attempt -> [Competency -> {None} \cup Grade]]
    /\ item \subseteq Item
    /\ request \in [Client -> {Idle} \cup ProgressRequest \cup AnswerRequest \cup CompleteRequest]
    /\ clock \in 0..MaxRequests
    /\ overlapped \in BOOLEAN

NewAttempt == [status |-> "in_progress", completedAt |-> 0, answers |-> [q \in Question |-> None]]

\* Attempts not started, or answered and waiting to be completed.
Init ==
    /\ archived = {}
    /\ progress = [l \in Lesson |-> None]
    /\ glossary = {}
    /\ attempt \in [Attempt -> {None} \cup
           {[NewAttempt EXCEPT !.answers = ans] : ans \in [Question -> BOOLEAN]}]
    /\ score = [a \in Attempt |-> [k \in Competency |-> None]]
    /\ item = {}
    /\ request = [c \in Client |-> Idle]
    /\ clock = 0
    /\ overlapped = FALSE

-----------------------------------------------------------------------------
(* The session *)

Tick ==
    /\ clock < MaxRequests
    /\ clock' = clock + 1
    /\ overlapped' = (overlapped \/ \E c \in Client : request[c] # Idle)

Accept(c, r) ==
    /\ request[c] = Idle
    /\ Tick
    /\ request' = [request EXCEPT ![c] = r]
    /\ UNCHANGED rows

Finish(c) ==
    /\ request' = [request EXCEPT ![c] = Idle]
    /\ UNCHANGED <<clock, overlapped>>

Abort(c) ==
    /\ request[c] # Idle
    /\ Finish(c)
    /\ UNCHANGED rows

\* The value of a column after an INSERT (nothing was loaded) or an UPDATE,
\* which leaves the column out when the transaction did not change it.
Flush(loaded, assigned, current) == IF assigned = loaded THEN current ELSE assigned

-----------------------------------------------------------------------------
(* The rules of the diagnostics *)

Graded(answers, k) ==
    LET asked == {q \in Question : CompetencyOf[q] = k}
        right == {q \in asked : answers[q] = TRUE}
    IN IF 10 * Cardinality(right) >= 8 * Cardinality(asked) THEN "strong"
       ELSE IF 10 * Cardinality(right) >= 5 * Cardinality(asked) THEN "needs_practice"
       ELSE "deficit"

\* Slip: sorted from strong to weak.
SeverityAscending(grade) ==
    CASE grade = "strong" -> 0 [] grade = "needs_practice" -> 1 [] grade = "deficit" -> 2
Severity(grade) ==
    CASE grade = "deficit" -> 0 [] grade = "needs_practice" -> 1 [] grade = "strong" -> 2
TypeRank(grade, type) ==
    CASE type = "additional" -> 2
      [] type = "foundation" -> IF grade = "deficit" THEN 0 ELSE 1
      [] type = "practice" -> IF grade = "deficit" THEN 1 ELSE 0

Rank(grade, l) == <<Severity(grade), TypeRank(grade, l.type), l.course, l.competency>>
Before(r, s) == \E k \in DOMAIN r : r[k] < s[k] /\ \A j \in 1..(k - 1) : r[j] = s[j]

\* A course for every competency that is not strong, by severity, by what suits
\* the severity, by title.
Candidates(grades) == {l \in Link : grades[l.competency] # "strong"}
Precedes(grades, l, m) ==
    Before(Rank(grades[l.competency], l), Rank(grades[m.competency], m))

\* The trajectory for these grades: the candidates, numbered in that order.
Trajectory(a, grades, batch) ==
    {[batch |-> batch, attempt |-> a, course |-> l.course, competency |-> l.competency,
      priority |-> 1 + Cardinality({m \in Candidates(grades) : Precedes(grades, m, l)}),
      status |-> "recommended"] : l \in Candidates(grades)}

-----------------------------------------------------------------------------
(* Diagnostics *)

StartAttempt(a) ==
    /\ attempt[a] = None
    /\ Tick
    /\ attempt' = [attempt EXCEPT ![a] = NewAttempt]
    /\ UNCHANGED <<archived, progress, glossary, score, item, request>>

CheckAnswer(c, a, q, correct) ==
    /\ attempt[a] # None
    /\ attempt[a].status = "in_progress"
    /\ Accept(c, [op |-> "answer", attempt |-> a, question |-> q, correct |-> correct,
                  loaded |-> attempt[a].answers[q]])

\* A second INSERT of the same answer fails (uq_diagnostic_answer_...).
CommitAnswer(c) ==
    LET r == request[c] IN
    /\ r.op = "answer"
    /\ r.loaded = None => attempt[r.attempt].answers[r.question] = None
    /\ attempt' = [attempt EXCEPT ![r.attempt].answers[r.question] = Flush(r.loaded, r.correct, @)]
    /\ UNCHANGED <<archived, progress, glossary, score, item>>
    /\ Finish(c)

CheckComplete(c, a) ==
    /\ attempt[a] # None
    /\ attempt[a].status = "in_progress"
    /\ \A q \in Question : attempt[a].answers[q] # None
    /\ Accept(c, [op |-> "complete", attempt |-> a,
                  grades |-> [k \in Competency |-> Graded(attempt[a].answers, k)],
                  at |-> clock + 1, flushed |-> FALSE, deleted |-> {}])

\* Rows that a transaction has written and not committed.
Completing(a) ==
    \E c \in Client : request[c].op = "complete" /\ request[c].attempt = a /\ request[c].flushed
Updating(i) == \E c \in Client : request[c].op = "progress" /\ request[c].item = i
Deleting(i) == \E c \in Client : request[c].op = "complete" /\ i \in request[c].deleted
Saving(l) ==
    \E c \in Client : request[c].op = "progress" /\ request[c].lesson = l /\ request[c].flushed

\* The attempt is UPDATEd, its scores are replaced, and every item of the
\* learner that this DELETE can see goes.
ReplaceTrajectory(c) ==
    LET r == request[c] IN
    /\ r.op = "complete"
    /\ ~r.flushed
    /\ ~Completing(r.attempt)
    /\ \A i \in item : ~Updating(i)
    /\ request' = [request EXCEPT ![c].flushed = TRUE, ![c].deleted = item]
    /\ UNCHANGED <<rows, clock, overlapped>>

\* Slip: the old items stay.
CommitCompleteAdds(c) ==
    LET r == request[c] IN
    /\ r.op = "complete"
    /\ r.flushed
    /\ attempt' = [attempt EXCEPT ![r.attempt].status = "completed",
                                  ![r.attempt].completedAt = r.at]
    /\ score' = [score EXCEPT ![r.attempt] = r.grades]
    /\ item' = item \cup Trajectory(r.attempt, r.grades, r.at)
    /\ UNCHANGED <<archived, progress, glossary>>
    /\ Finish(c)
CommitComplete(c) ==
    LET r == request[c] IN
    /\ r.op = "complete"
    /\ r.flushed
    /\ attempt' = [attempt EXCEPT ![r.attempt].status = "completed",
                                  ![r.attempt].completedAt = r.at]
    /\ score' = [score EXCEPT ![r.attempt] = r.grades]
    /\ item' = (item \ r.deleted) \cup Trajectory(r.attempt, r.grades, r.at)
    /\ UNCHANGED <<archived, progress, glossary>>
    /\ Finish(c)

-----------------------------------------------------------------------------
(* Progress *)

Active(x) == {l \in Lesson : CourseOf[l] = x /\ l \notin archived}
\* The completed lessons are counted whether archived or not.
Completed(p, x) == {l \in Lesson : CourseOf[l] = x /\ p[l] = "completed"}

CourseCompleted(p, x) ==
    /\ Active(x) # {}
    /\ Cardinality(Completed(p, x)) >= Cardinality(Active(x))

\* Slip: the lessons are counted before the row is flushed (no autoflush).
WrittenLate(r) == progress
Written(r) == [progress EXCEPT ![r.lesson] = Flush(r.loaded, r.status, @)]

FirstItems(x) ==
    {i \in item : i.course = x /\ \A j \in item : j.course = x => i.priority <= j.priority}

\* The trajectory item that this request completes, if any.
Reached(r) ==
    IF r.status = "completed" /\ CourseCompleted(Written(r), CourseOf[r.lesson])
       /\ FirstItems(CourseOf[r.lesson]) # {}
    THEN FirstItems(CourseOf[r.lesson])
    ELSE {None}

CheckProgress(c, l, s) ==
    Accept(c, [op |-> "progress", lesson |-> l, status |-> s, loaded |-> progress[l],
               flushed |-> FALSE, item |-> None])

\* The row is written, then the lessons are counted, among what is committed
\* and the request's own row; then score and item are written.  A second INSERT
\* fails; an UPDATE waits for the transaction that holds the row.
FlushProgress(c) ==
    LET r == request[c] IN
    /\ r.op = "progress"
    /\ ~r.flushed
    /\ ~Saving(r.lesson)
    /\ r.loaded = None => progress[r.lesson] = None
    /\ \E i \in Reached(r) :
          /\ ~(i # None /\ (Updating(i) \/ Deleting(i)))
          /\ request' = [request EXCEPT ![c].flushed = TRUE, ![c].item = i]
    /\ UNCHANGED <<rows, clock, overlapped>>

\* Slip: the score stays as it was.
ApplyCourseCompletionUnscored(i) ==
    /\ item' = (item \ {i}) \cup {[i EXCEPT !.status = "completed"]}
    /\ UNCHANGED score
ApplyCourseCompletion(i) ==
    /\ item' = (item \ {i}) \cup {[i EXCEPT !.status = "completed"]}
    /\ score' = [score EXCEPT ![i.attempt][i.competency] =
                    IF @ = "deficit" THEN "needs_practice" ELSE @]

\* Slip: terms are unlocked with the course, not with the lesson.
UnlockGlossaryWithCourse(r) ==
    glossary' = IF r.item # None THEN glossary \cup {r.lesson} ELSE glossary
UnlockGlossary(r) ==
    glossary' = IF r.status = "completed" THEN glossary \cup {r.lesson} ELSE glossary

CommitProgress(c) ==
    LET r == request[c] IN
    /\ r.op = "progress"
    /\ r.flushed
    /\ progress' = [progress EXCEPT ![r.lesson] = Flush(r.loaded, r.status, @)]
    /\ UnlockGlossary(r)
    /\ IF r.item = None THEN UNCHANGED <<score, item>> ELSE ApplyCourseCompletion(r.item)
    /\ UNCHANGED <<archived, attempt>>
    /\ Finish(c)

\* The author archives a lesson, or restores it.
SetArchived(l) ==
    /\ Tick
    /\ archived' = IF l \in archived THEN archived \ {l} ELSE archived \cup {l}
    /\ UNCHANGED <<progress, glossary, attempt, score, item, request>>

-----------------------------------------------------------------------------
Check(c) ==
    \/ \E l \in Lesson, s \in Done : CheckProgress(c, l, s)
    \/ \E a \in Attempt, q \in Question, correct \in BOOLEAN : CheckAnswer(c, a, q, correct)
    \/ \E a \in Attempt : CheckComplete(c, a)

Next ==
    \/ \E c \in Client :
          \/ Check(c)
          \/ CommitAnswer(c)
          \/ ReplaceTrajectory(c) \/ CommitComplete(c)
          \/ FlushProgress(c) \/ CommitProgress(c)
          \/ Abort(c)
    \/ \E a \in Attempt : StartAttempt(a)
    \/ \E l \in Lesson : SetArchived(l)

Spec == Init /\ [][Next]_vars

-----------------------------------------------------------------------------
(* What holds however requests interleave *)

\* The trajectory and the scores behind it are written by different services
\* (complete_attempt, apply_course_completion), in transactions that overlap.
\* Still, every item belongs to a result that found its competency weak, and the
\* competency of a completed item is no longer in deficit.
TrajectoryMatchesScores ==
    \A i \in item :
        /\ attempt[i.attempt].status = "completed"
        /\ score[i.attempt][i.competency] \in {"deficit", "needs_practice"}
        /\ i.status = "completed" => score[i.attempt][i.competency] = "needs_practice"

\* A lesson counts as completed only together with its glossary: the terms that
\* unlock_glossary_terms gives are there for every completed lesson, and
\* stay when the lesson is taken up again.
GlossaryUnlocked == \A l \in Lesson : progress[l] = "completed" => l \in glossary

\* A new trajectory is complete and ordered: each course that teaches a weak
\* competency is in it, and a deficit comes before what only needs practice.
RecommendsWhatIsWeak ==
    [][LET new == {i \in item' : \A j \in item : j.batch # i.batch} IN
       /\ \A i, j \in new : i.priority < j.priority =>
             ~ (score'[i.attempt][i.competency] = "needs_practice"
                /\ score'[j.attempt][j.competency] = "deficit")
       /\ \A a \in Attempt : score[a] # score'[a] /\ attempt'[a] # attempt[a] =>
             \A l \in Link : score'[a][l.competency] # "strong" =>
                 \E i \in new : i.attempt = a /\ i.course = l.course
                                /\ i.competency = l.competency]_vars

-----------------------------------------------------------------------------
(* What holds as long as requests have not overlapped *)

\* The learner is shown the latest completed attempt and the trajectory, by two
\* queries that know nothing of each other: the trajectory is that attempt's.
TrajectoryOfLatestResult ==
    ~overlapped =>
        \A i \in item, a \in Attempt :
            attempt[a] # None => attempt[a].completedAt <= attempt[i.attempt].completedAt

\* The request that leaves no active lesson of a course undone completes the
\* first item of that course in the trajectory (upsert_lesson_progress counts
\* the row it has just written, in a session that does not flush by itself).
CompletionReachesTrajectory ==
    [][~overlapped' =>
        \A l \in Lesson :
            LET x == CourseOf[l] IN
            progress[l] # "completed" /\ progress'[l] = "completed"
            /\ Active(x) # {} /\ Active(x) \subseteq Completed(progress', x)
            => \A i \in FirstItems(x)' : i.status = "completed"]_vars

\* "Diagnostic attempt is already completed": answers and grades of a completed
\* attempt are final, but for the deficits that completed courses lift.
ResultIsFinal ==
    [][~overlapped' =>
        \A a \in Attempt : attempt[a] # None /\ attempt[a].status = "completed" =>
            /\ attempt'[a] = attempt[a]
            /\ \A k \in Competency : score'[a][k] # score[a][k] =>
                  score[a][k] = "deficit" /\ score'[a][k] = "needs_practice"]_vars

-----------------------------------------------------------------------------
(* What the code says of itself, and does not keep *)

\* MyCourseProgressOut.completion_rate: Field(ge=0.0, le=1.0).  The share of
\* completed lessons that get_my_progress computes is a share.
RateWithinBounds ==
    \A x \in Course :
        Active(x) # {} => Cardinality(Completed(progress, x)) <= Cardinality(Active(x))
=============================================================================

------------------------- MODULE LearningPathProofs -------------------------
(***************************************************************************)
(* Safety of LearningPath for any number of requests in flight.            *)
(*                                                                         *)
(* However requests interleave, the rows one of them has written and not   *)
(* committed are its own (RowsAreLocked): that is what keeps the           *)
(* trajectory and the scores together, although two services write them.   *)
(* While requests have not overlapped (Serial), what a request read is     *)
(* still there when it commits.                                            *)
(***************************************************************************)
EXTENDS LearningPath, FiniteSetTheorems, TLAPS

Completes(c) == request[c].op = "complete"
Saves(c) == request[c].op = "progress"

\* No request is about an attempt that is not there.
AttemptsExist ==
    /\ \A c \in Client : request[c].op \in {"answer", "complete"} =>
          attempt[request[c].attempt] # None
    /\ \A i \in item : attempt[i.attempt] # None

\* One transaction at a time rewrites the results of an attempt, and it has
\* deleted every item they had; the item that a lesson completes is there, and
\* nobody else has completed or deleted it.
OneRewrites ==
    \A c, d \in Client :
        /\ Completes(c) /\ request[c].flushed /\ Completes(d) /\ request[d].flushed
        /\ request[c].attempt = request[d].attempt
        => c = d
RewrittenIsDeleted ==
    \A c \in Client : Completes(c) /\ request[c].flushed =>
        \A i \in item : i.attempt = request[c].attempt => i \in request[c].deleted
UpdatedIsOwned ==
    \A c \in Client : Saves(c) /\ request[c].item # None =>
        /\ request[c].flushed
        /\ request[c].item \in item
        /\ \A d \in Client :
              /\ Saves(d) /\ request[d].item = request[c].item => d = c
              /\ Completes(d) => request[c].item \notin request[d].deleted
RowsAreLocked == OneRewrites /\ RewrittenIsDeleted /\ UpdatedIsOwned

\* Each request that completes an attempt numbers its batch by its own moment.
BatchesDiffer ==
    /\ \A i \in item : i.batch <= clock
    /\ \A a \in Attempt : attempt[a] # None => attempt[a].completedAt <= clock
    /\ \A c \in Client : Completes(c) =>
          /\ request[c].at <= clock
          /\ \A i \in item : i.batch # request[c].at
          /\ \A d \in Client : Completes(d) /\ request[d].at = request[c].at => d = c

Alone ==
    \A c, d \in Client : request[c] # Idle /\ request[d] # Idle => c = d
AnswerStillTrue ==
    \A c \in Client : request[c].op \in {"answer", "complete"} =>
        attempt[request[c].attempt].status = "in_progress"
CompleteStillTrue ==
    \A c \in Client : Completes(c) =>
        /\ request[c].flushed => request[c].deleted = item
        /\ \A a \in Attempt : attempt[a] # None => attempt[a].completedAt < request[c].at
ProgressStillTrue ==
    \A c \in Client : Saves(c) =>
        /\ request[c].loaded = progress[request[c].lesson]
        /\ request[c].flushed => request[c].item \in Reached(request[c])
OneTrajectory ==
    /\ \A i, j \in item : i.priority = j.priority => i = j
    /\ TrajectoryOfLatestResult
Serial ==
    ~overlapped => /\ Alone
                   /\ AnswerStillTrue
                   /\ CompleteStillTrue
                   /\ ProgressStillTrue
                   /\ OneTrajectory

LearningInv ==
    /\ TypeOK
    /\ AttemptsExist
    /\ RowsAreLocked
    /\ BatchesDiffer
    /\ TrajectoryMatchesScores
    /\ GlossaryUnlocked
    /\ Serial

-----------------------------------------------------------------------------
(* The order of the recommendations *)

RankType == Nat \X Nat \X Nat \X Nat

LEMMA BeforeIsLexicographic ==
    ASSUME NEW r \in RankType, NEW s \in RankType
    PROVE  Before(r, s) <=>
               \/ r[1] < s[1]
               \/ r[1] = s[1] /\ r[2] < s[2]
               \/ r[1] = s[1] /\ r[2] = s[2] /\ r[3] < s[3]
               \/ r[1] = s[1] /\ r[2] = s[2] /\ r[3] = s[3] /\ r[4] < s[4]
<1>1. DOMAIN r = 1..4 /\ 1..4 = {1, 2, 3, 4}
  BY DEF RankType
<1>2. /\ 1..(1 - 1) = {} /\ 1..(2 - 1) = {1} /\ 1..(3 - 1) = {1, 2} /\ 1..(4 - 1) = {1, 2, 3}
  OBVIOUS
<1>3. Before(r, s) <=> \E k \in {1, 2, 3, 4} : r[k] < s[k] /\ \A j \in 1..(k - 1) : r[j] = s[j]
  BY <1>1 DEF Before
<1> QED  BY <1>2, <1>3

Grades == [Competency -> Grade]

LEMMA LinkType ==
    ASSUME NEW l \in Link
    PROVE  /\ l.course \in Course /\ l.competency \in Competency /\ l.type \in CourseType
           /\ l.course \in Nat /\ l.competency \in Nat
           /\ l = [course |-> l.course, competency |-> l.competency, type |-> l.type]
BY LearningConstants DEF Competency, Range

LEMMA PrecedesIsOrder ==
    ASSUME NEW grades \in Grades
    PROVE  /\ \A l, m \in Candidates(grades) :
                  l # m => Precedes(grades, l, m) \/ Precedes(grades, m, l)
           /\ \A l \in Candidates(grades) : ~Precedes(grades, l, l)
           /\ \A l, m, n \in Candidates(grades) :
                  Precedes(grades, l, m) /\ Precedes(grades, m, n) => Precedes(grades, l, n)
           /\ \A l, m \in Candidates(grades) :
                  Severity(grades[l.competency]) < Severity(grades[m.competency])
                  => Precedes(grades, l, m)
<1> DEFINE sev(l) == Severity(grades[l.competency])
           typ(l) == TypeRank(grades[l.competency], l.type)
<1>1. \A l \in Candidates(grades) :
          /\ l \in Link /\ grades[l.competency] \in {"deficit", "needs_practice"}
          /\ sev(l) \in Nat /\ typ(l) \in Nat
          /\ l.course \in Nat /\ l.competency \in Nat
  BY LinkType DEF Candidates, Grades, Grade, Severity, TypeRank, CourseType
<1>2. \A l, m \in Candidates(grades) :
          sev(l) = sev(m) /\ typ(l) = typ(m) => l.type = m.type
  BY <1>1, LinkType DEF Severity, TypeRank, CourseType
<1>3. \A l, m \in Candidates(grades) :
          l.course = m.course /\ l.competency = m.competency /\ l.type = m.type => l = m
  BY <1>1, LinkType
<1> HIDE DEF sev, typ
<1>4. \A l, m \in Candidates(grades) :
          Precedes(grades, l, m) <=>
              \/ sev(l) < sev(m)
              \/ sev(l) = sev(m) /\ typ(l) < typ(m)
              \/ sev(l) = sev(m) /\ typ(l) = typ(m) /\ l.course < m.course
              \/ sev(l) = sev(m) /\ typ(l) = typ(m) /\ l.course = m.course
                 /\ l.competency < m.competency
  <2> SUFFICES ASSUME NEW l \in Candidates(grades), NEW m \in Candidates(grades)
               PROVE  Precedes(grades, l, m) <=>
                          \/ sev(l) < sev(m)
                          \/ sev(l) = sev(m) /\ typ(l) < typ(m)
                          \/ sev(l) = sev(m) /\ typ(l) = typ(m) /\ l.course < m.course
                          \/ sev(l) = sev(m) /\ typ(l) = typ(m) /\ l.course = m.course
                             /\ l.competency < m.competency
    OBVIOUS
  <2>1. Precedes(grades, l, m) <=> Before(<<sev(l), typ(l), l.course, l.competency>>,
                                          <<sev(m), typ(m), m.course, m.competency>>)
    BY DEF Precedes, Rank, sev, typ
  <2> DEFINE r == <<sev(l), typ(l), l.course, l.competency>>
             s == <<sev(m), typ(m), m.course, m.competency>>
  <2>2. r \in RankType /\ s \in RankType
    BY <1>1 DEF RankType
  <2>3. /\ r[1] = sev(l) /\ r[2] = typ(l) /\ r[3] = l.course /\ r[4] = l.competency
        /\ s[1] = sev(m) /\ s[2] = typ(m) /\ s[3] = m.course /\ s[4] = m.competency
    OBVIOUS
  <2> HIDE DEF r, s
  <2>4. Before(r, s) <=> 
            \/ r[1] < s[1]
            \/ r[1] = s[1] /\ r[2] < s[2]
            \/ r[1] = s[1] /\ r[2] = s[2] /\ r[3] < s[3]
            \/ r[1] = s[1] /\ r[2] = s[2] /\ r[3] = s[3] /\ r[4] < s[4]
    BY <2>2, BeforeIsLexicographic
  <2>5. Precedes(grades, l, m) <=> Before(r, s)
    BY <2>1 DEF r, s
  <2> QED  BY <2>3, <2>4, <2>5
<1>5. \A l, m \in Candidates(grades) : l # m => Precedes(grades, l, m) \/ Precedes(grades, m, l)
  BY <1>1, <1>2, <1>3, <1>4
<1>6. \A l, m, n \in Candidates(grades) :
          Precedes(grades, l, m) /\ Precedes(grades, m, n) => Precedes(grades, l, n)
  BY <1>1, <1>4
<1>7. \A l \in Candidates(grades) : ~Precedes(grades, l, l)
  BY <1>1, <1>4
<1>8. \A l, m \in Candidates(grades) :
          Severity(grades[l.competency]) < Severity(grades[m.competency])
          => Precedes(grades, l, m)
  BY <1>4 DEF sev
<1> QED  BY <1>5, <1>6, <1>7, <1>8

\* The place of a candidate counts those before it.
Place(grades, l) == 1 + Cardinality({m \in Candidates(grades) : Precedes(grades, m, l)})

LEMMA PlacesFollowOrder ==
    ASSUME NEW grades \in Grades, NEW l \in Candidates(grades), NEW m \in Candidates(grades)
    PROVE  /\ Place(grades, l) \in Nat \ {0}
           /\ Precedes(grades, l, m) => Place(grades, l) < Place(grades, m)
           /\ Place(grades, l) = Place(grades, m) => l = m
<1> DEFINE before(n) == {k \in Candidates(grades) : Precedes(grades, k, n)}
<1>1. IsFiniteSet(Candidates(grades))
  BY LearningConstants, FS_Subset DEF Candidates
<1>2. \A n \in Candidates(grades) : IsFiniteSet(before(n)) /\ Cardinality(before(n)) \in Nat
  BY <1>1, FS_Subset, FS_CardinalityType
<1>3. \A j, k \in Candidates(grades) :
          Precedes(grades, j, k) => before(j) \subseteq before(k) /\ before(j) # before(k)
  BY PrecedesIsOrder
<1>4. \A j, k \in Candidates(grades) :
          Precedes(grades, j, k) => Cardinality(before(j)) < Cardinality(before(k))
  <2> SUFFICES ASSUME NEW j \in Candidates(grades), NEW k \in Candidates(grades),
                      Precedes(grades, j, k)
               PROVE  Cardinality(before(j)) < Cardinality(before(k))
    OBVIOUS
  <2>1. j \in before(k) /\ j \notin before(j)
    BY PrecedesIsOrder
  <2>2. before(j) \subseteq before(k) \ {j}
    BY <1>3, <2>1
  <2>3. /\ IsFiniteSet(before(k) \ {j})
        /\ Cardinality(before(k) \ {j}) = Cardinality(before(k)) - 1
    BY <1>2, <2>1, FS_RemoveElement
  <2>4. Cardinality(before(j)) <= Cardinality(before(k)) - 1
    BY <2>2, <2>3, FS_Subset
  <2>5. Cardinality(before(j)) \in Nat /\ Cardinality(before(k)) \in Nat
    BY <1>2
  <2> HIDE DEF before
  <2> QED  BY <2>4, <2>5
<1>5. \A n \in Candidates(grades) : Place(grades, n) = 1 + Cardinality(before(n))
  BY DEF Place
<1> HIDE DEF before
<1> QED  BY <1>2, <1>4, <1>5, PrecedesIsOrder

\* What a trajectory contains.
LEMMA TrajectoryItems ==
    ASSUME NEW a, NEW grades \in Grades, NEW batch
    PROVE  /\ \A i \in Trajectory(a, grades, batch) : \E l \in Candidates(grades) :
                  i = [batch |-> batch, attempt |-> a, course |-> l.course,
                       competency |-> l.competency, priority |-> Place(grades, l),
                       status |-> "recommended"]
           /\ \A l \in Candidates(grades) :
                  [batch |-> batch, attempt |-> a, course |-> l.course,
                   competency |-> l.competency, priority |-> Place(grades, l),
                   status |-> "recommended"] \in Trajectory(a, grades, batch)
BY DEF Trajectory, Place

LEMMA TrajectoryType ==
    ASSUME NEW a \in Attempt, NEW grades \in Grades, NEW batch \in 1..MaxRequests
    PROVE  /\ Trajectory(a, grades, batch) \subseteq Item
           /\ \A i \in Trajectory(a, grades, batch) :
                  /\ i.batch = batch /\ i.attempt = a /\ i.status = "recommended"
                  /\ grades[i.competency] \in {"deficit", "needs_practice"}
           /\ \A i, j \in Trajectory(a, grades, batch) :
                  /\ i.priority = j.priority => i = j
                  /\ Severity(grades[i.competency]) < Severity(grades[j.competency])
                     => i.priority < j.priority
<1> DEFINE row(l) == [batch |-> batch, attempt |-> a, course |-> l.course,
                      competency |-> l.competency, priority |-> Place(grades, l),
                      status |-> "recommended"]
<1>1. \A i \in Trajectory(a, grades, batch) : \E l \in Candidates(grades) : i = row(l)
  BY TrajectoryItems
<1>2. \A l \in Candidates(grades) :
          /\ l \in Link /\ grades[l.competency] \in {"deficit", "needs_practice"}
          /\ Place(grades, l) \in Nat \ {0}
          /\ l.course \in Course /\ l.competency \in Competency
  BY PlacesFollowOrder, LinkType DEF Candidates, Grades, Grade
<1>3. \A l, m \in Candidates(grades) :
          /\ Place(grades, l) = Place(grades, m) => l = m
          /\ Severity(grades[l.competency]) < Severity(grades[m.competency])
             => Place(grades, l) < Place(grades, m)
  BY PlacesFollowOrder, PrecedesIsOrder
<1>4. \A l \in Candidates(grades) : row(l) \in Item
  BY <1>2 DEF Item
<1>5. \A l \in Candidates(grades) :
          /\ row(l).batch = batch /\ row(l).attempt = a /\ row(l).status = "recommended"
          /\ row(l).competency = l.competency /\ row(l).priority = Place(grades, l)
  OBVIOUS
<1> HIDE DEF row
<1> QED  BY <1>1, <1>2, <1>3, <1>4, <1>5

-----------------------------------------------------------------------------
(* Types *)

LEMMA RequestTypes ==
    ASSUME TypeOK, NEW c \in Client
    PROVE  /\ request[c].op \in {"idle", "progress", "answer", "complete"}
           /\ request[c].op = "idle" <=> request[c] = Idle
           /\ request[c].op = "progress" => request[c] \in ProgressRequest
           /\ request[c].op = "answer" => request[c] \in AnswerRequest
           /\ request[c].op = "complete" => request[c] \in CompleteRequest
BY DEF TypeOK, Idle, ProgressRequest, AnswerRequest, CompleteRequest

LEMMA GradesFit ==
    ASSUME NEW answers PROVE [k \in Competency |-> Graded(answers, k)] \in Grades
BY DEF Graded, Grades, Grade

\* The rows a committed completion leaves: the item with another status.
LEMMA CompletedItem ==
    ASSUME NEW i \in Item
    PROVE  /\ [i EXCEPT !.status = "completed"] \in Item
           /\ [i EXCEPT !.status = "completed"].batch = i.batch
           /\ [i EXCEPT !.status = "completed"].attempt = i.attempt
           /\ [i EXCEPT !.status = "completed"].course = i.course
           /\ [i EXCEPT !.status = "completed"].competency = i.competency
           /\ [i EXCEPT !.status = "completed"].priority = i.priority
           /\ [i EXCEPT !.status = "completed"].status = "completed"
BY DEF Item

CompletedAt(row, t) == [row EXCEPT !.status = "completed", !.completedAt = t]

LEMMA CompletedAttempt ==
    ASSUME NEW row \in AttemptRow, NEW t \in 1..MaxRequests
    PROVE  /\ CompletedAt(row, t) \in AttemptRow
           /\ CompletedAt(row, t).status = "completed"
           /\ CompletedAt(row, t).completedAt = t
<1>1. t \in 0..MaxRequests
  BY LearningConstants
<1> QED  BY <1>1 DEF AttemptRow, Done, CompletedAt

LEMMA TypingInitially == Init => TypeOK
<1> SUFFICES ASSUME Init PROVE TypeOK
  OBVIOUS
<1>1. attempt \in [Attempt -> {None} \cup AttemptRow]
  BY LearningConstants DEF Init, NewAttempt, AttemptRow, Done
<1>2. 0 \in 0..MaxRequests
  BY LearningConstants
<1> QED  BY <1>1, <1>2 DEF Init, TypeOK

LEMMA TypingPreserved == TypeOK /\ AttemptsExist /\ [Next]_vars => TypeOK'
<1> SUFFICES ASSUME TypeOK, AttemptsExist, [Next]_vars PROVE TypeOK'
  OBVIOUS
<1> USE LearningConstants DEF TypeOK, rows
<1>1. ASSUME NEW c \in Client, NEW l \in Lesson, NEW s \in Done, CheckProgress(c, l, s)
      PROVE  TypeOK'
  <2>1. [op |-> "progress", lesson |-> l, status |-> s, loaded |-> progress[l],
         flushed |-> FALSE, item |-> None] \in ProgressRequest
    BY DEF ProgressRequest
  <2> QED  BY <1>1, <2>1 DEF CheckProgress, Accept, Tick
<1>2. ASSUME NEW c \in Client, NEW a \in Attempt, NEW q \in Question, NEW correct \in BOOLEAN,
             CheckAnswer(c, a, q, correct)
      PROVE  TypeOK'
  <2>1. attempt[a] \in AttemptRow
    BY <1>2 DEF CheckAnswer
  <2>2. [op |-> "answer", attempt |-> a, question |-> q, correct |-> correct,
         loaded |-> attempt[a].answers[q]] \in AnswerRequest
    BY <2>1 DEF AnswerRequest, AttemptRow
  <2> QED  BY <1>2, <2>2 DEF CheckAnswer, Accept, Tick
<1>3. ASSUME NEW c \in Client, NEW a \in Attempt, CheckComplete(c, a)
      PROVE  TypeOK'
  <2> DEFINE grades == [k \in Competency |-> Graded(attempt[a].answers, k)]
             r == [op |-> "complete", attempt |-> a, grades |-> grades,
                   at |-> clock + 1, flushed |-> FALSE, deleted |-> {}]
  <2>1. grades \in [Competency -> Grade]
    BY GradesFit DEF Grades
  <2>2. clock + 1 \in 1..MaxRequests
    BY <1>3 DEF CheckComplete, Accept, Tick
  <2> HIDE DEF grades
  <2>3. r \in CompleteRequest
    BY <2>1, <2>2 DEF CompleteRequest
  <2>4. Accept(c, r)
    BY <1>3 DEF CheckComplete, grades
  <2> HIDE DEF r
  <2> QED  BY <2>3, <2>4 DEF Accept, Tick
<1>4. ASSUME NEW c \in Client, CommitAnswer(c)
      PROVE  TypeOK'
  <2>1. request[c] \in AnswerRequest /\ attempt[request[c].attempt] \in AttemptRow
    BY <1>4, RequestTypes DEF CommitAnswer, AttemptsExist, AnswerRequest
  <2>2. attempt' \in [Attempt -> {None} \cup AttemptRow]
    BY <1>4, <2>1 DEF CommitAnswer, AnswerRequest, AttemptRow, Flush
  <2> QED  BY <1>4, <2>2 DEF CommitAnswer, Finish
<1>5. ASSUME NEW c \in Client, ReplaceTrajectory(c)
      PROVE  TypeOK'
  <2>1. request[c] \in CompleteRequest
    BY <1>5, RequestTypes DEF ReplaceTrajectory
  <2>2. [request[c] EXCEPT !.flushed = TRUE, !.deleted = item] \in CompleteRequest
    BY <2>1 DEF CompleteRequest
  <2> QED  BY <1>5, <2>2 DEF ReplaceTrajectory
<1>6. ASSUME NEW c \in Client, CommitComplete(c)
      PROVE  TypeOK'
  <2>1. request[c] \in CompleteRequest /\ attempt[request[c].attempt] \in AttemptRow
    BY <1>6, RequestTypes DEF CommitComplete, AttemptsExist, CompleteRequest
  <2>2. /\ request[c].attempt \in Attempt /\ request[c].grades \in Grades
        /\ request[c].at \in 1..MaxRequests
    BY <2>1 DEF CompleteRequest, Grades
  <2>3. attempt' \in [Attempt -> {None} \cup AttemptRow]
    <3>1. CompletedAt(attempt[request[c].attempt], request[c].at) \in AttemptRow
      BY <2>1, <2>2, CompletedAttempt
    <3>2. attempt' = [attempt EXCEPT ![request[c].attempt] =
                          CompletedAt(attempt[request[c].attempt], request[c].at)]
      BY <1>6 DEF CommitComplete, CompletedAt
    <3> QED  BY <2>2, <3>1, <3>2
  <2>4. score' \in [Attempt -> [Competency -> {None} \cup Grade]]
    BY <1>6, <2>2 DEF CommitComplete, Grades
  <2>5. item' \subseteq Item
    BY <1>6, <2>2, TrajectoryType DEF CommitComplete
  <2> QED  BY <1>6, <2>3, <2>4, <2>5 DEF CommitComplete, Finish
<1>7. ASSUME NEW c \in Client, FlushProgress(c)
      PROVE  TypeOK'
  <2>1. request[c] \in ProgressRequest
    BY <1>7, RequestTypes DEF FlushProgress
  <2>2. PICK i \in Reached(request[c]) :
            request' = [request EXCEPT ![c].flushed = TRUE, ![c].item = i]
    BY <1>7 DEF FlushProgress
  <2>3. i \in {None} \cup Item
    BY DEF Reached, FirstItems
  <2>4. [request[c] EXCEPT !.flushed = TRUE, !.item = i] \in ProgressRequest
    BY <2>1, <2>3 DEF ProgressRequest
  <2> QED  BY <1>7, <2>2, <2>4 DEF FlushProgress
<1>8. ASSUME NEW c \in Client, CommitProgress(c)
      PROVE  TypeOK'
  <2>1. request[c] \in ProgressRequest
    BY <1>8, RequestTypes DEF CommitProgress
  <2>2. progress' \in [Lesson -> {None} \cup Done] /\ glossary' \subseteq Lesson
    BY <1>8, <2>1 DEF CommitProgress, ProgressRequest, UnlockGlossary, Flush
  <2>3. item' \subseteq Item /\ score' \in [Attempt -> [Competency -> {None} \cup Grade]]
    <3>1. CASE request[c].item = None
      BY <1>8, <3>1 DEF CommitProgress
    <3>2. CASE request[c].item # None
      <4> DEFINE i == request[c].item
      <4>1. i \in Item
        BY <2>1, <3>2 DEF ProgressRequest
      <4>2. i.attempt \in Attempt /\ i.competency \in Competency
        BY <4>1 DEF Item
      <4>3. ApplyCourseCompletion(i)
        BY <1>8, <3>2 DEF CommitProgress
      <4> HIDE DEF i
      <4> QED  BY <4>1, <4>2, <4>3, CompletedItem DEF ApplyCourseCompletion, Grade
    <3> QED  BY <3>1, <3>2
  <2> QED  BY <1>8, <2>2, <2>3 DEF CommitProgress, Finish
<1>9. ASSUME NEW c \in Client, Abort(c)
      PROVE  TypeOK'
  BY <1>9 DEF Abort, Finish
<1>10. ASSUME NEW a \in Attempt, StartAttempt(a)
       PROVE  TypeOK'
  <2>1. NewAttempt \in AttemptRow
    BY DEF NewAttempt, AttemptRow, Done
  <2> QED  BY <1>10, <2>1 DEF StartAttempt, Tick
<1>11. ASSUME NEW l \in Lesson, SetArchived(l)
       PROVE  TypeOK'
  BY <1>11 DEF SetArchived, Tick
<1>12. CASE UNCHANGED vars
  BY <1>12 DEF vars
<1> QED
  BY <1>1, <1>2, <1>3, <1>4, <1>5, <1>6, <1>7, <1>8, <1>9, <1>10, <1>11, <1>12 DEF Next, Check

-----------------------------------------------------------------------------
(* What each step changes *)

Others(c) == \A d \in Client : d # c => request'[d] = request[d]

LEMMA AcceptStep ==
    ASSUME TypeOK, NEW c \in Client, NEW r, Accept(c, r)
    PROVE  /\ request[c] = Idle /\ request'[c] = r /\ Others(c)
           /\ clock \in Nat /\ clock' = clock + 1
           /\ ~overlapped' => ~overlapped /\ \A d \in Client : request[d] = Idle
           /\ UNCHANGED rows
<1>1. request[c] = Idle /\ request'[c] = r /\ Others(c)
  BY DEF TypeOK, Accept, Others
<1>2. clock \in Nat /\ clock' = clock + 1
  BY LearningConstants DEF TypeOK, Accept, Tick
<1>3. ~overlapped' => ~overlapped /\ \A d \in Client : request[d] = Idle
  BY Zenon DEF Accept, Tick
<1> QED  BY <1>1, <1>2, <1>3 DEF Accept

LEMMA FinishStep ==
    ASSUME TypeOK, NEW c \in Client, Finish(c)
    PROVE  /\ request'[c] = Idle /\ Others(c)
           /\ UNCHANGED <<clock, overlapped>>
BY DEF TypeOK, Finish, Others

LEMMA CommitAnswerStep ==
    ASSUME TypeOK, AttemptsExist, NEW c \in Client, CommitAnswer(c)
    PROVE  /\ request[c].op = "answer"
           /\ request[c].attempt \in Attempt
           /\ attempt[request[c].attempt] \in AttemptRow
           /\ attempt'[request[c].attempt] \in AttemptRow
           /\ attempt'[request[c].attempt].status = attempt[request[c].attempt].status
           /\ attempt'[request[c].attempt].completedAt = attempt[request[c].attempt].completedAt
           /\ \A b \in Attempt : b # request[c].attempt => attempt'[b] = attempt[b]
           /\ request'[c] = Idle /\ Others(c)
           /\ UNCHANGED <<archived, progress, glossary, score, item, clock, overlapped>>
<1>1. /\ request[c] \in AnswerRequest /\ request[c].attempt \in Attempt
      /\ attempt[request[c].attempt] \in AttemptRow
  BY RequestTypes DEF CommitAnswer, AttemptsExist, AnswerRequest, TypeOK
<1>2. /\ request'[c] = Idle /\ Others(c)
      /\ UNCHANGED <<archived, progress, glossary, score, item, clock, overlapped>>
  BY FinishStep DEF CommitAnswer
<1> DEFINE a == request[c].attempt
           q == request[c].question
           v == Flush(request[c].loaded, request[c].correct, attempt[a].answers[q])
<1>3. attempt' = [attempt EXCEPT ![a].answers[q] = v]
  BY DEF CommitAnswer
<1>4. /\ attempt \in [Attempt -> {None} \cup AttemptRow]
      /\ q \in Question /\ v \in {None} \cup BOOLEAN
  BY <1>1 DEF TypeOK, AnswerRequest, AttemptRow, Flush
<1>5. request[c].op = "answer"
  BY DEF CommitAnswer
<1> HIDE DEF v, q
<1>6. /\ attempt'[a] \in AttemptRow
      /\ attempt'[a].status = attempt[a].status
      /\ attempt'[a].completedAt = attempt[a].completedAt
      /\ \A b \in Attempt : b # a => attempt'[b] = attempt[b]
  BY <1>1, <1>3, <1>4 DEF AttemptRow
<1> QED  BY <1>1, <1>2, <1>5, <1>6

LEMMA ReplaceTrajectoryStep ==
    ASSUME TypeOK, NEW c \in Client, ReplaceTrajectory(c)
    PROVE  /\ request[c] \in CompleteRequest /\ Completes(c) /\ ~request[c].flushed
           /\ request'[c].op = "complete" /\ request'[c].flushed
           /\ request'[c].deleted = item
           /\ request'[c].attempt = request[c].attempt
           /\ request'[c].at = request[c].at /\ request'[c].grades = request[c].grades
           /\ Others(c)
           /\ UNCHANGED <<rows, clock, overlapped>>
           /\ \A d \in Client : Completes(d) /\ request[d].flushed
                                => request[d].attempt # request[c].attempt
           /\ \A d \in Client : Saves(d) => request[d].item \notin item
<1>1. request[c] \in CompleteRequest
  BY RequestTypes DEF ReplaceTrajectory
<1>2. /\ request'[c] = [request[c] EXCEPT !.flushed = TRUE, !.deleted = item]
      /\ Others(c)
  BY DEF ReplaceTrajectory, TypeOK, Others
<1>3. /\ request'[c].op = "complete" /\ request'[c].flushed
      /\ request'[c].deleted = item
      /\ request'[c].attempt = request[c].attempt
      /\ request'[c].at = request[c].at /\ request'[c].grades = request[c].grades
  BY <1>1, <1>2 DEF CompleteRequest
<1>4. /\ \A d \in Client : Completes(d) /\ request[d].flushed
                           => request[d].attempt # request[c].attempt
      /\ \A d \in Client : Saves(d) => request[d].item \notin item
  BY DEF ReplaceTrajectory, Completing, Updating, Completes, Saves
<1> QED  BY <1>1, <1>2, <1>3, <1>4 DEF ReplaceTrajectory, Completes

LEMMA CommitCompleteStep ==
    ASSUME TypeOK, AttemptsExist, NEW c \in Client, CommitComplete(c)
    PROVE  /\ request[c] \in CompleteRequest /\ Completes(c) /\ request[c].flushed
           /\ request[c].attempt \in Attempt /\ request[c].grades \in Grades
           /\ request[c].at \in 1..MaxRequests
           /\ attempt[request[c].attempt] \in AttemptRow
           /\ attempt'[request[c].attempt] \in AttemptRow
           /\ attempt'[request[c].attempt].status = "completed"
           /\ attempt'[request[c].attempt].completedAt = request[c].at
           /\ \A b \in Attempt : b # request[c].attempt =>
                  attempt'[b] = attempt[b] /\ score'[b] = score[b]
           /\ score'[request[c].attempt] = request[c].grades
           /\ item' = (item \ request[c].deleted)
                      \cup Trajectory(request[c].attempt, request[c].grades, request[c].at)
           /\ request'[c] = Idle /\ Others(c)
           /\ UNCHANGED <<archived, progress, glossary, clock, overlapped>>
<1>1. /\ request[c] \in CompleteRequest
      /\ request[c].attempt \in Attempt
      /\ attempt[request[c].attempt] \in AttemptRow
  BY RequestTypes DEF CommitComplete, AttemptsExist, CompleteRequest, TypeOK
<1>2. /\ request'[c] = Idle /\ Others(c)
      /\ UNCHANGED <<archived, progress, glossary, clock, overlapped>>
  BY FinishStep DEF CommitComplete
<1>3. request[c].grades \in Grades /\ request[c].at \in 1..MaxRequests
  BY <1>1 DEF CompleteRequest, Grades
<1>4. /\ attempt'[request[c].attempt] = CompletedAt(attempt[request[c].attempt], request[c].at)
      /\ \A b \in Attempt : b # request[c].attempt => attempt'[b] = attempt[b]
  BY <1>1 DEF CommitComplete, TypeOK, CompletedAt
<1>5. /\ \A b \in Attempt : b # request[c].attempt => score'[b] = score[b]
      /\ score'[request[c].attempt] = request[c].grades
  BY <1>1 DEF CommitComplete, TypeOK
<1>6. /\ attempt'[request[c].attempt] \in AttemptRow
      /\ attempt'[request[c].attempt].status = "completed"
      /\ attempt'[request[c].attempt].completedAt = request[c].at
  BY <1>1, <1>3, <1>4, CompletedAttempt
<1> QED  BY <1>1, <1>2, <1>3, <1>4, <1>5, <1>6 DEF CommitComplete, Completes

LEMMA FlushProgressStep ==
    ASSUME TypeOK, NEW c \in Client, FlushProgress(c)
    PROVE  /\ request[c] \in ProgressRequest /\ Saves(c) /\ ~request[c].flushed
           /\ request'[c].op = "progress" /\ request'[c].flushed
           /\ request'[c].lesson = request[c].lesson
           /\ request'[c].status = request[c].status
           /\ request'[c].loaded = request[c].loaded
           /\ request'[c].item \in Reached(request[c])
           /\ request'[c].item # None =>
                  /\ request'[c].item \in item
                  /\ ~Updating(request'[c].item)
                  /\ ~Deleting(request'[c].item)
           /\ Others(c)
           /\ UNCHANGED <<rows, clock, overlapped>>
<1>1. request[c] \in ProgressRequest
  BY RequestTypes DEF FlushProgress
<1>2. PICK i \in Reached(request[c]) :
          /\ ~(i # None /\ (Updating(i) \/ Deleting(i)))
          /\ request' = [request EXCEPT ![c].flushed = TRUE, ![c].item = i]
  BY DEF FlushProgress
<1>3. /\ request'[c] = [request[c] EXCEPT !.flushed = TRUE, !.item = i]
      /\ Others(c)
  BY <1>2 DEF TypeOK, Others
<1>4. /\ request'[c].op = "progress" /\ request'[c].flushed
      /\ request'[c].lesson = request[c].lesson
      /\ request'[c].status = request[c].status
      /\ request'[c].loaded = request[c].loaded
      /\ request'[c].item = i
  BY <1>1, <1>3 DEF ProgressRequest
<1>5. i # None => i \in item
  BY DEF Reached, FirstItems
<1> QED  BY <1>1, <1>2, <1>3, <1>4, <1>5 DEF FlushProgress, Saves

LEMMA CommitProgressStep ==
    ASSUME TypeOK, NEW c \in Client, CommitProgress(c)
    PROVE  /\ request[c] \in ProgressRequest /\ Saves(c) /\ request[c].flushed
           /\ request[c].lesson \in Lesson
           /\ progress'[request[c].lesson] =
                  Flush(request[c].loaded, request[c].status, progress[request[c].lesson])
           /\ \A l \in Lesson : l # request[c].lesson => progress'[l] = progress[l]
           /\ UnlockGlossary(request[c])
           /\ IF request[c].item = None THEN UNCHANGED <<score, item>>
              ELSE request[c].item \in Item /\ ApplyCourseCompletion(request[c].item)
           /\ request'[c] = Idle /\ Others(c)
           /\ UNCHANGED <<archived, attempt, clock, overlapped>>
<1>1. request[c] \in ProgressRequest
  BY RequestTypes DEF CommitProgress
<1>2. /\ request'[c] = Idle /\ Others(c) /\ UNCHANGED <<clock, overlapped>>
  BY FinishStep DEF CommitProgress
<1>3. request[c].lesson \in Lesson /\ request[c].item \in {None} \cup Item
  BY <1>1 DEF ProgressRequest
<1>4. /\ progress'[request[c].lesson] =
             Flush(request[c].loaded, request[c].status, progress[request[c].lesson])
      /\ \A l \in Lesson : l # request[c].lesson => progress'[l] = progress[l]
  BY <1>3 DEF CommitProgress, TypeOK
<1> QED  BY <1>1, <1>2, <1>3, <1>4 DEF CommitProgress, Saves

\* The scores and items after an item is completed.
LEMMA ApplyStep ==
    ASSUME TypeOK, NEW i \in Item, ApplyCourseCompletion(i)
    PROVE  /\ i.attempt \in Attempt /\ i.competency \in Competency
           /\ score'[i.attempt][i.competency] =
                  IF score[i.attempt][i.competency] = "deficit" THEN "needs_practice"
                  ELSE score[i.attempt][i.competency]
           /\ \A b \in Attempt, k \in Competency :
                  b # i.attempt \/ k # i.competency => score'[b][k] = score[b][k]
           /\ \E u \in Item :
                  /\ item' = (item \ {i}) \cup {u}
                  /\ u.batch = i.batch /\ u.attempt = i.attempt /\ u.course = i.course
                  /\ u.competency = i.competency /\ u.priority = i.priority
                  /\ u.status = "completed"
<1>1. i.attempt \in Attempt /\ i.competency \in Competency
  BY DEF Item
<1>2. /\ score'[i.attempt][i.competency] =
             IF score[i.attempt][i.competency] = "deficit" THEN "needs_practice"
             ELSE score[i.attempt][i.competency]
      /\ \A b \in Attempt, k \in Competency :
             b # i.attempt \/ k # i.competency => score'[b][k] = score[b][k]
  BY <1>1 DEF ApplyCourseCompletion, TypeOK
<1> QED  BY <1>1, <1>2, CompletedItem DEF ApplyCourseCompletion

\* The requests a handler may accept.
LEMMA CheckStep ==
    ASSUME TypeOK, NEW c \in Client, Check(c)
    PROVE  \E r :
        /\ Accept(c, r)
        /\ \/ /\ r.op = "progress" /\ r.lesson \in Lesson /\ r.loaded = progress[r.lesson]
              /\ ~r.flushed /\ r.item = None
           \/ /\ r.op \in {"answer", "complete"} /\ r.attempt \in Attempt
              /\ attempt[r.attempt] # None /\ attempt[r.attempt].status = "in_progress"
              /\ r.op = "complete" => /\ r.at = clock + 1 /\ ~r.flushed /\ r.deleted = {}
<1>1. ASSUME NEW l \in Lesson, NEW s \in Done, CheckProgress(c, l, s)
      PROVE  \E r :
                 /\ Accept(c, r)
                 /\ r.op = "progress" /\ r.lesson \in Lesson /\ r.loaded = progress[r.lesson]
                 /\ ~r.flushed /\ r.item = None
  BY <1>1 DEF CheckProgress
<1>2. ASSUME NEW a \in Attempt, NEW q \in Question, NEW correct \in BOOLEAN,
             CheckAnswer(c, a, q, correct)
      PROVE  \E r :
                 /\ Accept(c, r)
                 /\ r.op = "answer" /\ r.attempt \in Attempt
                 /\ attempt[r.attempt] # None /\ attempt[r.attempt].status = "in_progress"
  BY <1>2 DEF CheckAnswer
<1>3. ASSUME NEW a \in Attempt, CheckComplete(c, a)
      PROVE  \E r :
                 /\ Accept(c, r)
                 /\ r.op = "complete" /\ r.attempt \in Attempt
                 /\ attempt[r.attempt] # None /\ attempt[r.attempt].status = "in_progress"
                 /\ r.at = clock + 1 /\ ~r.flushed /\ r.deleted = {}
  BY <1>3 DEF CheckComplete
<1> QED  BY <1>1, <1>2, <1>3 DEF Check

LEMMA AbortStep ==
    ASSUME TypeOK, NEW c \in Client, Abort(c)
    PROVE  /\ request'[c] = Idle /\ Others(c)
           /\ UNCHANGED <<rows, clock, overlapped>>
BY FinishStep DEF Abort

LEMMA StartAttemptStep ==
    ASSUME TypeOK, NEW a \in Attempt, StartAttempt(a)
    PROVE  /\ attempt[a] = None /\ attempt'[a] \in AttemptRow
           /\ attempt'[a].status = "in_progress" /\ attempt'[a].completedAt = 0
           /\ \A b \in Attempt : b # a => attempt'[b] = attempt[b]
           /\ clock \in Nat /\ clock' = clock + 1
           /\ ~overlapped' => ~overlapped /\ \A d \in Client : request[d] = Idle
           /\ UNCHANGED <<archived, progress, glossary, score, item, request>>
<1>1. /\ attempt'[a] = NewAttempt
      /\ \A b \in Attempt : b # a => attempt'[b] = attempt[b]
  BY DEF StartAttempt, TypeOK
<1>2. NewAttempt \in AttemptRow /\ NewAttempt.status = "in_progress" /\ NewAttempt.completedAt = 0
  BY LearningConstants DEF NewAttempt, AttemptRow, Done
<1>3. clock \in Nat /\ clock' = clock + 1
  BY LearningConstants DEF TypeOK, StartAttempt, Tick
<1>4. ~overlapped' => ~overlapped /\ \A d \in Client : request[d] = Idle
  BY Zenon DEF StartAttempt, Tick
<1> QED  BY <1>1, <1>2, <1>3, <1>4 DEF StartAttempt

LEMMA SetArchivedStep ==
    ASSUME TypeOK, NEW l \in Lesson, SetArchived(l)
    PROVE  /\ clock \in Nat /\ clock' = clock + 1
           /\ ~overlapped' => ~overlapped /\ \A d \in Client : request[d] = Idle
           /\ UNCHANGED <<progress, glossary, attempt, score, item, request>>
<1>1. clock \in Nat /\ clock' = clock + 1
  BY LearningConstants DEF TypeOK, SetArchived, Tick
<1>2. ~overlapped' => ~overlapped /\ \A d \in Client : request[d] = Idle
  BY Zenon DEF SetArchived, Tick
<1> QED  BY <1>1, <1>2 DEF SetArchived

-----------------------------------------------------------------------------
(* However requests interleave *)

LEMMA AttemptsStay ==
    ASSUME TypeOK, AttemptsExist, [Next]_vars, NEW b \in Attempt, attempt[b] # None
    PROVE  attempt'[b] # None
<1>1. CASE UNCHANGED attempt
  BY <1>1
<1>2. ASSUME NEW c \in Client, CommitAnswer(c) PROVE attempt'[b] # None
  BY <1>2, CommitAnswerStep, NoneIsNoValue
<1>3. ASSUME NEW c \in Client, CommitComplete(c) PROVE attempt'[b] # None
  BY <1>3, CommitCompleteStep, NoneIsNoValue
<1>4. ASSUME NEW a \in Attempt, StartAttempt(a) PROVE attempt'[b] # None
  BY <1>4, StartAttemptStep, NoneIsNoValue
<1>5. ASSUME NEW c \in Client, Check(c) PROVE UNCHANGED attempt
  BY <1>5, CheckStep DEF Accept, rows
<1> QED
  BY <1>1, <1>2, <1>3, <1>4, <1>5
     DEF Next, vars, rows, ReplaceTrajectory, FlushProgress, CommitProgress, Abort, SetArchived

LEMMA AttemptsExistPreserved ==
    TypeOK /\ AttemptsExist /\ RowsAreLocked /\ [Next]_vars => AttemptsExist'
<1> SUFFICES ASSUME TypeOK, AttemptsExist, RowsAreLocked, [Next]_vars PROVE AttemptsExist'
  OBVIOUS
<1> DEFINE Fits(c) == request[c].op \in {"answer", "complete"} => attempt[request[c].attempt] # None
           FitsAfter(c) == request'[c].op \in {"answer", "complete"} => attempt'[request'[c].attempt] # None
<1>1. \A c \in Client : request[c].op \in {"answer", "complete"} => request[c].attempt \in Attempt
  BY RequestTypes DEF AnswerRequest, CompleteRequest
<1>2. \A i \in item : i.attempt \in Attempt
  BY DEF TypeOK, Item
<1>3. \A c \in Client : request'[c] = request[c] => FitsAfter(c)
  BY <1>1, AttemptsStay DEF AttemptsExist
<1>4. \A c \in Client : request'[c] = Idle => FitsAfter(c)
  BY DEF Idle
<1>5. (\A c \in Client : FitsAfter(c)) /\ item' = item => AttemptsExist'
  BY <1>2, AttemptsStay DEF AttemptsExist
<1>6. ASSUME NEW c \in Client, Check(c) PROVE AttemptsExist'
  <2>1. PICK r : /\ Accept(c, r)
                 /\ r.op \in {"answer", "complete"} =>
                        r.attempt \in Attempt /\ attempt[r.attempt] # None
    BY <1>6, CheckStep
  <2>2. FitsAfter(c)
    BY <2>1, AcceptStep, AttemptsStay
  <2> QED  BY <1>3, <1>5, <2>1, <2>2, AcceptStep DEF Others, rows
<1>7. ASSUME NEW c \in Client, CommitAnswer(c) PROVE AttemptsExist'
  BY <1>3, <1>4, <1>5, <1>7, CommitAnswerStep DEF Others
<1>8. ASSUME NEW c \in Client, ReplaceTrajectory(c) PROVE AttemptsExist'
  <2>1. FitsAfter(c)
    BY <1>1, <1>8, ReplaceTrajectoryStep, AttemptsStay DEF AttemptsExist, Completes
  <2> QED  BY <1>3, <1>5, <1>8, <2>1, ReplaceTrajectoryStep DEF Others, rows
<1>9. ASSUME NEW c \in Client, CommitComplete(c) PROVE AttemptsExist'
  <2>1. \A d \in Client : FitsAfter(d)
    BY <1>3, <1>4, <1>9, CommitCompleteStep DEF Others
  <2>2. \A i \in item' : i \in item \/ i.attempt = request[c].attempt
    BY <1>9, CommitCompleteStep, TrajectoryType
  <2>3. attempt'[request[c].attempt] # None
    BY <1>9, CommitCompleteStep, NoneIsNoValue
  <2> HIDE DEF FitsAfter
  <2>4. \A i \in item' : attempt'[i.attempt] # None
    BY <1>2, <2>2, <2>3, AttemptsStay DEF AttemptsExist
  <2> QED  BY <2>1, <2>4 DEF AttemptsExist, FitsAfter
<1>10. ASSUME NEW c \in Client, FlushProgress(c) PROVE AttemptsExist'
  <2>1. FitsAfter(c)
    BY <1>10, FlushProgressStep
  <2> QED  BY <1>3, <1>5, <1>10, <2>1, FlushProgressStep DEF Others, rows
<1>11. ASSUME NEW c \in Client, CommitProgress(c) PROVE AttemptsExist'
  <2>1. \A d \in Client : FitsAfter(d)
    BY <1>3, <1>4, <1>11, CommitProgressStep DEF Others
  <2>2. CASE request[c].item = None
    BY <1>5, <1>11, <2>1, <2>2, CommitProgressStep
  <2>3. CASE request[c].item # None
    <3>1. PICK u : /\ item' = (item \ {request[c].item}) \cup {u}
                   /\ u.attempt = request[c].item.attempt
      BY <1>11, <2>3, CommitProgressStep, ApplyStep
    <3>2. request[c].item \in item
      BY <1>11, <2>3, CommitProgressStep DEF RowsAreLocked, UpdatedIsOwned
    <3> QED  BY <1>2, <2>1, <3>1, <3>2, AttemptsStay DEF AttemptsExist
  <2> QED  BY <2>2, <2>3
<1>12. ASSUME NEW c \in Client, Abort(c) PROVE AttemptsExist'
  BY <1>3, <1>4, <1>5, <1>12, AbortStep DEF Others, rows
<1>13. CASE UNCHANGED <<request, item>>
  BY <1>3, <1>5, <1>13
<1> QED
  BY <1>6, <1>7, <1>8, <1>9, <1>10, <1>11, <1>12, <1>13 DEF Next, StartAttempt, SetArchived, vars

LEMMA RowsAreLockedPreserved ==
    TypeOK /\ AttemptsExist /\ RowsAreLocked /\ [Next]_vars => RowsAreLocked'
<1> SUFFICES ASSUME TypeOK, AttemptsExist, RowsAreLocked, [Next]_vars PROVE RowsAreLocked'
  OBVIOUS
<1> USE DEF Completes, Saves
\* A step that only forgets a request, or none, forgets locks.
<1>1. ASSUME item' = item,
             \A c \in Client : request'[c] = request[c] \/ request'[c] = Idle
      PROVE  RowsAreLocked'
  <2>1. \A c \in Client : request'[c].op # "idle" => request'[c] = request[c]
    BY <1>1 DEF Idle
  <2>2. OneRewrites'
    BY <2>1 DEF RowsAreLocked, OneRewrites
  <2>3. RewrittenIsDeleted'
    BY <1>1, <2>1 DEF RowsAreLocked, RewrittenIsDeleted
  <2>4. UpdatedIsOwned'
    BY <1>1, <2>1 DEF RowsAreLocked, UpdatedIsOwned
  <2> QED  BY <2>2, <2>3, <2>4 DEF RowsAreLocked
<1>2. ASSUME NEW c \in Client, Check(c) PROVE RowsAreLocked'
  <2>1. PICK r :
            /\ Accept(c, r)
            /\ r.op \in {"progress", "answer", "complete"}
            /\ r.op = "progress" => ~r.flushed /\ r.item = None
            /\ r.op = "complete" => ~r.flushed /\ r.deleted = {}
    BY <1>2, CheckStep
  <2>2. /\ request'[c] = r /\ item' = item
        /\ \A d \in Client : d # c => request'[d] = request[d]
    BY <2>1, AcceptStep DEF Others, rows
  <2>3. OneRewrites'
    BY <2>1, <2>2 DEF RowsAreLocked, OneRewrites
  <2>4. RewrittenIsDeleted'
    BY <2>1, <2>2 DEF RowsAreLocked, RewrittenIsDeleted
  <2>5. UpdatedIsOwned'
    BY <2>1, <2>2 DEF RowsAreLocked, UpdatedIsOwned
  <2> QED  BY <2>3, <2>4, <2>5 DEF RowsAreLocked
<1>3. ASSUME NEW c \in Client, ReplaceTrajectory(c) PROVE RowsAreLocked'
  <2>1. /\ request'[c].op = "complete" /\ request'[c].deleted = item
        /\ request'[c].attempt = request[c].attempt
        /\ \A d \in Client : d # c => request'[d] = request[d]
        /\ item' = item
        /\ \A d \in Client : Completes(d) /\ request[d].flushed
                             => request[d].attempt # request[c].attempt
        /\ \A d \in Client : Saves(d) => request[d].item \notin item
    BY <1>3, ReplaceTrajectoryStep DEF Others, rows
  <2>2. OneRewrites'
    BY <2>1 DEF RowsAreLocked, OneRewrites
  <2>3. RewrittenIsDeleted'
    BY <2>1 DEF RowsAreLocked, RewrittenIsDeleted
  <2>4. UpdatedIsOwned'
    BY <2>1 DEF RowsAreLocked, UpdatedIsOwned
  <2> QED  BY <2>2, <2>3, <2>4 DEF RowsAreLocked
<1>4. ASSUME NEW c \in Client, CommitComplete(c) PROVE RowsAreLocked'
  <2>1. /\ Completes(c) /\ request[c].flushed
        /\ request'[c].op = "idle"
        /\ \A d \in Client : d # c => request'[d] = request[d]
        /\ \A i \in item' : i \in item \/ i.attempt = request[c].attempt
        /\ \A i \in item : i \notin request[c].deleted => i \in item'
    BY <1>4, CommitCompleteStep, TrajectoryType DEF Others, Idle
  <2>2. OneRewrites'
    BY <2>1 DEF RowsAreLocked, OneRewrites
  <2>3. RewrittenIsDeleted'
    BY <2>1 DEF RowsAreLocked, OneRewrites, RewrittenIsDeleted
  <2>4. UpdatedIsOwned'
    BY <2>1 DEF RowsAreLocked, UpdatedIsOwned
  <2> QED  BY <2>2, <2>3, <2>4 DEF RowsAreLocked
<1>5. ASSUME NEW c \in Client, FlushProgress(c) PROVE RowsAreLocked'
  <2>1. /\ request'[c].op = "progress" /\ request'[c].flushed
        /\ \A d \in Client : d # c => request'[d] = request[d]
        /\ item' = item
        /\ request'[c].item # None =>
               /\ request'[c].item \in item
               /\ \A d \in Client : Saves(d) => request[d].item # request'[c].item
               /\ \A d \in Client : Completes(d) => request'[c].item \notin request[d].deleted
    BY <1>5, FlushProgressStep DEF Others, rows, Updating, Deleting
  <2>2. OneRewrites'
    BY <2>1 DEF RowsAreLocked, OneRewrites
  <2>3. RewrittenIsDeleted'
    BY <2>1 DEF RowsAreLocked, RewrittenIsDeleted
  <2>4. UpdatedIsOwned'
    BY <2>1 DEF RowsAreLocked, UpdatedIsOwned
  <2> QED  BY <2>2, <2>3, <2>4 DEF RowsAreLocked
<1>6. ASSUME NEW c \in Client, CommitProgress(c) PROVE RowsAreLocked'
  <2>1. /\ Saves(c)
        /\ request'[c].op = "idle" /\ request'[c] = Idle
        /\ \A d \in Client : d # c => request'[d] = request[d]
    BY <1>6, CommitProgressStep DEF Others, Idle
  <2>2. CASE request[c].item = None
    BY <1>1, <1>6, <2>1, <2>2, CommitProgressStep
  <2>3. CASE request[c].item # None
    <3>1. PICK u : /\ item' = (item \ {request[c].item}) \cup {u}
                   /\ u.attempt = request[c].item.attempt
      BY <1>6, <2>3, CommitProgressStep, ApplyStep
    <3>2. /\ request[c].item \in item
          /\ \A d \in Client : /\ Saves(d) /\ request[d].item = request[c].item => d = c
                               /\ Completes(d) => request[c].item \notin request[d].deleted
      BY <2>1, <2>3 DEF RowsAreLocked, UpdatedIsOwned
    <3>3. OneRewrites'
      BY <2>1 DEF RowsAreLocked, OneRewrites
    <3>4. RewrittenIsDeleted'
      BY <2>1, <3>1, <3>2 DEF RowsAreLocked, RewrittenIsDeleted
    <3>5. UpdatedIsOwned'
      BY <2>1, <3>1, <3>2 DEF RowsAreLocked, UpdatedIsOwned
    <3> QED  BY <3>3, <3>4, <3>5 DEF RowsAreLocked
  <2> QED  BY <2>2, <2>3
<1>7. ASSUME NEW c \in Client, CommitAnswer(c) PROVE RowsAreLocked'
  BY <1>1, <1>7, CommitAnswerStep DEF Others
<1>8. ASSUME NEW c \in Client, Abort(c) PROVE RowsAreLocked'
  BY <1>1, <1>8, AbortStep DEF Others, rows
<1>9. CASE UNCHANGED <<request, item>>
  BY <1>1, <1>9
<1> QED
  BY <1>2, <1>3, <1>4, <1>5, <1>6, <1>7, <1>8, <1>9 DEF Next, StartAttempt, SetArchived, vars

LEMMA BatchesDifferPreserved ==
    TypeOK /\ AttemptsExist /\ RowsAreLocked /\ BatchesDiffer /\ [Next]_vars => BatchesDiffer'
<1> SUFFICES ASSUME TypeOK, AttemptsExist, RowsAreLocked, BatchesDiffer, [Next]_vars
             PROVE  BatchesDiffer'
  OBVIOUS
<1> USE DEF Completes
<1> DEFINE ItemsDated == \A i \in item : i.batch <= clock
           AttemptsDated == \A a \in Attempt : attempt[a] # None => attempt[a].completedAt <= clock
           RequestsDated == \A c \in Client : Completes(c) =>
               /\ request[c].at <= clock
               /\ \A i \in item : i.batch # request[c].at
               /\ \A d \in Client : Completes(d) /\ request[d].at = request[c].at => d = c
<1>1. ItemsDated /\ AttemptsDated /\ RequestsDated
  BY DEF BatchesDiffer
<1>2. ItemsDated' /\ AttemptsDated' /\ RequestsDated' => BatchesDiffer'
  BY DEF BatchesDiffer
<1>3. /\ clock \in Nat
      /\ \A i \in item : i.batch \in Nat
      /\ \A a \in Attempt : attempt[a] # None => attempt[a].completedAt \in Nat
      /\ \A c \in Client : Completes(c) => request[c].at \in Nat
  BY LearningConstants, RequestTypes DEF TypeOK, Item, AttemptRow, CompleteRequest
<1>4. ASSUME item' = item, attempt' = attempt, clock' = clock \/ clock' = clock + 1,
             \A c \in Client :
                 request'[c].op # "complete" \/ (Completes(c) /\ request'[c].at = request[c].at)
      PROVE  BatchesDiffer'
  <2>1. ItemsDated' /\ AttemptsDated'
    BY <1>1, <1>3, <1>4
  <2>2. RequestsDated'
    BY <1>1, <1>3, <1>4
  <2> QED  BY <1>2, <2>1, <2>2
<1>5. ASSUME NEW c \in Client, Check(c) PROVE BatchesDiffer'
  <2>1. PICK r : Accept(c, r) /\ (r.op = "complete" => r.at = clock + 1)
    BY <1>5, CheckStep
  <2>2. /\ request'[c] = r /\ item' = item /\ attempt' = attempt /\ clock' = clock + 1
        /\ \A d \in Client : d # c => request'[d] = request[d]
    BY <2>1, AcceptStep DEF Others, rows
  <2>3. ItemsDated' /\ AttemptsDated'
    BY <1>1, <1>3, <2>2
  <2>4. RequestsDated'
    BY <1>1, <1>3, <2>1, <2>2
  <2> QED  BY <1>2, <2>3, <2>4
<1>6. ASSUME NEW c \in Client, CommitAnswer(c) PROVE BatchesDiffer'
  <2>1. /\ request'[c].op # "complete" /\ item' = item /\ clock' = clock
        /\ \A d \in Client : d # c => request'[d] = request[d]
    BY <1>6, CommitAnswerStep DEF Others, Idle
  <2>2. AttemptsDated'
    BY <1>1, <1>3, <1>6, CommitAnswerStep, NoneIsNoValue
  <2>3. ItemsDated' /\ RequestsDated'
    BY <1>1, <2>1
  <2> QED  BY <1>2, <2>2, <2>3
<1>7. ASSUME NEW c \in Client, CommitComplete(c) PROVE BatchesDiffer'
  <2>1. /\ Completes(c) /\ request'[c].op # "complete" /\ clock' = clock
        /\ \A d \in Client : d # c => request'[d] = request[d]
        /\ \A i \in item' : i \in item \/ i.batch = request[c].at
    BY <1>7, CommitCompleteStep, TrajectoryType DEF Others, Idle
  <2>2. AttemptsDated'
    BY <1>1, <1>3, <1>7, <2>1, CommitCompleteStep
  <2>3. ItemsDated'
    BY <1>1, <2>1
  <2>4. RequestsDated'
    BY <1>1, <2>1
  <2> QED  BY <1>2, <2>2, <2>3, <2>4
<1>8. ASSUME NEW c \in Client, CommitProgress(c) PROVE BatchesDiffer'
  <2>1. /\ Saves(c) /\ request'[c].op # "complete" /\ attempt' = attempt /\ clock' = clock
        /\ \A d \in Client : d # c => request'[d] = request[d]
    BY <1>8, CommitProgressStep DEF Others, Idle
  <2>2. CASE request[c].item = None
    <3>1. item' = item
      BY <1>8, <2>2, CommitProgressStep
    <3>2. \A d \in Client :
            request'[d].op # "complete" \/ (Completes(d) /\ request'[d].at = request[d].at)
      BY <2>1
    <3> QED  BY <1>4, <2>1, <3>1, <3>2
  <2>3. CASE request[c].item # None
    <3>1. PICK u : /\ item' = (item \ {request[c].item}) \cup {u}
                   /\ u.batch = request[c].item.batch
      BY <1>8, <2>3, CommitProgressStep, ApplyStep
    <3>2. request[c].item \in item
      BY <2>1, <2>3 DEF RowsAreLocked, UpdatedIsOwned
    <3>3. ItemsDated' /\ AttemptsDated'
      BY <1>1, <2>1, <3>1, <3>2
    <3>4. RequestsDated'
      BY <1>1, <2>1, <3>1, <3>2
    <3> QED  BY <1>2, <3>3, <3>4
  <2> QED  BY <2>2, <2>3
<1>9. ASSUME NEW c \in Client, ReplaceTrajectory(c) PROVE BatchesDiffer'
  BY <1>4, <1>9, ReplaceTrajectoryStep DEF Others, rows
<1>10. ASSUME NEW c \in Client, FlushProgress(c) PROVE BatchesDiffer'
  <2>1. /\ request'[c].op # "complete" /\ UNCHANGED <<item, attempt, clock>>
        /\ \A d \in Client : d # c => request'[d] = request[d]
    BY <1>10, FlushProgressStep DEF Others, rows
  <2>2. \A d \in Client :
            request'[d].op # "complete" \/ (Completes(d) /\ request'[d].at = request[d].at)
    BY <2>1
  <2> QED  BY <1>4, <2>1, <2>2
<1>11. ASSUME NEW c \in Client, Abort(c) PROVE BatchesDiffer'
  <2>1. /\ request'[c].op # "complete" /\ UNCHANGED <<item, attempt, clock>>
        /\ \A d \in Client : d # c => request'[d] = request[d]
    BY <1>11, AbortStep DEF Others, rows, Idle
  <2>2. \A d \in Client :
            request'[d].op # "complete" \/ (Completes(d) /\ request'[d].at = request[d].at)
    BY <2>1
  <2> QED  BY <1>4, <2>1, <2>2
<1>12. ASSUME NEW a \in Attempt, StartAttempt(a) PROVE BatchesDiffer'
  <2>1. clock' = clock + 1 /\ item' = item /\ request' = request
    BY <1>12, StartAttemptStep
  <2>2. AttemptsDated'
    BY <1>1, <1>3, <1>12, StartAttemptStep
  <2>3. ItemsDated' /\ RequestsDated'
    BY <1>1, <1>3, <2>1
  <2> QED  BY <1>2, <2>2, <2>3
<1>13. ASSUME NEW l \in Lesson, SetArchived(l) PROVE BatchesDiffer'
  BY <1>4, <1>13, SetArchivedStep
<1>14. CASE UNCHANGED vars
  BY <1>4, <1>14 DEF vars
<1> QED
  BY <1>5, <1>6, <1>7, <1>8, <1>9, <1>10, <1>11, <1>12, <1>13, <1>14 DEF Next

LEMMA MatchPreserved ==
    TypeOK /\ AttemptsExist /\ RowsAreLocked /\ TrajectoryMatchesScores /\ [Next]_vars
    => TrajectoryMatchesScores'
<1> SUFFICES ASSUME TypeOK, AttemptsExist, RowsAreLocked, TrajectoryMatchesScores, [Next]_vars
             PROVE  TrajectoryMatchesScores'
  OBVIOUS
<1> USE DEF Completes, Saves
<1>1. \A i \in item : /\ i \in Item /\ i.attempt \in Attempt /\ i.competency \in Competency
                      /\ attempt[i.attempt] # None
  BY DEF TypeOK, Item, AttemptsExist
<1>2. CASE UNCHANGED <<attempt, score, item>>
  BY <1>2 DEF TrajectoryMatchesScores
<1>3. ASSUME NEW c \in Client, CommitAnswer(c) PROVE TrajectoryMatchesScores'
  <2>1. /\ score' = score /\ item' = item
        /\ \A b \in Attempt : attempt[b] # None => attempt'[b].status = attempt[b].status
    BY <1>3, CommitAnswerStep
  <2> QED  BY <1>1, <2>1 DEF TrajectoryMatchesScores
<1>4. ASSUME NEW c \in Client, CommitComplete(c) PROVE TrajectoryMatchesScores'
  <2> DEFINE a == request[c].attempt
  <2>1. /\ \A i \in item' :
               \/ i \in item /\ i \notin request[c].deleted
               \/ /\ i.attempt = a /\ i.status = "recommended"
                  /\ request[c].grades[i.competency] \in {"deficit", "needs_practice"}
        /\ attempt'[a].status = "completed" /\ score'[a] = request[c].grades
        /\ \A b \in Attempt : b # a => attempt'[b] = attempt[b] /\ score'[b] = score[b]
    BY <1>4, CommitCompleteStep, TrajectoryType
  <2>2. \A i \in item : i \notin request[c].deleted => i.attempt # a
    BY <1>4, CommitCompleteStep DEF RowsAreLocked, RewrittenIsDeleted
  <2> HIDE DEF a
  <2> QED  BY <1>1, <2>1, <2>2 DEF TrajectoryMatchesScores
<1>5. ASSUME NEW c \in Client, CommitProgress(c) PROVE TrajectoryMatchesScores'
  <2>1. CASE request[c].item = None
    BY <1>2, <1>5, <2>1, CommitProgressStep
  <2>2. CASE request[c].item # None
    <3> DEFINE x == request[c].item
    <3>1. x \in item
      BY <1>5, <2>2, CommitProgressStep DEF RowsAreLocked, UpdatedIsOwned
    <3>2. PICK u : /\ item' = (item \ {x}) \cup {u}
                   /\ u.attempt = x.attempt /\ u.competency = x.competency
      BY <1>5, <2>2, CommitProgressStep, ApplyStep
    <3>3. /\ attempt' = attempt
          /\ score'[x.attempt][x.competency] =
                IF score[x.attempt][x.competency] = "deficit" THEN "needs_practice"
                ELSE score[x.attempt][x.competency]
          /\ \A b \in Attempt, k \in Competency :
                b # x.attempt \/ k # x.competency => score'[b][k] = score[b][k]
      BY <1>5, <2>2, CommitProgressStep, ApplyStep
    <3> HIDE DEF x
    <3>4. \A b \in Attempt, k \in Competency :
             /\ score[b][k] \in {"deficit", "needs_practice"} =>
                    score'[b][k] \in {"deficit", "needs_practice"}
             /\ score[b][k] = "needs_practice" => score'[b][k] = "needs_practice"
      BY <3>3
    <3>5. score'[x.attempt][x.competency] = "needs_practice"
      BY <3>1, <3>3 DEF TrajectoryMatchesScores
    <3>6. attempt[x.attempt].status = "completed"
      BY <3>1 DEF TrajectoryMatchesScores
    <3>7. \A i \in item' : i = u \/ i \in item
      BY <3>2
    <3> QED  BY <1>1, <3>2, <3>3, <3>4, <3>5, <3>6, <3>7 DEF TrajectoryMatchesScores
  <2> QED  BY <2>1, <2>2
<1>6. ASSUME NEW a \in Attempt, StartAttempt(a) PROVE TrajectoryMatchesScores'
  BY <1>1, <1>6, StartAttemptStep DEF TrajectoryMatchesScores
<1>7. ASSUME NEW c \in Client, Check(c) PROVE UNCHANGED <<attempt, score, item>>
  BY <1>7, CheckStep DEF Accept, rows
<1> QED
  BY <1>2, <1>3, <1>4, <1>5, <1>6, <1>7
     DEF Next, vars, rows, ReplaceTrajectory, FlushProgress, Abort, SetArchived

LEMMA GlossaryPreserved == TypeOK /\ GlossaryUnlocked /\ [Next]_vars => GlossaryUnlocked'
<1> SUFFICES ASSUME TypeOK, GlossaryUnlocked, [Next]_vars PROVE GlossaryUnlocked'
  OBVIOUS
<1>1. CASE UNCHANGED <<progress, glossary>>
  BY <1>1 DEF GlossaryUnlocked
<1>2. ASSUME NEW c \in Client, CommitProgress(c) PROVE GlossaryUnlocked'
  <2> SUFFICES ASSUME NEW l \in Lesson, progress'[l] = "completed" PROVE l \in glossary'
    BY DEF GlossaryUnlocked
  <2>1. UnlockGlossary(request[c])
    BY <1>2, CommitProgressStep
  <2>2. progress[l] = "completed" \/ (l = request[c].lesson /\ request[c].status = "completed")
    BY <1>2, CommitProgressStep DEF Flush
  <2> QED  BY <2>1, <2>2 DEF GlossaryUnlocked, UnlockGlossary
<1>3. ASSUME NEW c \in Client, Check(c) PROVE UNCHANGED <<progress, glossary>>
  BY <1>3, CheckStep DEF Accept, rows
<1> QED
  BY <1>1, <1>2, <1>3
     DEF Next, vars, rows, CommitAnswer, ReplaceTrajectory, CommitComplete, FlushProgress,
         Abort, StartAttempt, SetArchived

-----------------------------------------------------------------------------
(* As long as requests have not overlapped *)

SerialInv == TypeOK /\ AttemptsExist /\ RowsAreLocked /\ BatchesDiffer /\ Serial

LEMMA AlonePreserved == SerialInv /\ [Next]_vars /\ ~overlapped' => ~overlapped /\ Alone /\ Alone'
<1> SUFFICES ASSUME SerialInv, [Next]_vars, ~overlapped' PROVE ~overlapped /\ Alone /\ Alone'
  OBVIOUS
<1> USE DEF SerialInv
<1>1. ~overlapped => Alone
  BY DEF Serial
<1>2. ASSUME NEW c \in Client, request[c] # Idle, Others(c), ~overlapped
      PROVE  Alone'
  BY <1>1, <1>2 DEF Alone, Others
<1>3. ASSUME NEW c \in Client, Check(c) PROVE ~overlapped /\ Alone'
  <2>1. PICK r : Accept(c, r)
    BY <1>3, CheckStep
  <2> QED  BY <2>1, AcceptStep DEF Alone, Others
<1>4. ASSUME NEW c \in Client,
             CommitAnswer(c) \/ ReplaceTrajectory(c) \/ CommitComplete(c) \/ FlushProgress(c)
             \/ CommitProgress(c) \/ Abort(c)
      PROVE  ~overlapped /\ Alone'
  <2>1. request[c] # Idle
    BY <1>4 DEF CommitAnswer, ReplaceTrajectory, CommitComplete, FlushProgress, CommitProgress,
                Abort, Idle
  <2>2. Others(c) /\ ~overlapped
    BY <1>4, CommitAnswerStep, ReplaceTrajectoryStep, CommitCompleteStep, FlushProgressStep,
       CommitProgressStep, AbortStep
  <2> QED  BY <1>2, <2>1, <2>2
<1>5. ASSUME NEW a \in Attempt, StartAttempt(a) PROVE ~overlapped /\ Alone'
  BY <1>1, <1>5, StartAttemptStep DEF Alone
<1>6. ASSUME NEW l \in Lesson, SetArchived(l) PROVE ~overlapped /\ Alone'
  BY <1>1, <1>6, SetArchivedStep DEF Alone
<1>7. CASE UNCHANGED vars
  BY <1>1, <1>7 DEF Alone, vars
<1> QED  BY <1>1, <1>3, <1>4, <1>5, <1>6, <1>7 DEF Next

\* The request that acts is the only one.
LEMMA ActsAlone ==
    ASSUME SerialInv, [Next]_vars, ~overlapped', NEW c \in Client, request[c] # Idle,
           NEW d \in Client, d # c
    PROVE  request[d] = Idle
BY AlonePreserved DEF Alone

LEMMA StillTruePreserved ==
    SerialInv /\ [Next]_vars /\ ~overlapped'
    => AnswerStillTrue' /\ CompleteStillTrue' /\ ProgressStillTrue'
<1> SUFFICES ASSUME SerialInv, [Next]_vars, ~overlapped'
             PROVE  AnswerStillTrue' /\ CompleteStillTrue' /\ ProgressStillTrue'
  OBVIOUS
<1> USE DEF SerialInv, Completes, Saves
<1>1. ~overlapped /\ AnswerStillTrue /\ CompleteStillTrue /\ ProgressStillTrue
  BY AlonePreserved DEF Serial
<1>2. ASSUME \A c \in Client : request'[c] = Idle
      PROVE  AnswerStillTrue' /\ CompleteStillTrue' /\ ProgressStillTrue'
  BY <1>2 DEF AnswerStillTrue, CompleteStillTrue, ProgressStillTrue, Idle
<1>3. ASSUME NEW c \in Client, Check(c)
      PROVE  AnswerStillTrue' /\ CompleteStillTrue' /\ ProgressStillTrue'
  <2>1. PICK r :
            /\ Accept(c, r)
            /\ r.op \in {"progress", "answer", "complete"}
            /\ r.op = "progress" => ~r.flushed /\ r.loaded = progress[r.lesson]
            /\ r.op \in {"answer", "complete"} => attempt[r.attempt].status = "in_progress"
            /\ r.op = "complete" => ~r.flushed /\ r.at = clock + 1
    BY <1>3, CheckStep
  <2>2. /\ request'[c] = r /\ UNCHANGED rows /\ clock \in Nat
        /\ \A d \in Client : d # c => request'[d].op = "idle"
    BY <2>1, AcceptStep DEF Others, Idle
  <2>3. AnswerStillTrue'
    BY <2>1, <2>2 DEF AnswerStillTrue, rows
  <2>4. \A a \in Attempt : attempt[a] # None =>
            attempt[a].completedAt \in Nat /\ attempt[a].completedAt < clock + 1
    BY <2>2, LearningConstants DEF BatchesDiffer, TypeOK, AttemptRow
  <2>5. CompleteStillTrue'
    BY <2>1, <2>2, <2>4 DEF CompleteStillTrue, rows
  <2>6. ProgressStillTrue'
    BY <2>1, <2>2 DEF ProgressStillTrue, rows
  <2> QED  BY <2>3, <2>5, <2>6
<1>4. ASSUME NEW c \in Client, ReplaceTrajectory(c)
      PROVE  AnswerStillTrue' /\ CompleteStillTrue' /\ ProgressStillTrue'
  <2>1. /\ Completes(c) /\ request'[c].op = "complete" /\ request'[c].deleted = item
        /\ request'[c].attempt = request[c].attempt /\ request'[c].at = request[c].at
        /\ Others(c) /\ UNCHANGED rows
    BY <1>4, ReplaceTrajectoryStep
  <2>2. \A d \in Client : d # c => request'[d].op = "idle"
    BY <2>1, ActsAlone DEF Others, Idle
  <2>3. AnswerStillTrue'
    BY <1>1, <2>1, <2>2 DEF AnswerStillTrue, rows
  <2>4. CompleteStillTrue'
    BY <1>1, <2>1, <2>2 DEF CompleteStillTrue, rows
  <2>5. ProgressStillTrue'
    BY <2>1, <2>2 DEF ProgressStillTrue
  <2> QED  BY <2>3, <2>4, <2>5
<1>5. ASSUME NEW c \in Client, FlushProgress(c)
      PROVE  AnswerStillTrue' /\ CompleteStillTrue' /\ ProgressStillTrue'
  <2>1. /\ Saves(c) /\ request'[c].op = "progress"
        /\ request'[c].lesson = request[c].lesson /\ request'[c].status = request[c].status
        /\ request'[c].loaded = request[c].loaded
        /\ request'[c].item \in Reached(request[c])
        /\ Others(c) /\ UNCHANGED rows
    BY <1>5, FlushProgressStep
  <2>2. \A d \in Client : d # c => request'[d].op = "idle"
    BY <2>1, ActsAlone DEF Others, Idle
  <2>3. Reached(request[c])' = Reached(request[c])
    BY <2>1 DEF rows, Reached, CourseCompleted, Completed, Active, FirstItems, Written
  <2>4. ProgressStillTrue'
    BY <1>1, <2>1, <2>2, <2>3 DEF ProgressStillTrue, rows
  <2>5. AnswerStillTrue' /\ CompleteStillTrue'
    BY <2>1, <2>2 DEF AnswerStillTrue, CompleteStillTrue
  <2> QED  BY <2>4, <2>5
<1>6. ASSUME NEW c \in Client, CommitAnswer(c) \/ CommitComplete(c) \/ CommitProgress(c) \/ Abort(c)
      PROVE  AnswerStillTrue' /\ CompleteStillTrue' /\ ProgressStillTrue'
  <2>1. request[c] # Idle
    BY <1>6 DEF CommitAnswer, CommitComplete, CommitProgress, Abort, Idle
  <2>2. request'[c] = Idle /\ Others(c)
    BY <1>6, CommitAnswerStep, CommitCompleteStep, CommitProgressStep, AbortStep
  <2> QED  BY <1>2, <2>1, <2>2, ActsAlone DEF Others
<1>7. ASSUME NEW a \in Attempt, StartAttempt(a)
      PROVE  AnswerStillTrue' /\ CompleteStillTrue' /\ ProgressStillTrue'
  BY <1>2, <1>7, StartAttemptStep
<1>8. ASSUME NEW l \in Lesson, SetArchived(l)
      PROVE  AnswerStillTrue' /\ CompleteStillTrue' /\ ProgressStillTrue'
  BY <1>2, <1>8, SetArchivedStep
<1>9. CASE UNCHANGED vars
  <2>1. \A c \in Client : Reached(request[c])' = Reached(request[c])
    BY <1>9 DEF vars, Reached, CourseCompleted, Completed, Active, FirstItems, Written
  <2>2. AnswerStillTrue' /\ CompleteStillTrue'
    BY <1>1, <1>9 DEF vars, AnswerStillTrue, CompleteStillTrue
  <2>3. ProgressStillTrue'
    BY <1>1, <1>9, <2>1 DEF vars, ProgressStillTrue
  <2> QED  BY <2>2, <2>3
<1> QED  BY <1>3, <1>4, <1>5, <1>6, <1>7, <1>8, <1>9 DEF Next

LEMMA OneTrajectoryPreserved == SerialInv /\ [Next]_vars /\ ~overlapped' => OneTrajectory'
<1> SUFFICES ASSUME SerialInv, [Next]_vars, ~overlapped' PROVE OneTrajectory'
  OBVIOUS
<1> USE DEF SerialInv, Completes, Saves
<1>1. ~overlapped /\ OneTrajectory /\ CompleteStillTrue
  BY AlonePreserved DEF Serial
<1>2. /\ \A i \in item : /\ i \in Item /\ i.attempt \in Attempt /\ attempt[i.attempt] # None
      /\ \A a \in Attempt : attempt[a] # None => attempt[a].completedAt \in Nat
  BY LearningConstants DEF TypeOK, Item, AttemptsExist, AttemptRow
<1>3. CASE UNCHANGED <<item, attempt>>
  BY <1>1, <1>3 DEF OneTrajectory, TrajectoryOfLatestResult
<1>4. ASSUME NEW c \in Client, CommitAnswer(c) PROVE OneTrajectory'
  <2>1. /\ item' = item
        /\ \A a \in Attempt : attempt[a] # None => attempt'[a].completedAt = attempt[a].completedAt
        /\ \A a \in Attempt : attempt'[a] # None => attempt[a] # None
    BY <1>4, CommitAnswerStep, NoneIsNoValue
  <2> QED  BY <1>1, <1>2, <2>1 DEF OneTrajectory, TrajectoryOfLatestResult
<1>5. ASSUME NEW c \in Client, CommitComplete(c) PROVE OneTrajectory'
  <2> DEFINE r == request[c]
  <2>1. /\ r.attempt \in Attempt /\ r.grades \in Grades /\ r.at \in 1..MaxRequests
        /\ attempt'[r.attempt].completedAt = r.at
        /\ \A b \in Attempt : b # r.attempt => attempt'[b] = attempt[b]
        /\ item' = (item \ r.deleted) \cup Trajectory(r.attempt, r.grades, r.at)
        /\ Completes(c) /\ r.flushed
    BY <1>5, CommitCompleteStep
  <2>2. /\ item' = Trajectory(r.attempt, r.grades, r.at)
        /\ \A b \in Attempt : attempt[b] # None => attempt[b].completedAt < r.at
    BY <1>1, <2>1 DEF CompleteStillTrue
  <2> HIDE DEF r
  <2>3. /\ \A i, j \in item' : i.priority = j.priority => i = j
        /\ \A i \in item' : i.attempt = r.attempt
    BY <2>1, <2>2, TrajectoryType
  <2>4. \A b \in Attempt : attempt'[b] # None => attempt'[b].completedAt <= r.at
    BY <1>2, <2>1, <2>2, LearningConstants
  <2> QED  BY <2>1, <2>3, <2>4 DEF OneTrajectory, TrajectoryOfLatestResult
<1>6. ASSUME NEW c \in Client, CommitProgress(c) PROVE OneTrajectory'
  <2>1. CASE request[c].item = None
    BY <1>3, <1>6, <2>1, CommitProgressStep
  <2>2. CASE request[c].item # None
    <3> DEFINE x == request[c].item
    <3>1. x \in item
      BY <1>6, <2>2, CommitProgressStep DEF RowsAreLocked, UpdatedIsOwned
    <3>2. PICK u : /\ item' = (item \ {x}) \cup {u}
                   /\ u.attempt = x.attempt /\ u.priority = x.priority
      BY <1>6, <2>2, CommitProgressStep, ApplyStep
    <3>3. attempt' = attempt
      BY <1>6, CommitProgressStep
    <3> HIDE DEF x
    <3>4. \A i, j \in item' : i.priority = j.priority => i = j
      BY <1>1, <3>1, <3>2 DEF OneTrajectory
    <3>5. TrajectoryOfLatestResult'
      BY <1>1, <3>1, <3>2, <3>3 DEF OneTrajectory, TrajectoryOfLatestResult
    <3> QED  BY <3>4, <3>5 DEF OneTrajectory
  <2> QED  BY <2>1, <2>2
<1>7. ASSUME NEW a \in Attempt, StartAttempt(a) PROVE OneTrajectory'
  <2>1. /\ attempt[a] = None /\ attempt'[a].completedAt = 0
        /\ \A b \in Attempt : b # a => attempt'[b] = attempt[b]
        /\ item' = item
    BY <1>7, StartAttemptStep
  <2> QED  BY <1>1, <1>2, <2>1 DEF OneTrajectory, TrajectoryOfLatestResult
<1>8. ASSUME NEW c \in Client, Check(c) PROVE UNCHANGED <<attempt, item>>
  BY <1>8, CheckStep DEF Accept, rows
<1> QED
  BY <1>3, <1>4, <1>5, <1>6, <1>7, <1>8
     DEF Next, vars, rows, ReplaceTrajectory, FlushProgress, Abort, SetArchived

LEMMA SerialPreserved == SerialInv /\ [Next]_vars => Serial'
BY AlonePreserved, StillTruePreserved, OneTrajectoryPreserved DEF Serial

-----------------------------------------------------------------------------
(* The invariant *)

LEMMA InvInitially == Init => LearningInv
<1> SUFFICES ASSUME Init PROVE LearningInv
  OBVIOUS
<1>1. TypeOK
  BY TypingInitially
<1>2. /\ item = {} /\ clock = 0 /\ \A c \in Client : request[c] = Idle
      /\ \A l \in Lesson : progress[l] = None
  BY DEF Init
<1>3. \A a \in Attempt : attempt[a] # None => attempt[a].completedAt = 0
  BY DEF Init, NewAttempt
<1>4. AttemptsExist /\ RowsAreLocked
  BY <1>2 DEF AttemptsExist, RowsAreLocked, OneRewrites, RewrittenIsDeleted, UpdatedIsOwned,
              Completes, Saves, Idle
<1>5. BatchesDiffer
  BY <1>2, <1>3 DEF BatchesDiffer, Completes, Idle
<1>6. TrajectoryMatchesScores /\ GlossaryUnlocked
  BY <1>2, NoneIsNoValue DEF TrajectoryMatchesScores, GlossaryUnlocked, Done
<1>7. Alone /\ AnswerStillTrue /\ CompleteStillTrue /\ ProgressStillTrue /\ OneTrajectory
  BY <1>2 DEF Alone, AnswerStillTrue, CompleteStillTrue, ProgressStillTrue, OneTrajectory,
              TrajectoryOfLatestResult, Completes, Saves, Idle
<1> QED  BY <1>1, <1>4, <1>5, <1>6, <1>7 DEF LearningInv, Serial

LEMMA InvPreserved == LearningInv /\ [Next]_vars => LearningInv'
BY TypingPreserved, AttemptsExistPreserved, RowsAreLockedPreserved, BatchesDifferPreserved,
   MatchPreserved, GlossaryPreserved, SerialPreserved
   DEF LearningInv, SerialInv

\* What the theorems below rest on holds throughout: rows that a request has
\* written and not committed are its own, and without overlap what it read stays.
THEOREM LearningInvariant == Spec => []LearningInv
<1>1. Init => LearningInv
  BY InvInitially
<1>2. LearningInv /\ [Next]_vars => LearningInv'
  BY InvPreserved
<1> QED  BY <1>1, <1>2, PTL DEF Spec

\* The rows of the learner keep their types, whatever is in flight.
THEOREM LearningTyped == Spec => []TypeOK
<1>1. LearningInv => TypeOK
  BY DEF LearningInv
<1> QED  BY <1>1, LearningInvariant, PTL

\* complete_attempt and apply_course_completion write trajectory and scores in
\* transactions that overlap in any way: every item still belongs to a completed
\* attempt that found its competency weak, and no completed item leaves a deficit.
THEOREM TrajectoryAlwaysMatches == Spec => []TrajectoryMatchesScores
<1>1. LearningInv => TrajectoryMatchesScores
  BY DEF LearningInv
<1> QED  BY <1>1, LearningInvariant, PTL

\* upsert_lesson_progress: a completed lesson has its glossary terms unlocked.
THEOREM GlossaryAlwaysUnlocked == Spec => []GlossaryUnlocked
<1>1. LearningInv => GlossaryUnlocked
  BY DEF LearningInv
<1> QED  BY <1>1, LearningInvariant, PTL

\* The two queries of the learner's page agree: the trajectory they show is that
\* of the latest completed attempt, as long as requests have not overlapped.
THEOREM TrajectoryOfLatest == Spec => []TrajectoryOfLatestResult
<1>1. LearningInv => TrajectoryOfLatestResult
  BY DEF LearningInv, Serial, OneTrajectory, TrajectoryOfLatestResult
<1> QED  BY <1>1, LearningInvariant, PTL

-----------------------------------------------------------------------------
(* What a step may do *)

LEMMA NewItemsAreRanked ==
    ASSUME LearningInv, NEW c \in Client, CommitComplete(c)
    PROVE  LET new == {i \in item' : \A j \in item : j.batch # i.batch} IN
           /\ \A i, j \in new : i.priority < j.priority =>
                 ~ (score'[i.attempt][i.competency] = "needs_practice"
                    /\ score'[j.attempt][j.competency] = "deficit")
           /\ \A a \in Attempt : score[a] # score'[a] /\ attempt'[a] # attempt[a] =>
                 \A l \in Link : score'[a][l.competency] # "strong" =>
                     \E i \in new : i.attempt = a /\ i.course = l.course
                                    /\ i.competency = l.competency
<1> DEFINE r == request[c]
           T == Trajectory(r.attempt, r.grades, r.at)
           new == {i \in item' : \A j \in item : j.batch # i.batch}
<1>1. /\ r.attempt \in Attempt /\ r.grades \in Grades /\ r.at \in 1..MaxRequests
      /\ \A b \in Attempt : b # r.attempt => attempt'[b] = attempt[b]
      /\ score'[r.attempt] = r.grades
      /\ item' = (item \ r.deleted) \cup T
      /\ \A i \in item : i.batch # r.at
  BY CommitCompleteStep DEF LearningInv, BatchesDiffer
<1> HIDE DEF r
<1>2. /\ \A i \in T : i \in Item /\ i.batch = r.at /\ i.attempt = r.attempt
      /\ \A i, j \in T : Severity(r.grades[i.competency]) < Severity(r.grades[j.competency])
                         => i.priority < j.priority
  BY <1>1, TrajectoryType
<1>3. new = T
  BY <1>1, <1>2
<1>4. ASSUME NEW i \in T, NEW j \in T, i.priority < j.priority,
             r.grades[i.competency] = "needs_practice", r.grades[j.competency] = "deficit"
      PROVE  FALSE
  <2>1. Severity(r.grades[j.competency]) < Severity(r.grades[i.competency])
    BY <1>4 DEF Severity
  <2>2. i.priority \in Nat /\ j.priority \in Nat
    BY <1>2 DEF Item
  <2> QED  BY <1>2, <1>4, <2>1, <2>2
<1>5. ASSUME NEW l \in Link, r.grades[l.competency] # "strong"
      PROVE  \E i \in T : i.attempt = r.attempt /\ i.course = l.course
                          /\ i.competency = l.competency
  <2>1. l \in Candidates(r.grades)
    BY <1>5 DEF Candidates
  <2> DEFINE u == [batch |-> r.at, attempt |-> r.attempt, course |-> l.course,
                   competency |-> l.competency, priority |-> Place(r.grades, l),
                   status |-> "recommended"]
  <2>2. u \in T
    BY <1>1, <2>1, TrajectoryItems
  <2>3. u.attempt = r.attempt /\ u.course = l.course /\ u.competency = l.competency
    OBVIOUS
  <2> QED  BY <2>2, <2>3
<1> HIDE DEF T, new
<1>6. \A i, j \in new : i.priority < j.priority =>
          ~ (score'[i.attempt][i.competency] = "needs_practice"
             /\ score'[j.attempt][j.competency] = "deficit")
  BY <1>1, <1>2, <1>3, <1>4
<1>7. \A a \in Attempt : score[a] # score'[a] /\ attempt'[a] # attempt[a] =>
          \A l \in Link : score'[a][l.competency] # "strong" =>
              \E i \in new : i.attempt = a /\ i.course = l.course /\ i.competency = l.competency
  BY <1>1, <1>3, <1>5
<1> QED  BY <1>6, <1>7 DEF new

\* rank_trajectory_candidates and _regenerate_trajectory: a trajectory, when it
\* appears, holds each course that teaches a weak competency, deficits first.
THEOREM NewTrajectoryIsRanked == Spec => RecommendsWhatIsWeak
<1> DEFINE new == {i \in item' : \A j \in item : j.batch # i.batch}
           Ranked ==
               \A i, j \in new : i.priority < j.priority =>
                   ~ (score'[i.attempt][i.competency] = "needs_practice"
                      /\ score'[j.attempt][j.competency] = "deficit")
           Complete ==
               \A a \in Attempt : score[a] # score'[a] /\ attempt'[a] # attempt[a] =>
                   \A l \in Link : score'[a][l.competency] # "strong" =>
                       \E i \in new : i.attempt = a /\ i.course = l.course
                                      /\ i.competency = l.competency
<1>1. LearningInv /\ [Next]_vars => [Ranked /\ Complete]_vars
  <2> SUFFICES ASSUME LearningInv, Next PROVE Ranked /\ Complete
    BY DEF vars
  <2>1. ASSUME NEW c \in Client, CommitComplete(c) PROVE Ranked /\ Complete
    BY <2>1, NewItemsAreRanked
  <2>2. ASSUME NEW c \in Client, CommitProgress(c) PROVE Ranked /\ Complete
    <3>1. attempt' = attempt /\ Saves(c)
      BY <2>2, CommitProgressStep DEF LearningInv
    <3>2. \A i \in item' : \E j \in item : j.batch = i.batch
      <4>1. CASE request[c].item = None
        BY <2>2, <4>1, CommitProgressStep DEF LearningInv
      <4>2. CASE request[c].item # None
        <5>1. PICK u : /\ item' = (item \ {request[c].item}) \cup {u}
                       /\ u.batch = request[c].item.batch
          BY <2>2, <4>2, CommitProgressStep, ApplyStep DEF LearningInv
        <5>2. request[c].item \in item
          BY <3>1, <4>2 DEF LearningInv, RowsAreLocked, UpdatedIsOwned
        <5> QED  BY <5>1, <5>2
      <4> QED  BY <4>1, <4>2
    <3> QED  BY <3>1, <3>2
  <2>3. CASE item' = item /\ (score' = score \/ attempt' = attempt)
    <3>1. new = {}
      BY <2>3
    <3> QED  BY <2>3, <3>1
  <2>4. ASSUME NEW c \in Client, CommitAnswer(c) PROVE Ranked /\ Complete
    BY <2>3, <2>4, CommitAnswerStep DEF LearningInv
  <2>5. ASSUME NEW c \in Client, Check(c) PROVE Ranked /\ Complete
    BY <2>3, <2>5, CheckStep DEF LearningInv, Accept, rows
  <2> HIDE DEF Ranked, Complete
  <2> QED
    BY <2>1, <2>2, <2>3, <2>4, <2>5
       DEF Next, rows, ReplaceTrajectory, FlushProgress, Abort, StartAttempt, SetArchived
<1> QED  BY <1>1, LearningInvariant, PTL DEF Spec, RecommendsWhatIsWeak

\* A request that saves the last active lesson of a course has counted it.
LEMMA LastLessonIsCounted ==
    ASSUME LearningInv, NEW c \in Client, Saves(c), ~overlapped, request[c].flushed,
           request[c].lesson \in Lesson, request[c].status = "completed",
           NEW p \in [Lesson -> {None} \cup Done], p = Written(request[c]),
           Active(CourseOf[request[c].lesson]) # {},
           Active(CourseOf[request[c].lesson]) \subseteq Completed(p, CourseOf[request[c].lesson])
    PROVE  IF FirstItems(CourseOf[request[c].lesson]) = {} THEN request[c].item = None
           ELSE request[c].item \in FirstItems(CourseOf[request[c].lesson])
<1> DEFINE x == CourseOf[request[c].lesson]
<1>1. request[c].item \in Reached(request[c])
  BY DEF LearningInv, Serial, ProgressStillTrue
<1>2. CourseCompleted(Written(request[c]), x)
  <2>1. IsFiniteSet(Completed(p, x)) /\ Active(x) \subseteq Completed(p, x)
    BY LearningConstants, FS_Subset DEF Completed
  <2>2. IsFiniteSet(Active(x)) /\ Cardinality(Active(x)) <= Cardinality(Completed(p, x))
    BY <2>1, FS_Subset
  <2>3. Cardinality(Active(x)) \in Nat /\ Cardinality(Completed(p, x)) \in Nat
    BY <2>1, <2>2, FS_CardinalityType
  <2> HIDE DEF x
  <2>4. Cardinality(Completed(p, x)) >= Cardinality(Active(x))
    BY <2>2, <2>3
  <2> QED  BY <2>4 DEF CourseCompleted, x
<1> QED  BY <1>1, <1>2 DEF Reached

\* upsert_lesson_progress, apply_course_completion: as long as requests have not
\* overlapped, the request that leaves no active lesson of a course undone
\* completes the first item of that course in the trajectory.
THEOREM CompletionReaches == Spec => CompletionReachesTrajectory
<1> DEFINE Counted ==
        ~overlapped' =>
            \A l \in Lesson :
                LET x == CourseOf[l] IN
                progress[l] # "completed" /\ progress'[l] = "completed"
                /\ Active(x) # {} /\ Active(x) \subseteq Completed(progress', x)
                => \A i \in FirstItems(x)' : i.status = "completed"
<1>1. LearningInv /\ [Next]_vars => [Counted]_vars
  <2> SUFFICES ASSUME LearningInv, Next PROVE Counted
    BY DEF vars
  <2>1. CASE progress' = progress
    BY <2>1
  <2>2. ASSUME NEW c \in Client, CommitProgress(c) PROVE Counted
    <3> SUFFICES ASSUME ~overlapped', NEW l \in Lesson,
                        progress[l] # "completed", progress'[l] = "completed",
                        Active(CourseOf[l]) # {},
                        Active(CourseOf[l]) \subseteq Completed(progress', CourseOf[l]),
                        NEW i \in FirstItems(CourseOf[l])'
                 PROVE  i.status = "completed"
      OBVIOUS
    <3> DEFINE r == request[c]
               x == CourseOf[l]
    <3>1. /\ r \in ProgressRequest /\ Saves(c) /\ r.flushed /\ r.lesson \in Lesson
          /\ progress'[r.lesson] = Flush(r.loaded, r.status, progress[r.lesson])
          /\ \A m \in Lesson : m # r.lesson => progress'[m] = progress[m]
          /\ r.item # None => r.item \in Item /\ ApplyCourseCompletion(r.item)
          /\ r.item = None => item' = item
          /\ ~overlapped
      BY <2>2, CommitProgressStep DEF LearningInv
    <3>2. l = r.lesson /\ r.status = "completed"
      BY <3>1 DEF Flush
    <3>3. progress' \in [Lesson -> {None} \cup Done] /\ progress' = Written(r)
      BY <2>2, InvPreserved DEF LearningInv, TypeOK, CommitProgress, Written
    <3>4. IF FirstItems(x) = {} THEN r.item = None ELSE r.item \in FirstItems(x)
      BY <3>1, <3>2, <3>3, LastLessonIsCounted
    <3>5. i \in item' /\ i.course = x
          /\ \A j \in item' : j.course = x => i.priority <= j.priority
      BY DEF FirstItems
    <3> HIDE DEF r, x
    <3>6. \A j \in item : j.priority \in Nat
      BY DEF LearningInv, TypeOK, Item
    <3>7. CASE FirstItems(x) = {}
      <4>1. item' = item
        BY <3>1, <3>4, <3>7, NoneIsNoValue DEF LearningInv
      <4> QED  BY <3>5, <3>7, <4>1 DEF FirstItems
    <3>8. CASE r.item \in FirstItems(x)
      <4>1. r.item \in item /\ r.item.course = x /\ r.item # None
            /\ \A j \in item : j.course = x => r.item.priority <= j.priority
        BY <3>8, NoneIsNoValue DEF FirstItems, LearningInv, TypeOK
      <4>2. PICK u : /\ item' = (item \ {r.item}) \cup {u}
                     /\ u.course = r.item.course /\ u.priority = r.item.priority
                     /\ u.status = "completed"
        BY <3>1, <4>1, ApplyStep DEF LearningInv
      <4>3. i # u => i \in item /\ i # r.item /\ i.priority <= r.item.priority
        BY <3>5, <4>1, <4>2
      <4>4. i # u => i.priority = r.item.priority
        BY <3>5, <3>6, <4>1, <4>3
      <4>5. \A j, k \in item : j.priority = k.priority => j = k
        BY <3>1 DEF LearningInv, Serial, OneTrajectory
      <4> QED  BY <4>1, <4>2, <4>3, <4>4, <4>5
    <3> QED  BY <3>4, <3>7, <3>8
  <2>3. ASSUME NEW c \in Client, Check(c) PROVE progress' = progress
    BY <2>3, CheckStep DEF LearningInv, Accept, rows
  <2> HIDE DEF Counted
  <2> QED
    BY <2>1, <2>2, <2>3
       DEF Next, rows, CommitAnswer, ReplaceTrajectory, CommitComplete, FlushProgress, Abort,
           StartAttempt, SetArchived
<1> QED  BY <1>1, LearningInvariant, PTL DEF Spec, CompletionReachesTrajectory

\* "Diagnostic attempt is already completed": as long as requests have not
\* overlapped, answers and grades of a completed attempt are final, but for the
\* deficits that completed courses lift.
THEOREM ResultsAreFinal == Spec => ResultIsFinal
<1> DEFINE Final ==
        ~overlapped' =>
            \A a \in Attempt : attempt[a] # None /\ attempt[a].status = "completed" =>
                /\ attempt'[a] = attempt[a]
                /\ \A k \in Competency : score'[a][k] # score[a][k] =>
                      score[a][k] = "deficit" /\ score'[a][k] = "needs_practice"
<1>1. LearningInv /\ [Next]_vars => [Final]_vars
  <2> SUFFICES ASSUME LearningInv, Next PROVE Final
    BY DEF vars
  <2>1. CASE UNCHANGED <<attempt, score>>
    BY <2>1
  <2>2. ASSUME NEW c \in Client, CommitAnswer(c) \/ CommitComplete(c) PROVE Final
    <3>1. /\ overlapped' = overlapped
          /\ request[c].op \in {"answer", "complete"} /\ request[c].attempt \in Attempt
          /\ \A b \in Attempt : b # request[c].attempt =>
                 attempt'[b] = attempt[b] /\ score'[b] = score[b]
      BY <2>2, CommitAnswerStep, CommitCompleteStep DEF LearningInv, Completes
    <3>2. ~overlapped => attempt[request[c].attempt].status = "in_progress"
      BY <3>1 DEF LearningInv, Serial, AnswerStillTrue
    <3> QED  BY <3>1, <3>2
  <2>3. ASSUME NEW c \in Client, CommitProgress(c) PROVE Final
    <3>1. attempt' = attempt /\ (request[c].item = None => score' = score)
      BY <2>3, CommitProgressStep DEF LearningInv
    <3>2. CASE request[c].item # None
      <4> DEFINE x == request[c].item
      <4>1. /\ x.attempt \in Attempt /\ x.competency \in Competency
            /\ score'[x.attempt][x.competency] =
                  IF score[x.attempt][x.competency] = "deficit" THEN "needs_practice"
                  ELSE score[x.attempt][x.competency]
            /\ \A b \in Attempt, k \in Competency :
                  b # x.attempt \/ k # x.competency => score'[b][k] = score[b][k]
        BY <2>3, <3>2, CommitProgressStep, ApplyStep DEF LearningInv
      <4> HIDE DEF x
      <4> QED  BY <3>1, <4>1
    <3> QED  BY <2>1, <3>1, <3>2
  <2>4. ASSUME NEW a \in Attempt, StartAttempt(a) PROVE Final
    BY <2>4, StartAttemptStep DEF LearningInv
  <2>5. ASSUME NEW c \in Client, Check(c) PROVE UNCHANGED <<attempt, score>>
    BY <2>5, CheckStep DEF LearningInv, Accept, rows
  <2> HIDE DEF Final
  <2> QED
    BY <2>1, <2>2, <2>3, <2>4, <2>5
       DEF Next, rows, ReplaceTrajectory, FlushProgress, Abort, SetArchived
<1> QED  BY <1>1, LearningInvariant, PTL DEF Spec, ResultIsFinal
=============================================================================

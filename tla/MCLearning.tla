---------------------------- MODULE MCLearning ------------------------------
EXTENDS LearningPath, TLC

CONSTANTS l1, l2, q1, q2, q3, a1, a2, c1, c2

\* Course 1 has two lessons and teaches both competencies, the first as
\* practice; course 2 teaches the second, and has no lessons yet.
MCCourseOf == l1 :> 1 @@ l2 :> 1
MCCompetencyOf == q1 :> 1 @@ q2 :> 1 @@ q3 :> 2
MCLink ==
    {[course |-> 1, competency |-> 1, type |-> "practice"],
     [course |-> 1, competency |-> 2, type |-> "additional"],
     [course |-> 2, competency |-> 2, type |-> "foundation"]}

Symmetry ==
    Permutations({l1, l2}) \cup Permutations({q1, q2}) \cup Permutations({a1, a2})
    \cup Permutations({c1, c2})
=============================================================================

SPECIFICATION Spec
CONSTANTS
    l1 = l1
    l2 = l2
    q1 = q1
    q2 = q2
    q3 = q3
    a1 = a1
    a2 = a2
    c1 = c1
    c2 = c2
    Lesson = {l1, l2}
    Course = {1, 2}
    CourseOf <- MCCourseOf
    Question = {q1, q2, q3}
    CompetencyOf <- MCCompetencyOf
    Link <- MCLink
    Attempt = {a1, a2}
    Client = {c1, c2}
    MaxRequests = 4
    None = None
SYMMETRY Symmetry
INVARIANTS
    TrajectoryMatchesScores
    GlossaryUnlocked
    TrajectoryOfLatestResult
PROPERTIES
    RecommendsWhatIsWeak
    CompletionReachesTrajectory
CHECK_DEADLOCK FALSE

-------------------------- MODULE ReleaseLifecycle --------------------------
(***************************************************************************)
(* The releases of one course, from the course builder through moderation  *)
(* to the bundle that learners download (backend catalog and moderation).  *)
(*                                                                         *)
(* Every HTTP request runs in its own database transaction, in a thread of *)
(* its own.  It first SELECTs the rows its checks need, then flushes and   *)
(* commits; nothing locks the rows in between and no row has a version     *)
(* column, so two requests may act on the same snapshot.  A request is     *)
(* therefore two or three actions here: a check, which takes the snapshot  *)
(* and either fails with an HTTP error (no step) or goes on, and a commit. *)
(***************************************************************************)
EXTENDS Naturals, Sequences, SequencesExt

CONSTANTS
    Version,      \* version strings of the course's releases
    Client,       \* request handlers that may be in flight together
    MaxRequests,  \* bound: requests accepted in a behaviour
    NoRelease     \* no row has this version

VARIABLES
    course,   \* courses.status, or "deleted" when the row is gone
    release,  \* course_releases: the row of each version
    history,  \* release_status_history of each version, oldest first
    reviews,  \* release_reviews.decision of each version, oldest first
    request,  \* what each handler has read and is about to write
    clock     \* wall clock: one tick per accepted request

vars == <<course, release, history, reviews, request, clock>>
rows == <<course, release, history, reviews>>

Status == {"draft", "pending_review", "rejected", "published"}
CourseStatus == {"draft", "active", "archived"}

\* published_at is NULL
Never == 0

ReleaseRow == [status : Status, publishedAt : 0..MaxRequests]

ASSUME ReleaseConstants ==
    /\ MaxRequests \in Nat
    /\ NoRelease \notin ReleaseRow

HistoryEntry == [from : Status, to : Status]

ReviewOp == {"submit", "approve", "reject", "resubmit"}

\* The status a moderation operation demands, and the one it writes.
Expected(op) ==
    CASE op = "submit" -> "draft"
      [] op = "approve" -> "pending_review"
      [] op = "reject" -> "pending_review"
      [] op = "resubmit" -> "rejected"
Target(op) ==
    CASE op = "submit" -> "pending_review"
      [] op = "approve" -> "published"
      [] op = "reject" -> "rejected"
      [] op = "resubmit" -> "pending_review"

Idle == [op |-> "idle"]

\* "unread": the transaction has not read courses.status yet
CreateRequest ==
    [op : {"create"}, version : Version, status : {"draft", "published"},
     course : CourseStatus, at : 1..MaxRequests]
    \cup [op : {"publish"}, version : Version, status : {"published"},
           course : CourseStatus, at : 1..MaxRequests]
    \cup [op : {"submit_course"}, version : Version, status : {"pending_review"},
           course : CourseStatus, at : 1..MaxRequests]
ReviewRequest ==
    [op : ReviewOp, version : Version,
     course : CourseStatus \cup {"unread"}, at : 1..MaxRequests]
RollbackRequest ==
    [op : {"rollback"}, version : Version, row : ReleaseRow, course : CourseStatus]
CourseRequest ==
    [op : {"update", "delete"}, course : CourseStatus, status : CourseStatus]

Request == CreateRequest \cup ReviewRequest \cup RollbackRequest \cup CourseRequest

TypeOK ==
    /\ course \in CourseStatus \cup {"deleted"}
    /\ release \in [Version -> ReleaseRow \cup {NoRelease}]
    /\ history \in [Version -> Seq(HistoryEntry)]
    /\ reviews \in [Version -> Seq(ReviewOp)]
    /\ request \in [Client -> Request \cup {Idle}]
    /\ clock \in 0..MaxRequests

Init ==
    /\ course \in CourseStatus
    /\ release = [v \in Version |-> NoRelease]
    /\ history = [v \in Version |-> <<>>]
    /\ reviews = [v \in Version |-> <<>>]
    /\ request = [c \in Client |-> Idle]
    /\ clock = 0

-----------------------------------------------------------------------------
(* The session *)

Exists(v) == release[v] # NoRelease

Published == {v \in Version : Exists(v) /\ release[v].status = "published"}

\* Slip: ascending order.
ServedOldest ==
    IF Published = {} THEN NoRelease
    ELSE CHOOSE v \in Published :
            \A w \in Published : release[w].publishedAt >= release[v].publishedAt

\* get_latest_published_release: newest published_at first, NULL last.
Served ==
    IF Published = {} THEN NoRelease
    ELSE CHOOSE v \in Published :
            \A w \in Published : release[w].publishedAt <= release[v].publishedAt

\* The unit of work writes a column only when the value assigned to it is not
\* the one the transaction loaded; otherwise the row keeps what others wrote.
Flush(loaded, assigned, current) == IF assigned = loaded THEN current ELSE assigned

\* approve_release flushes its UPDATE before it reads the course, and the row
\* stays locked until the transaction ends.
Locks(r, v) == r.op = "approve" /\ r.version = v /\ r.course # "unread"
Locked(v) == \E c \in Client : Locks(request[c], v)

Accept(c, r) ==
    /\ request[c] = Idle
    /\ clock < MaxRequests
    /\ clock' = clock + 1
    /\ request' = [request EXCEPT ![c] = r]
    /\ UNCHANGED rows

Finish(c) ==
    /\ request' = [request EXCEPT ![c] = Idle]
    /\ UNCHANGED clock

\* A failed constraint, an UPDATE that finds no row, a dropped connection or a
\* crash: get_db rolls the transaction back.
Abort(c) ==
    /\ request[c] # Idle
    /\ Finish(c)
    /\ UNCHANGED rows

-----------------------------------------------------------------------------
(* New releases *)

Creation(op, v, s) ==
    [op |-> op, version |-> v, status |-> s, course |-> course, at |-> clock + 1]

CheckCreate(c, v) ==
    /\ course # "deleted"
    /\ ~Exists(v)
    /\ \E s \in {"draft", "published"} : Accept(c, Creation("create", v, s))

CheckPublish(c, v) ==
    /\ course \notin {"deleted", "archived"}
    /\ ~Exists(v)
    /\ Accept(c, Creation("publish", v, "published"))

CheckSubmitCourse(c, v) ==
    /\ course \notin {"deleted", "archived"}
    /\ ~Exists(v)
    /\ Accept(c, Creation("submit_course", v, "pending_review"))

CommitCreateEffect(r) ==
    /\ release' = [release EXCEPT ![r.version] =
           [status |-> r.status,
            publishedAt |-> IF r.status = "published" THEN r.at ELSE Never]]
    /\ course' = IF r.status = "published" /\ r.course # "archived"
                 THEN Flush(r.course, "active", course)
                 ELSE course
    /\ history' = IF r.op = "submit_course"
                  THEN [history EXCEPT ![r.version] =
                           Append(@, [from |-> "draft", to |-> "pending_review"])]
                  ELSE history
    /\ UNCHANGED reviews

\* Slips: no foreign key; no unique constraint on the version.
CommitCreateOrphan(c) ==
    LET r == request[c] IN
    /\ r.op \in {"create", "publish", "submit_course"}
    /\ ~Exists(r.version)
    /\ CommitCreateEffect(r)
    /\ Finish(c)
CommitCreateOver(c) ==
    LET r == request[c] IN
    /\ r.op \in {"create", "publish", "submit_course"}
    /\ course # "deleted"
    /\ CommitCreateEffect(r)
    /\ Finish(c)

\* Inserting the row needs the course (foreign key) and a free version
\* (uq_course_release_version); the course goes live with a published release.
CommitCreate(c) ==
    LET r == request[c] IN
    /\ r.op \in {"create", "publish", "submit_course"}
    /\ course # "deleted"
    /\ ~Exists(r.version)
    /\ CommitCreateEffect(r)
    /\ Finish(c)

-----------------------------------------------------------------------------
(* Moderation *)

\* Slip: the status is not checked.
CheckReviewAnyStatus(c, v, op) ==
    /\ Exists(v)
    /\ Accept(c, [op |-> op, version |-> v, course |-> "unread", at |-> clock + 1])

CheckReview(c, v, op) ==
    /\ Exists(v)
    /\ release[v].status = Expected(op)
    /\ Accept(c, [op |-> op, version |-> v, course |-> "unread", at |-> clock + 1])

\* The flush of approve_release: the row is locked, then the course is read.
ReadCourse(c) ==
    LET r == request[c] IN
    /\ r.op = "approve"
    /\ r.course = "unread"
    /\ Exists(r.version)
    /\ ~Locked(r.version)
    /\ request' = [request EXCEPT ![c].course = course]
    /\ UNCHANGED <<rows, clock>>

\* The review and the history entry are inserted with the status the check saw.
Record(r) ==
    /\ history' = [history EXCEPT ![r.version] =
           Append(@, [from |-> Expected(r.op), to |-> Target(r.op)])]
    /\ reviews' = [reviews EXCEPT ![r.version] = Append(@, r.op)]

\* Slip: the course is activated whatever its status.
CommitApproveActivates(c) ==
    LET r == request[c] IN
    /\ r.op = "approve"
    /\ r.course # "unread"
    /\ release' = [release EXCEPT ![r.version] =
           [status |-> "published", publishedAt |-> r.at]]
    /\ course' = Flush(r.course, "active", course)
    /\ Record(r)
    /\ Finish(c)

CommitApprove(c) ==
    LET r == request[c] IN
    /\ r.op = "approve"
    /\ r.course # "unread"
    /\ release' = [release EXCEPT ![r.version] =
           [status |-> "published", publishedAt |-> r.at]]
    /\ course' = IF r.course # "archived"
                 THEN Flush(r.course, "active", course)
                 ELSE course
    /\ Record(r)
    /\ Finish(c)

\* Slip: the transition is not recorded.
CommitReviewUnrecorded(c) ==
    LET r == request[c] IN
    /\ r.op \in ReviewOp \ {"approve"}
    /\ Exists(r.version)
    /\ ~Locked(r.version)
    /\ release' = [release EXCEPT ![r.version].status = Target(r.op)]
    /\ Finish(c)
    /\ UNCHANGED <<course, history, reviews>>

CommitReview(c) ==
    LET r == request[c] IN
    /\ r.op \in ReviewOp \ {"approve"}
    /\ Exists(r.version)
    /\ ~Locked(r.version)
    /\ release' = [release EXCEPT ![r.version].status = Target(r.op)]
    /\ Record(r)
    /\ Finish(c)
    /\ UNCHANGED course

-----------------------------------------------------------------------------
(* Rollback to a release, whatever its status: it goes back to moderation  *)
(* and the draft structure is rebuilt from its screens.                    *)

CheckRollback(c, v) ==
    /\ Exists(v)
    /\ course # "deleted"
    /\ Accept(c, [op |-> "rollback", version |-> v,
                  row |-> release[v], course |-> course])

\* Slip: published_at survives the recall.
CommitRollbackDated(c) ==
    LET r == request[c] IN
    /\ r.op = "rollback"
    /\ Exists(r.version)
    /\ ~Locked(r.version)
    /\ release' = [release EXCEPT ![r.version].status =
           Flush(r.row.status, "pending_review", @)]
    /\ course' = Flush(r.course, "active", course)
    /\ UNCHANGED <<history, reviews>>
    /\ Finish(c)

CommitRollback(c) ==
    LET r == request[c] IN
    /\ r.op = "rollback"
    /\ Exists(r.version)
    /\ ~Locked(r.version)
    /\ release' = [release EXCEPT ![r.version] =
           [status |-> Flush(r.row.status, "pending_review", @.status),
            publishedAt |-> Flush(r.row.publishedAt, Never, @.publishedAt)]]
    /\ course' = Flush(r.course, "active", course)
    /\ UNCHANGED <<history, reviews>>
    /\ Finish(c)

-----------------------------------------------------------------------------
(* The course itself *)

CheckUpdateCourse(c, s) ==
    /\ course # "deleted"
    /\ Accept(c, [op |-> "update", course |-> course, status |-> s])

CommitUpdateCourse(c) ==
    LET r == request[c] IN
    /\ r.op = "update"
    /\ course # "deleted"
    /\ course' = Flush(r.course, r.status, course)
    /\ UNCHANGED <<release, history, reviews>>
    /\ Finish(c)

CheckDeleteCourse(c) ==
    /\ course = "archived"
    /\ Accept(c, [op |-> "delete", course |-> course, status |-> course])

\* The releases, their histories and reviews go with the course (CASCADE).
CommitDeleteCourse(c) ==
    /\ request[c].op = "delete"
    /\ \A v \in Version : ~Locked(v)
    /\ course' = "deleted"
    /\ release' = [v \in Version |-> NoRelease]
    /\ history' = [v \in Version |-> <<>>]
    /\ reviews' = [v \in Version |-> <<>>]
    /\ Finish(c)

-----------------------------------------------------------------------------
Check(c) ==
    \/ \E v \in Version :
          \/ CheckCreate(c, v)
          \/ CheckPublish(c, v)
          \/ CheckSubmitCourse(c, v)
          \/ \E op \in ReviewOp : CheckReview(c, v, op)
          \/ CheckRollback(c, v)
    \/ \E s \in CourseStatus : CheckUpdateCourse(c, s)
    \/ CheckDeleteCourse(c)

Commit(c) ==
    \/ CommitCreate(c)
    \/ ReadCourse(c)
    \/ CommitApprove(c)
    \/ CommitReview(c)
    \/ CommitRollback(c)
    \/ CommitUpdateCourse(c)
    \/ CommitDeleteCourse(c)

Next == \E c \in Client : Check(c) \/ Commit(c) \/ Abort(c)

Spec == Init /\ [][Next]_vars

-----------------------------------------------------------------------------
(* What holds however requests interleave *)

\* The newest history entry of a release explains its status: a rejected
\* release was rejected by its newest entry, a published one that has been
\* through moderation was approved by it, and a draft has no entry at all.
\* Two moderators deciding on the same snapshot must not leave the row and
\* the history (approve_release, _transition_release) telling different stories.
DecisionOnRecord ==
    \A v \in Version : Exists(v) =>
        /\ release[v].status = "draft" => history[v] = <<>>
        /\ release[v].status = "rejected" => history[v] # <<>>
        /\ release[v].status \in {"rejected", "published"} /\ history[v] # <<>>
               => Last(history[v]).to = release[v].status

\* delete_course cascades: whatever was in flight when the course went, no
\* release outlives it, and no history or review exists without its release.
NothingOutlivesCourse ==
    /\ course = "deleted" => \A v \in Version : ~Exists(v)
    /\ \A v \in Version : ~Exists(v) => history[v] = <<>> /\ reviews[v] = <<>>

\* The row lock of an approval keeps the deletion of the course out: what the
\* approval is about to commit is still there.
LockedRowExists == \A v \in Version : Locked(v) => Exists(v)

\* A version is never created over an existing release, whoever else passed
\* the "already exists" check: nothing returns to draft, and the history and
\* the reviews of a release only grow while the course exists.
TrailOnlyGrows ==
    [][\A v \in Version : Exists(v) /\ Exists(v)' =>
          /\ IsPrefix(history[v], history'[v])
          /\ IsPrefix(reviews[v], reviews'[v])
          /\ release'[v].status = "draft" => release[v].status = "draft"]_vars

\* An archived course becomes active by an edit, by a rollback, or by a request
\* that read the course before it was archived; approve_release, create_release
\* and publish_course leave alone a course they saw archived.
ArchivedStaysArchived ==
    [][course = "archived" /\ course' = "active" =>
          \E c \in Client : /\ request'[c] = Idle
                            /\ \/ request[c].op \in {"update", "rollback"}
                               \/ request[c].op # "idle" /\ request[c].course # "archived"]_vars

-----------------------------------------------------------------------------
(* What holds when requests do not overlap (one Client) *)

\* get_latest_published_release orders by published_at: exactly the published
\* releases carry one.
PublishedIffDated ==
    \A v \in Version : Exists(v) =>
        (release[v].status = "published" <=> release[v].publishedAt # Never)

\* What is published is what learners get: a release becomes the latest bundle
\* in the step that publishes it (publish_course, create_release, and
\* approve_release, whose date may be given to an older version), and an edit of
\* anything else never changes which published bundle is the latest.
PublishingServes ==
    [][\A v \in Published' \ Published : Served' = v]_vars

-----------------------------------------------------------------------------
(* What the code says of itself, and does not keep *)

\* reject_release: "Invalid status transition: expected 'pending_review'".
\* Only a release that is pending review is ever turned down.
RejectsOnlyPending ==
    [][\A v \in Version : Exists(v) /\ Exists(v)' /\ release'[v].status = "rejected"
          => release[v].status \in {"pending_review", "rejected"}]_vars

\* The catalog router records a history entry "so the release is traceable in
\* the queue": the newest entry of a release in the moderation queue says how
\* it got there.
QueueTraceable ==
    \A v \in Version : Exists(v) /\ release[v].status = "pending_review" =>
        /\ history[v] # <<>>
        /\ Last(history[v]).to = "pending_review"
=============================================================================

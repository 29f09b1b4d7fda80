----------------------- MODULE ReleaseLifecycleProofs -----------------------
(***************************************************************************)
(* Safety of ReleaseLifecycle for any number of versions, of concurrent    *)
(* handlers and of requests.  The inductive invariant is the conjunction   *)
(* of the type invariant and the two checked ones: a decision can only be  *)
(* matched to its history entry because a release that does not exist has  *)
(* no history, and an approval can only read the status of its course      *)
(* because no release outlives the course.                                 *)
(***************************************************************************)
EXTENDS ReleaseLifecycle, SequenceTheorems, TLAPS

IInv ==
    /\ TypeOK
    /\ NothingOutlivesCourse
    /\ DecisionOnRecord
    /\ LockedRowExists

USE DEF Status, CourseStatus, Never, Idle, ReviewOp

\* The newest element of a sequence just appended to.
LEMMA LastOfAppend ==
    ASSUME NEW S, NEW s \in Seq(S), NEW e \in S
    PROVE  /\ Append(s, e) \in Seq(S)
           /\ Append(s, e) # <<>>
           /\ Last(Append(s, e)) = e
BY DEF Last

\* The operation of a request in flight tells which columns it has read.
LEMMA RequestKinds ==
    ASSUME NEW r \in Request \cup {Idle}
    PROVE  /\ r.op \in {"create", "publish", "submit_course"} => r \in CreateRequest
           /\ r.op \in ReviewOp => r \in ReviewRequest
           /\ r.op = "rollback" => r \in RollbackRequest
           /\ r.op \in {"update", "delete"} => r \in CourseRequest
<1>1. CASE r \in CreateRequest
  <2> r.op \in {"create", "publish", "submit_course"} BY <1>1 DEF CreateRequest
  <2> QED BY <1>1
<1>2. CASE r \in ReviewRequest
  <2> r.op \in ReviewOp BY <1>2 DEF ReviewRequest
  <2> QED BY <1>2
<1>3. CASE r \in RollbackRequest
  <2> r.op = "rollback" BY <1>3 DEF RollbackRequest
  <2> QED BY <1>3
<1>4. CASE r \in CourseRequest
  <2> r.op \in {"update", "delete"} BY <1>4 DEF CourseRequest
  <2> QED BY <1>4
<1>5. CASE r = Idle
  BY <1>5
<1> QED BY <1>1, <1>2, <1>3, <1>4, <1>5 DEF Request

\* Locked rows stay when no row goes and no handler takes a lock.
LEMMA LocksKept ==
    ASSUME LockedRowExists, NEW c \in Client,
           \A v \in Version : Exists(v) => Exists(v)',
           \A d \in Client \ {c} : request'[d] = request[d],
           \A v \in Version : Locks(request'[c], v) => Locks(request[c], v)
    PROVE  LockedRowExists'
BY DEF LockedRowExists, Locked

LEMMA Initially == Init => IInv
BY ReleaseConstants DEF Init, IInv, TypeOK, NothingOutlivesCourse, DecisionOnRecord,
   LockedRowExists, Locked, Locks, Exists

-----------------------------------------------------------------------------
\* Accepting a request changes no row.
LEMMA AcceptStep ==
    ASSUME IInv, NEW c \in Client, NEW r \in Request, Accept(c, r),
           \A v \in Version : ~Locks(r, v)
    PROVE  IInv'
<1> USE ReleaseConstants DEF Accept, rows
<1>1. TypeOK'
  BY DEF IInv, TypeOK
<1>2. NothingOutlivesCourse' /\ DecisionOnRecord'
  BY DEF IInv, NothingOutlivesCourse, DecisionOnRecord, Exists
<1>3. LockedRowExists'
  BY LocksKept DEF IInv, TypeOK, Exists
<1> QED BY <1>1, <1>2, <1>3 DEF IInv

LEMMA CheckStep ==
    ASSUME IInv, NEW c \in Client, Check(c)
    PROVE  IInv'
<1> USE DEF Request, CreateRequest, ReviewRequest, RollbackRequest, CourseRequest, Locks
<1>a. /\ course \in CourseStatus \cup {"deleted"}
      /\ release \in [Version -> ReleaseRow \cup {NoRelease}]
      /\ clock < MaxRequests => clock + 1 \in 1..MaxRequests
  BY ReleaseConstants DEF IInv, TypeOK
<1>b. ASSUME NEW r, Accept(c, r) PROVE clock < MaxRequests
  BY <1>b DEF Accept
<1>1. ASSUME NEW v \in Version, CheckCreate(c, v) PROVE IInv'
  <2> PICK s \in {"draft", "published"} : Accept(c, Creation("create", v, s))
    BY <1>1 DEF CheckCreate
  <2> Creation("create", v, s) \in CreateRequest
    BY <1>1, <1>a, <1>b DEF CheckCreate, Creation
  <2> QED BY AcceptStep
<1>2. ASSUME NEW v \in Version, CheckPublish(c, v) PROVE IInv'
  <2> Creation("publish", v, "published") \in CreateRequest
    BY <1>2, <1>a, <1>b DEF CheckPublish, Creation
  <2> QED BY <1>2, AcceptStep DEF CheckPublish
<1>3. ASSUME NEW v \in Version, CheckSubmitCourse(c, v) PROVE IInv'
  <2> Creation("submit_course", v, "pending_review") \in CreateRequest
    BY <1>3, <1>a, <1>b DEF CheckSubmitCourse, Creation
  <2> QED BY <1>3, AcceptStep DEF CheckSubmitCourse
<1>4. ASSUME NEW v \in Version, NEW op \in ReviewOp, CheckReview(c, v, op) PROVE IInv'
  <2> [op |-> op, version |-> v, course |-> "unread", at |-> clock + 1] \in ReviewRequest
    BY <1>4, <1>a, <1>b DEF CheckReview
  <2> QED BY <1>4, AcceptStep DEF CheckReview
<1>5. ASSUME NEW v \in Version, CheckRollback(c, v) PROVE IInv'
  <2> [op |-> "rollback", version |-> v, row |-> release[v], course |-> course]
         \in RollbackRequest
    BY <1>5, <1>a DEF CheckRollback, Exists
  <2> QED BY <1>5, AcceptStep DEF CheckRollback
<1>6. ASSUME NEW s \in CourseStatus, CheckUpdateCourse(c, s) PROVE IInv'
  <2> [op |-> "update", course |-> course, status |-> s] \in CourseRequest
    BY <1>6, <1>a DEF CheckUpdateCourse
  <2> QED BY <1>6, AcceptStep DEF CheckUpdateCourse
<1>7. ASSUME CheckDeleteCourse(c) PROVE IInv'
  <2> [op |-> "delete", course |-> course, status |-> course] \in CourseRequest
    BY <1>7, <1>a DEF CheckDeleteCourse
  <2> QED BY <1>7, AcceptStep DEF CheckDeleteCourse
<1> QED BY <1>1, <1>2, <1>3, <1>4, <1>5, <1>6, <1>7 DEF Check

-----------------------------------------------------------------------------
LEMMA AbortStep ==
    ASSUME IInv, NEW c \in Client, Abort(c)
    PROVE  IInv'
<1> USE DEF Abort, Finish, rows
<1>1. TypeOK'
  BY DEF IInv, TypeOK
<1>2. NothingOutlivesCourse' /\ DecisionOnRecord'
  BY DEF IInv, NothingOutlivesCourse, DecisionOnRecord, Exists
<1>3. LockedRowExists'
  BY LocksKept DEF IInv, TypeOK, Exists, Locks
<1> QED BY <1>1, <1>2, <1>3 DEF IInv

\* A new release starts without history, or with the submission of the course
\* builder; it is never born rejected.
LEMMA CreateStep ==
    ASSUME IInv, NEW c \in Client, CommitCreate(c)
    PROVE  IInv'
<1> DEFINE r == request[c]
           entry == [from |-> "draft", to |-> "pending_review"]
<1>1. /\ r \in CreateRequest
      /\ course # "deleted"
      /\ ~Exists(r.version)
  BY RequestKinds DEF IInv, TypeOK, CommitCreate, CommitCreateEffect
<1>2. [status |-> r.status, publishedAt |-> IF r.status = "published" THEN r.at ELSE Never]
         \in ReleaseRow
  BY <1>1, ReleaseConstants DEF CreateRequest, ReleaseRow
<1>3. NoRelease \notin ReleaseRow
  BY ReleaseConstants
<1>4. /\ Append(<<>>, entry) \in Seq(HistoryEntry)
      /\ Append(<<>>, entry) # <<>>
      /\ Last(Append(<<>>, entry)) = entry
  BY LastOfAppend, EmptySeq, entry \in HistoryEntry DEF HistoryEntry
<1>5. history[r.version] = <<>>
  BY <1>1 DEF IInv, NothingOutlivesCourse, CreateRequest
<1>6. TypeOK'
  <2>1. course' \in CourseStatus
    BY <1>1 DEF CommitCreate, CommitCreateEffect, Flush, CreateRequest, IInv, TypeOK
  <2>2. release' \in [Version -> ReleaseRow \cup {NoRelease}]
    BY <1>2 DEF CommitCreate, CommitCreateEffect, IInv, TypeOK
  <2>3. history' \in [Version -> Seq(HistoryEntry)]
    BY <1>1, <1>4, <1>5 DEF CommitCreate, CommitCreateEffect, IInv, TypeOK, CreateRequest
  <2> QED BY <2>1, <2>2, <2>3 DEF CommitCreate, CommitCreateEffect, Finish, IInv, TypeOK
<1>7. NothingOutlivesCourse'
  <2>1. course' # "deleted"
    BY <1>1 DEF CommitCreate, CommitCreateEffect, Flush, CreateRequest
  <2>2. ASSUME NEW v \in Version, ~Exists(v)'
        PROVE  v # r.version /\ ~Exists(v) /\ history'[v] = history[v] /\ reviews' = reviews
    BY <2>2, <1>1, <1>2, <1>3 DEF CommitCreate, CommitCreateEffect, Exists, IInv, TypeOK, CreateRequest
  <2> QED BY <2>1, <2>2 DEF IInv, NothingOutlivesCourse
<1>8. DecisionOnRecord'
  <2> SUFFICES ASSUME NEW v \in Version, Exists(v)'
               PROVE  /\ release'[v].status = "draft" => history'[v] = <<>>
                      /\ release'[v].status = "rejected" => history'[v] # <<>>
                      /\ release'[v].status \in {"rejected", "published"} /\ history'[v] # <<>>
                            => Last(history'[v]).to = release'[v].status
    BY DEF DecisionOnRecord
  <2>1. CASE v = r.version
    <3>1. release'[v].status = r.status /\ r.status \in Status \ {"rejected"}
      BY <2>1, <1>1 DEF CommitCreate, CommitCreateEffect, IInv, TypeOK, CreateRequest
    <3>2. history'[v] = IF r.op = "submit_course" THEN Append(<<>>, entry) ELSE <<>>
      BY <2>1, <1>5 DEF CommitCreate, CommitCreateEffect, IInv, TypeOK
    <3>3. r.op = "submit_course" => r.status = "pending_review"
      BY <1>1 DEF CreateRequest
    <3> QED BY <3>1, <3>2, <3>3
  <2>2. CASE v # r.version
    <3> release'[v] = release[v] /\ history'[v] = history[v] /\ Exists(v)
      BY <2>2 DEF CommitCreate, CommitCreateEffect, IInv, TypeOK, Exists
    <3> QED BY DEF IInv, DecisionOnRecord
  <2> QED BY <2>1, <2>2
<1>9. LockedRowExists'
  <2>1. ASSUME NEW v \in Version, Exists(v) PROVE Exists(v)'
    BY <2>1, <1>1 DEF CommitCreate, CommitCreateEffect, Exists, IInv, TypeOK, CreateRequest
  <2> QED BY <2>1, LocksKept DEF CommitCreate, CommitCreateEffect, Finish, Locks, IInv, TypeOK
<1> QED BY <1>6, <1>7, <1>8, <1>9 DEF IInv

-----------------------------------------------------------------------------
\* approve_release reads the course after the release: the course still exists.
LEMMA ReadCourseStep ==
    ASSUME IInv, NEW c \in Client, ReadCourse(c)
    PROVE  IInv'
<1>1. request[c] \in ReviewRequest
  BY RequestKinds DEF IInv, TypeOK, ReadCourse
<1>2. course \in CourseStatus
  BY <1>1 DEF ReadCourse, IInv, TypeOK, NothingOutlivesCourse, ReviewRequest
<1>3. [request[c] EXCEPT !.course = course] \in ReviewRequest
  BY <1>1, <1>2 DEF ReviewRequest
<1>4. TypeOK'
  BY <1>3 DEF ReadCourse, rows, IInv, TypeOK, Request
<1>5. NothingOutlivesCourse' /\ DecisionOnRecord'
  BY DEF ReadCourse, rows, IInv, NothingOutlivesCourse, DecisionOnRecord, Exists
<1>6. LockedRowExists'
  BY <1>1 DEF ReadCourse, rows, IInv, TypeOK, LockedRowExists, Locked, Locks, Exists
<1> QED BY <1>4, <1>5, <1>6 DEF IInv

\* A moderation write sets the row and appends the entry that explains it, even
\* when the check it rests on is stale: the two cannot disagree.
LEMMA ReviewWrite ==
    ASSUME IInv, NEW c \in Client, NEW row \in ReleaseRow,
           request[c] \in ReviewRequest,
           Exists(request[c].version),
           row.status = Target(request[c].op),
           release' = [release EXCEPT ![request[c].version] = row],
           course' \in CourseStatus,
           Record(request[c]),
           Finish(c)
    PROVE  IInv'
<1> DEFINE r == request[c]
           v0 == r.version
           entry == [from |-> Expected(r.op), to |-> Target(r.op)]
<1>1. v0 \in Version /\ r.op \in ReviewOp
  BY DEF ReviewRequest
<1>2. Expected(r.op) \in Status /\ Target(r.op) \in Status \ {"draft"}
  BY <1>1 DEF Expected, Target
<1>3. entry \in HistoryEntry /\ entry.to = Target(r.op)
  BY <1>2 DEF HistoryEntry
<1>4. /\ Append(history[v0], entry) \in Seq(HistoryEntry)
      /\ Append(history[v0], entry) # <<>>
      /\ Last(Append(history[v0], entry)) = entry
  <2> history[v0] \in Seq(HistoryEntry) BY <1>1 DEF IInv, TypeOK
  <2> QED BY <1>3, LastOfAppend
<1>5. /\ history' = [history EXCEPT ![v0] = Append(history[v0], entry)]
      /\ reviews' = [reviews EXCEPT ![v0] = Append(reviews[v0], r.op)]
  BY DEF Record
<1>6. Append(reviews[v0], r.op) \in Seq(ReviewOp)
  <2> reviews[v0] \in Seq(ReviewOp) BY <1>1 DEF IInv, TypeOK
  <2> QED BY <1>1, AppendProperties
<1>7. row # NoRelease
  BY ReleaseConstants
<1>8. TypeOK'
  BY <1>4, <1>5, <1>6 DEF Finish, IInv, TypeOK
<1>9. NothingOutlivesCourse'
  <2>1. ASSUME NEW v \in Version, ~Exists(v)'
        PROVE  v # v0 /\ ~Exists(v) /\ history'[v] = history[v] /\ reviews'[v] = reviews[v]
    BY <2>1, <1>1, <1>5, <1>7 DEF Exists, IInv, TypeOK
  <2>2. course' # "deleted"
    OBVIOUS
  <2> QED BY <2>1, <2>2 DEF IInv, NothingOutlivesCourse
<1>10. DecisionOnRecord'
  <2> SUFFICES ASSUME NEW v \in Version, Exists(v)'
               PROVE  /\ release'[v].status = "draft" => history'[v] = <<>>
                      /\ release'[v].status = "rejected" => history'[v] # <<>>
                      /\ release'[v].status \in {"rejected", "published"} /\ history'[v] # <<>>
                            => Last(history'[v]).to = release'[v].status
    BY DEF DecisionOnRecord
  <2>1. CASE v = v0
    <3> release'[v] = row /\ history'[v] = Append(history[v0], entry)
      BY <2>1, <1>5 DEF IInv, TypeOK
    <3> QED BY <1>2, <1>3, <1>4
  <2>2. CASE v # v0
    <3> release'[v] = release[v] /\ history'[v] = history[v] /\ Exists(v)
      BY <2>2, <1>5 DEF IInv, TypeOK, Exists
    <3> QED BY DEF IInv, DecisionOnRecord
  <2> QED BY <2>1, <2>2
<1>11. LockedRowExists'
  <2>1. ASSUME NEW v \in Version, Exists(v) PROVE Exists(v)'
    BY <2>1, <1>1, <1>7 DEF Exists, IInv, TypeOK
  <2> QED BY <2>1, LocksKept DEF Finish, Locks, IInv, TypeOK
<1> QED BY <1>8, <1>9, <1>10, <1>11 DEF IInv

LEMMA CommitApproveStep ==
    ASSUME IInv, NEW c \in Client, CommitApprove(c)
    PROVE  IInv'
<1> DEFINE r == request[c]
           row == [status |-> "published", publishedAt |-> r.at]
<1>1. r \in ReviewRequest /\ r.op = "approve" /\ r.course \in CourseStatus
  BY RequestKinds DEF CommitApprove, IInv, TypeOK, ReviewRequest
<1>2. row \in ReleaseRow /\ row.status = Target(r.op)
  BY <1>1, ReleaseConstants DEF ReviewRequest, ReleaseRow, Target
<1>3. Exists(r.version)
  BY <1>1 DEF IInv, LockedRowExists, Locked, Locks, ReviewRequest
<1>4. course \in CourseStatus
  BY <1>1, <1>3 DEF IInv, TypeOK, NothingOutlivesCourse, ReviewRequest
<1>5. course' \in CourseStatus
  BY <1>4 DEF CommitApprove, Flush
<1> QED BY <1>1, <1>2, <1>3, <1>5, ReviewWrite DEF CommitApprove

LEMMA CommitReviewStep ==
    ASSUME IInv, NEW c \in Client, CommitReview(c)
    PROVE  IInv'
<1> DEFINE r == request[c]
           row == [release[r.version] EXCEPT !.status = Target(r.op)]
<1>1. r \in ReviewRequest
  BY RequestKinds DEF CommitReview, IInv, TypeOK
<1>2. release[r.version] \in ReleaseRow /\ Target(r.op) \in Status
  BY <1>1 DEF CommitReview, IInv, TypeOK, ReviewRequest, Exists, Target
<1>3. row \in ReleaseRow /\ row.status = Target(r.op)
  BY <1>2 DEF ReleaseRow
<1>4. release' = [release EXCEPT ![r.version] = row]
  BY DEF CommitReview
<1>5. course' \in CourseStatus
  BY <1>1 DEF CommitReview, IInv, TypeOK, NothingOutlivesCourse, ReviewRequest
<1> QED BY <1>1, <1>3, <1>4, <1>5, ReviewWrite DEF CommitReview

\* A rollback puts the row in the queue or, when the row was there already,
\* leaves the status that others wrote since, with the entry that explains it.
LEMMA CommitRollbackStep ==
    ASSUME IInv, NEW c \in Client, CommitRollback(c)
    PROVE  IInv'
<1> DEFINE r == request[c]
           old == release[r.version]
           row == [status |-> Flush(r.row.status, "pending_review", old.status),
                   publishedAt |-> Flush(r.row.publishedAt, Never, old.publishedAt)]
<1>1. r \in RollbackRequest
  BY RequestKinds DEF CommitRollback, IInv, TypeOK
<1>2. old \in ReleaseRow /\ r.version \in Version
  BY <1>1 DEF CommitRollback, IInv, TypeOK, RollbackRequest, Exists
<1>3. row \in ReleaseRow
  BY <1>2, ReleaseConstants DEF ReleaseRow, Flush
<1>4. row.status \in {"pending_review", old.status}
  BY DEF Flush
<1>5. release' = [release EXCEPT ![r.version] = row]
  BY DEF CommitRollback
<1>6. course' \in CourseStatus
  BY <1>1, <1>2 DEF CommitRollback, Flush, IInv, TypeOK, NothingOutlivesCourse, RollbackRequest
<1>7. TypeOK'
  BY <1>3, <1>5, <1>6 DEF CommitRollback, Finish, IInv, TypeOK
<1>8. \A v \in Version : Exists(v)' <=> Exists(v)
  BY <1>2, <1>3, <1>5, ReleaseConstants DEF CommitRollback, Exists, IInv, TypeOK
<1>9. NothingOutlivesCourse'
  BY <1>6, <1>8 DEF CommitRollback, IInv, NothingOutlivesCourse
<1>10. DecisionOnRecord'
  <2> SUFFICES ASSUME NEW v \in Version, Exists(v)'
               PROVE  /\ release'[v].status = "draft" => history'[v] = <<>>
                      /\ release'[v].status = "rejected" => history'[v] # <<>>
                      /\ release'[v].status \in {"rejected", "published"} /\ history'[v] # <<>>
                            => Last(history'[v]).to = release'[v].status
    BY DEF DecisionOnRecord
  <2>1. release'[v].status \in {"pending_review", release[v].status}
    BY <1>4, <1>5 DEF IInv, TypeOK
  <2>2. history' = history /\ Exists(v)
    BY <1>8 DEF CommitRollback
  <2> QED BY <2>1, <2>2 DEF IInv, DecisionOnRecord
<1>11. LockedRowExists'
  BY <1>8, LocksKept DEF CommitRollback, Finish, Locks, IInv, TypeOK
<1> QED BY <1>7, <1>9, <1>10, <1>11 DEF IInv

LEMMA CourseStep ==
    ASSUME IInv, NEW c \in Client, CommitUpdateCourse(c) \/ CommitDeleteCourse(c)
    PROVE  IInv'
<1>1. CASE CommitUpdateCourse(c)
  <2>1. request[c] \in CourseRequest
    BY <1>1, RequestKinds DEF CommitUpdateCourse, IInv, TypeOK
  <2>2. course' \in CourseStatus
    BY <1>1, <2>1 DEF CommitUpdateCourse, Flush, IInv, TypeOK, CourseRequest
  <2>3. TypeOK'
    BY <1>1, <2>2 DEF CommitUpdateCourse, Finish, IInv, TypeOK
  <2>4. NothingOutlivesCourse' /\ DecisionOnRecord'
    BY <1>1, <2>2 DEF CommitUpdateCourse, IInv, NothingOutlivesCourse, DecisionOnRecord, Exists
  <2>5. LockedRowExists'
    BY <1>1, LocksKept DEF CommitUpdateCourse, Finish, Locks, Exists, IInv, TypeOK
  <2> QED BY <2>3, <2>4, <2>5 DEF IInv
<1>2. CASE CommitDeleteCourse(c)
  <2>1. TypeOK'
    BY <1>2, EmptySeq DEF CommitDeleteCourse, Finish, IInv, TypeOK
  <2>2. NothingOutlivesCourse' /\ DecisionOnRecord'
    BY <1>2 DEF CommitDeleteCourse, NothingOutlivesCourse, DecisionOnRecord, Exists
  <2>3. ASSUME NEW v \in Version, NEW d \in Client PROVE ~Locks(request'[d], v)
    BY <1>2 DEF CommitDeleteCourse, Finish, Locked, Locks, IInv, TypeOK
  <2>4. LockedRowExists'
    BY <2>3 DEF LockedRowExists, Locked
  <2> QED BY <2>1, <2>2, <2>4 DEF IInv
<1> QED BY <1>1, <1>2

-----------------------------------------------------------------------------
LEMMA Inductive == IInv /\ [Next]_vars => IInv'
<1>1. CASE UNCHANGED vars
  BY <1>1 DEF vars, IInv, TypeOK, NothingOutlivesCourse, DecisionOnRecord,
              LockedRowExists, Locked, Locks, Exists
<1>2. ASSUME IInv, NEW c \in Client, Check(c) \/ Commit(c) \/ Abort(c)
      PROVE  IInv'
  BY <1>2, CheckStep, AbortStep, CreateStep, ReadCourseStep, CommitApproveStep,
     CommitReviewStep, CommitRollbackStep, CourseStep DEF Commit
<1> QED BY <1>1, <1>2 DEF Next

LEMMA Invariance == Spec => []IInv
BY Initially, Inductive, PTL DEF Spec

\* The state of the catalog and of every request in flight keeps its types.
THEOREM TypeCorrect == Spec => []TypeOK
BY Invariance, PTL DEF IInv

\* However many moderators act on stale checks, the status of a release and the
\* newest entry of its history tell the same decision.
THEOREM DecisionsRecorded == Spec => []DecisionOnRecord
BY Invariance, PTL DEF IInv

\* Nothing of a deleted course survives the requests that were in flight.
THEOREM DeletionComplete == Spec => [](NothingOutlivesCourse /\ LockedRowExists)
BY Invariance, PTL DEF IInv

-----------------------------------------------------------------------------
\* A sequence is a prefix of itself and of what is appended to it.
LEMMA PrefixOfAppend ==
    ASSUME NEW S, NEW s \in Seq(S), NEW e \in S
    PROVE  IsPrefix(s, s) /\ IsPrefix(s, Append(s, e))
BY DEF IsPrefix

\* The trail of one release in one step.
Grows(v) ==
    /\ IsPrefix(history[v], history'[v])
    /\ IsPrefix(reviews[v], reviews'[v])
    /\ release'[v].status = "draft" => release[v].status = "draft"

LEMMA TrailStep ==
    ASSUME IInv, Next, NEW v \in Version, Exists(v), Exists(v)'
    PROVE  Grows(v)
<1> PICK c \in Client : Check(c) \/ Commit(c) \/ Abort(c)
  BY DEF Next
<1> DEFINE r == request[c]
<1>1. /\ history[v] \in Seq(HistoryEntry)
      /\ reviews[v] \in Seq(ReviewOp)
      /\ release[v] \in ReleaseRow
  BY DEF IInv, TypeOK, Exists
<1>2. IsPrefix(history[v], history[v]) /\ IsPrefix(reviews[v], reviews[v])
  <2> "submit" \in ReviewOp /\ [from |-> "draft", to |-> "draft"] \in HistoryEntry
    BY DEF HistoryEntry
  <2> QED BY <1>1, PrefixOfAppend
<1>3. CASE UNCHANGED <<history, reviews, release>>
  BY <1>2, <1>3 DEF Grows
<1>4. Check(c) \/ Abort(c) \/ ReadCourse(c) \/ CommitUpdateCourse(c)
         => UNCHANGED <<history, reviews, release>>
  BY DEF Check, CheckCreate, CheckPublish, CheckSubmitCourse, CheckReview, CheckRollback,
         CheckUpdateCourse, CheckDeleteCourse, Accept, Abort, ReadCourse, CommitUpdateCourse, rows
<1>5. CASE CommitCreate(c)
  <2> r.version # v
    BY <1>5 DEF CommitCreate, CommitCreateEffect
  <2> history'[v] = history[v] /\ reviews'[v] = reviews[v] /\ release'[v] = release[v]
    BY <1>5 DEF CommitCreate, CommitCreateEffect, IInv, TypeOK
  <2> QED BY <1>2 DEF Grows
<1>6. CASE CommitApprove(c) \/ CommitReview(c)
  <2>1. r \in ReviewRequest
    BY <1>6, RequestKinds DEF CommitApprove, CommitReview, IInv, TypeOK
  <2>2. /\ Expected(r.op) \in Status
        /\ Target(r.op) \in Status \ {"draft"}
        /\ r.op \in ReviewOp
    BY <2>1 DEF ReviewRequest, Expected, Target
  <2>3. Record(r)
    BY <1>6 DEF CommitApprove, CommitReview
  <2>4. CASE r.version = v
    <3>1. /\ history'[v] = Append(history[v], [from |-> Expected(r.op), to |-> Target(r.op)])
          /\ reviews'[v] = Append(reviews[v], r.op)
      BY <2>3, <2>4 DEF Record, IInv, TypeOK
    <3>2. [from |-> Expected(r.op), to |-> Target(r.op)] \in HistoryEntry
      BY <2>2 DEF HistoryEntry
    <3>3. IsPrefix(history[v], history'[v]) /\ IsPrefix(reviews[v], reviews'[v])
      BY <1>1, <2>2, <3>1, <3>2, PrefixOfAppend
    <3>4. release'[v].status # "draft"
      BY <1>6, <1>1, <2>2, <2>4 DEF CommitApprove, CommitReview, IInv, TypeOK, ReleaseRow
    <3> QED BY <3>3, <3>4 DEF Grows
  <2>5. CASE r.version # v
    <3> history'[v] = history[v] /\ reviews'[v] = reviews[v] /\ release'[v] = release[v]
      BY <1>6, <2>3, <2>5 DEF Record, CommitApprove, CommitReview, IInv, TypeOK
    <3> QED BY <1>2 DEF Grows
  <2> QED BY <2>4, <2>5
<1>7. CASE CommitRollback(c)
  <2>1. release'[v].status = "draft" => release[v].status = "draft"
    BY <1>7 DEF CommitRollback, Flush, IInv, TypeOK
  <2> QED BY <1>7, <1>2, <2>1 DEF CommitRollback, Grows
<1>8. ~CommitDeleteCourse(c)
  BY DEF CommitDeleteCourse, Exists
<1> QED BY <1>3, <1>4, <1>5, <1>6, <1>7, <1>8 DEF Commit

\* No two requests create the same version, and the record of what was decided
\* about a release is append-only.
THEOREM TrailPreserved == Spec => TrailOnlyGrows
<1> DEFINE TrailAction ==
      \A v \in Version : Exists(v) /\ Exists(v)' => Grows(v)
<1>1. IInv /\ [Next]_vars => [TrailAction]_vars
  BY TrailStep
<1>2. Spec => [][TrailAction]_vars
  BY <1>1, Invariance, PTL DEF Spec
<1> QED BY <1>2 DEF TrailOnlyGrows, Grows

-----------------------------------------------------------------------------
\* A request in flight that does not change an archived course, or did not see
\* it archived, or means to change it.
Reactivated ==
    course = "archived" /\ course' = "active" =>
        \E c \in Client : /\ request'[c] = Idle
                          /\ \/ request[c].op \in {"update", "rollback"}
                             \/ request[c].op # "idle" /\ request[c].course # "archived"

LEMMA ReactivationStep ==
    ASSUME IInv, Next
    PROVE  Reactivated
<1> SUFFICES ASSUME course = "archived", course' = "active"
             PROVE  \E c \in Client : /\ request'[c] = Idle
                                      /\ \/ request[c].op \in {"update", "rollback"}
                                         \/ request[c].op # "idle" /\ request[c].course # "archived"
  BY DEF Reactivated
<1>1. PICK c \in Client : Check(c) \/ Commit(c) \/ Abort(c)
  BY DEF Next
<1>2. ~(Check(c) \/ Abort(c) \/ ReadCourse(c) \/ CommitReview(c) \/ CommitDeleteCourse(c))
  BY DEF Check, CheckCreate, CheckPublish, CheckSubmitCourse, CheckReview, CheckRollback,
         CheckUpdateCourse, CheckDeleteCourse, Accept, Abort, ReadCourse, CommitReview,
         CommitDeleteCourse, rows
<1>3. Finish(c)
  BY <1>1, <1>2 DEF Commit, CommitCreate, CommitApprove, CommitRollback, CommitUpdateCourse
<1>4. request'[c] = Idle
  BY <1>3 DEF Finish, IInv, TypeOK
<1>5. CASE CommitCreate(c)
  BY <1>4, <1>5 DEF CommitCreate, CommitCreateEffect
<1>6. CASE CommitApprove(c)
  BY <1>4, <1>6 DEF CommitApprove
<1>7. CASE CommitRollback(c) \/ CommitUpdateCourse(c)
  BY <1>4, <1>7 DEF CommitRollback, CommitUpdateCourse
<1> QED BY <1>1, <1>2, <1>5, <1>6, <1>7 DEF Commit

\* An archived course is only brought back by an edit, by a rollback, or by a
\* request that read the course before it was archived.
THEOREM ArchivePreserved == Spec => ArchivedStaysArchived
<1>1. IInv /\ [Next]_vars => [Reactivated]_vars
  BY ReactivationStep
<1>2. Spec => [][Reactivated]_vars
  BY <1>1, Invariance, PTL DEF Spec
<1> QED BY <1>2 DEF ArchivedStaysArchived, Reactivated
=============================================================================

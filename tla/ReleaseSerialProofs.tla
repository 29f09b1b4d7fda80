------------------------ MODULE ReleaseSerialProofs -------------------------
(***************************************************************************)
(* One handler at a time: ReleaseLifecycle refines ReleaseWorkflow.  The   *)
(* step simulation needs that what a request has checked still holds when  *)
(* it commits, which is exactly what overlapping requests break.           *)
(***************************************************************************)
EXTENDS ReleaseSerial, ReleaseLifecycleProofs

USE DEF Status, CourseStatus, Never, Idle, ReviewOp

\* What the check of the request in flight saw is still the case.
Fresh(r) ==
    /\ r.op \in ReviewOp => /\ Exists(r.version)
                            /\ release[r.version].status = Expected(r.op)
    /\ r.op = "rollback" => release[r.version] = r.row

FreshChecks == \A c \in Client : Fresh(request[c])

\* A step of the workflow, in the abstract variables.
LEMMA MoveBar ==
    ASSUME IInv, NEW v \in Version, NEW row \in ReleaseRow,
           release' = [release EXCEPT ![v] = row]
    PROVE  statusBar' = [statusBar EXCEPT ![v] = row.status]
BY ReleaseConstants DEF IInv, TypeOK, statusBar, Exists

LEMMA StatusBarOf ==
    ASSUME NEW v \in Version
    PROVE  /\ Exists(v) => statusBar[v] = release[v].status
           /\ ~Exists(v) => statusBar[v] = "none"
BY DEF statusBar

LEMMA FreshInit == Init => FreshChecks
BY DEF Init, FreshChecks, Fresh

LEMMA FreshStep ==
    ASSUME \A c, d \in Client : c = d, IInv, FreshChecks, [Next]_vars
    PROVE  FreshChecks'
<1>1. CASE UNCHANGED vars
  BY <1>1 DEF vars, FreshChecks, Fresh, Exists
<1>2. ASSUME NEW c \in Client, request'[c] = Idle PROVE FreshChecks'
  <2> \A d \in Client : d = c OBVIOUS
  <2> QED BY <1>2 DEF FreshChecks, Fresh
<1>3. ASSUME NEW c \in Client, NEW r, request'[c] = r, Fresh(r), UNCHANGED release
      PROVE  FreshChecks'
  <2> \A d \in Client : d = c OBVIOUS
  <2> QED BY <1>3 DEF FreshChecks, Fresh, Exists
<1>4. ASSUME NEW c \in Client, NEW r, Accept(c, r), Fresh(r) PROVE FreshChecks'
  BY <1>4, <1>3 DEF Accept, rows, IInv, TypeOK
<1>5. ASSUME NEW c \in Client, Check(c) PROVE FreshChecks'
  <2>1. ASSUME NEW v \in Version, CheckCreate(c, v) PROVE FreshChecks'
    BY <2>1, <1>4 DEF CheckCreate, Creation, Fresh
  <2>2. ASSUME NEW v \in Version, CheckPublish(c, v) PROVE FreshChecks'
    BY <2>2, <1>4 DEF CheckPublish, Creation, Fresh
  <2>3. ASSUME NEW v \in Version, CheckSubmitCourse(c, v) PROVE FreshChecks'
    BY <2>3, <1>4 DEF CheckSubmitCourse, Creation, Fresh
  <2>4. ASSUME NEW v \in Version, NEW op \in ReviewOp, CheckReview(c, v, op) PROVE FreshChecks'
    BY <2>4, <1>4 DEF CheckReview, Fresh
  <2>5. ASSUME NEW v \in Version, CheckRollback(c, v) PROVE FreshChecks'
    BY <2>5, <1>4 DEF CheckRollback, Fresh
  <2>6. ASSUME NEW s \in CourseStatus, CheckUpdateCourse(c, s) PROVE FreshChecks'
    BY <2>6, <1>4 DEF CheckUpdateCourse, Fresh
  <2>7. ASSUME CheckDeleteCourse(c) PROVE FreshChecks'
    BY <2>7, <1>4 DEF CheckDeleteCourse, Fresh
  <2> QED BY <1>5, <2>1, <2>2, <2>3, <2>4, <2>5, <2>6, <2>7 DEF Check
<1>6. ASSUME NEW c \in Client, ReadCourse(c) PROVE FreshChecks'
  <2> DEFINE r == [request[c] EXCEPT !.course = course]
  <2>1. request[c] \in ReviewRequest /\ Fresh(request[c])
    BY <1>6, RequestKinds DEF ReadCourse, IInv, TypeOK, FreshChecks
  <2>2. r.op = request[c].op /\ r.version = request[c].version
    BY <2>1 DEF ReviewRequest
  <2>3. Fresh(r)
    BY <2>1, <2>2 DEF Fresh, ReviewRequest
  <2>4. request'[c] = r /\ UNCHANGED release
    BY <1>6 DEF ReadCourse, rows, IInv, TypeOK
  <2> QED BY <2>3, <2>4, <1>3
<1>7. ASSUME NEW c \in Client, Finish(c) PROVE FreshChecks'
  BY <1>7, <1>2 DEF Finish, IInv, TypeOK
<1>8. ASSUME NEW c \in Client, Commit(c) \/ Abort(c) PROVE FreshChecks'
  BY <1>6, <1>7, <1>8 DEF Commit, Abort, CommitCreate, CommitCreateEffect, CommitApprove, CommitReview,
                         CommitRollback, CommitUpdateCourse, CommitDeleteCourse
<1> QED BY <1>1, <1>5, <1>8 DEF Next

LEMMA InitBar == Init => Workflow!WFInit
BY DEF Init, Workflow!WFInit, statusBar, Exists

-----------------------------------------------------------------------------
\* A check, an aborted request and a change of the course leave every status.
LEMMA StutterBar ==
    ASSUME UNCHANGED release, (course = "deleted") <=> (course' = "deleted")
    PROVE  UNCHANGED Workflow!wfVars
BY DEF Workflow!wfVars, statusBar, Exists

LEMMA ReviewBar ==
    ASSUME IInv, FreshChecks, NEW c \in Client, CommitReview(c) \/ CommitApprove(c)
    PROVE  Workflow!WFNext
<1> DEFINE r == request[c]
           v == r.version
<1>1. r \in ReviewRequest
  BY RequestKinds DEF CommitReview, CommitApprove, IInv, TypeOK
<1>2. v \in Version /\ r.op \in ReviewOp
  BY <1>1 DEF ReviewRequest
<1>3. Exists(v) /\ release[v] \in ReleaseRow /\ statusBar[v] = Expected(r.op)
  BY <1>2, StatusBarOf DEF FreshChecks, Fresh, IInv, TypeOK, Exists
<1>4. PICK row \in ReleaseRow : /\ release' = [release EXCEPT ![v] = row]
                                /\ row.status = Target(r.op)
  <2>1. CASE CommitApprove(c)
    <3> [status |-> "published", publishedAt |-> r.at] \in ReleaseRow
      BY <1>1, ReleaseConstants DEF ReviewRequest, ReleaseRow
    <3> QED BY <2>1 DEF CommitApprove, Target
  <2>2. CASE CommitReview(c)
    <3> DEFINE row == [release[v] EXCEPT !.status = Target(r.op)]
    <3>1. Target(r.op) \in Status
      BY <1>2 DEF Target
    <3>2. row \in ReleaseRow /\ row.status = Target(r.op)
      BY <3>1, <1>3 DEF ReleaseRow
    <3> QED BY <2>2, <3>2 DEF CommitReview
  <2> QED BY <2>1, <2>2
<1>5. statusBar' = [statusBar EXCEPT ![v] = Target(r.op)]
  BY <1>2, <1>4, MoveBar
<1>6. course # "deleted" /\ course' # "deleted"
  BY <1>2, <1>3 DEF IInv, NothingOutlivesCourse, CommitReview, CommitApprove, Flush
<1>7. Workflow!Move(v, {Expected(r.op)}, {Target(r.op)})
  BY <1>3, <1>5, <1>6 DEF Workflow!Move
<1>8. Workflow!Submit(v) \/ Workflow!Decide(v) \/ Workflow!Resubmit(v)
  BY <1>2, <1>7 DEF Expected, Target, Workflow!Move, Workflow!Submit, Workflow!Decide,
                    Workflow!Resubmit
<1> QED BY <1>2, <1>8 DEF Workflow!WFNext

LEMMA CreateBar ==
    ASSUME IInv, NEW c \in Client, CommitCreate(c)
    PROVE  Workflow!WFNext
<1> DEFINE r == request[c]
           row == [status |-> r.status,
                   publishedAt |-> IF r.status = "published" THEN r.at ELSE Never]
<1>1. r \in CreateRequest
  BY RequestKinds DEF CommitCreate, CommitCreateEffect, IInv, TypeOK
<1>2. /\ r.version \in Version
      /\ row \in ReleaseRow
      /\ row.status \in {"draft", "pending_review", "published"}
  BY <1>1, ReleaseConstants DEF CreateRequest, ReleaseRow
<1>3. statusBar' = [statusBar EXCEPT ![r.version] = row.status]
  BY <1>2, MoveBar DEF CommitCreate, CommitCreateEffect
<1>4. statusBar[r.version] = "none"
  BY <1>2, StatusBarOf DEF CommitCreate, CommitCreateEffect
<1>5. course # "deleted" /\ course' # "deleted"
  BY DEF CommitCreate, CommitCreateEffect, Flush
<1>6. Workflow!Create(r.version)
  BY <1>2, <1>3, <1>4, <1>5 DEF Workflow!Create, Workflow!Move
<1> QED BY <1>2, <1>6 DEF Workflow!WFNext

LEMMA RollbackBar ==
    ASSUME IInv, FreshChecks, NEW c \in Client, CommitRollback(c)
    PROVE  Workflow!WFNext
<1> DEFINE r == request[c]
           v == r.version
           old == release[v]
           row == [status |-> Flush(r.row.status, "pending_review", old.status),
                   publishedAt |-> Flush(r.row.publishedAt, Never, old.publishedAt)]
<1>1. r \in RollbackRequest
  BY RequestKinds DEF CommitRollback, IInv, TypeOK
<1>2. v \in Version /\ old \in ReleaseRow /\ old = r.row
  BY <1>1 DEF CommitRollback, RollbackRequest, FreshChecks, Fresh, IInv, TypeOK, Exists
<1>3. row \in ReleaseRow /\ row.status = "pending_review"
  BY <1>2, ReleaseConstants DEF ReleaseRow, Flush
<1>4. statusBar' = [statusBar EXCEPT ![v] = "pending_review"]
  BY <1>2, <1>3, MoveBar DEF CommitRollback
<1>5. statusBar[v] \in Status
  BY <1>2, StatusBarOf DEF CommitRollback, ReleaseRow
<1>6. course # "deleted" /\ course' # "deleted"
  BY <1>2 DEF CommitRollback, Flush, IInv, NothingOutlivesCourse
<1>7. Workflow!Recall(v)
  BY <1>4, <1>5, <1>6 DEF Workflow!Recall, Workflow!Move
<1> QED BY <1>2, <1>7 DEF Workflow!WFNext

LEMMA StepBar ==
    ASSUME IInv, FreshChecks, [Next]_vars
    PROVE  [Workflow!WFNext]_(Workflow!wfVars)
<1>1. CASE UNCHANGED vars
  BY <1>1, StutterBar DEF vars
<1>2. ASSUME NEW c \in Client, Check(c) \/ Abort(c) \/ ReadCourse(c)
      PROVE  UNCHANGED Workflow!wfVars
  <2> UNCHANGED <<release, course>>
    BY <1>2 DEF Check, CheckCreate, CheckPublish, CheckSubmitCourse, CheckReview, CheckRollback,
                CheckUpdateCourse, CheckDeleteCourse, Accept, Abort, ReadCourse, rows
  <2> QED BY StutterBar
<1>3. ASSUME NEW c \in Client, CommitUpdateCourse(c) PROVE UNCHANGED Workflow!wfVars
  <2>1. request[c] \in CourseRequest
    BY <1>3, RequestKinds DEF CommitUpdateCourse, IInv, TypeOK
  <2>2. course # "deleted" /\ course' # "deleted" /\ UNCHANGED release
    BY <1>3, <2>1 DEF CommitUpdateCourse, Flush, CourseRequest
  <2> QED BY <2>2, StutterBar
<1>4. ASSUME NEW c \in Client, CommitDeleteCourse(c) PROVE Workflow!Close
  BY <1>4 DEF CommitDeleteCourse, Workflow!Close, statusBar, Exists
<1> QED BY <1>1, <1>2, <1>3, <1>4, ReviewBar, CreateBar, RollbackBar
        DEF Next, Commit, Workflow!WFNext

\* Without overlapping requests the catalog and moderation services keep the
\* release workflow, for any set of versions and any number of requests.
THEOREM SerialRefinement ==
    ASSUME \A c, d \in Client : c = d
    PROVE  Spec => ImplementsWorkflow
<1>1. Init => FreshChecks
  BY FreshInit
<1>2. IInv /\ FreshChecks /\ [Next]_vars => FreshChecks'
  BY FreshStep
<1>3. Spec => [](IInv /\ FreshChecks)
  BY <1>1, <1>2, Invariance, PTL DEF Spec
<1>4. IInv /\ FreshChecks /\ [Next]_vars => [Workflow!WFNext]_(Workflow!wfVars)
  BY StepBar
<1>5. Init => Workflow!WFInit
  BY InitBar
<1>6. Spec => Workflow!WFSpec
  BY <1>3, <1>4, <1>5, PTL DEF Spec, Workflow!WFSpec
<1> QED BY <1>6 DEF ImplementsWorkflow

-----------------------------------------------------------------------------
(* Publication dates *)

Creating(r) == r.op \in {"create", "publish", "submit_course"}

\* The request in flight is newer than every publication.
DatesInOrder ==
    /\ \A v \in Version : Exists(v) => release[v].publishedAt <= clock
    /\ \A c \in Client : Creating(request[c]) \/ request[c].op \in ReviewOp =>
          /\ request[c].at \in 1..clock
          /\ \A v \in Version : Exists(v) => release[v].publishedAt < request[c].at

SerialInv == IInv /\ FreshChecks /\ PublishedIffDated /\ DatesInOrder

\* What becomes of one release in a step.
LEMMA ReleaseSteps ==
    ASSUME SerialInv, NEW c \in Client, Commit(c)
    PROVE  \/ UNCHANGED release
           \/ release' = [v \in Version |-> NoRelease]
           \/ \E v \in Version, row \in ReleaseRow :
                 /\ release' = [release EXCEPT ![v] = row]
                 /\ \/ row.status = "published" /\ row.publishedAt = request[c].at
                       /\ (Creating(request[c]) \/ request[c].op = "approve")
                    \/ row.status # "published" /\ row.publishedAt = Never
<1> DEFINE r == request[c]
<1> USE DEF SerialInv
<1>1. CASE CommitCreate(c)
  <2> DEFINE row == [status |-> r.status,
                     publishedAt |-> IF r.status = "published" THEN r.at ELSE Never]
  <2>1. r \in CreateRequest
    BY <1>1, RequestKinds DEF CommitCreate, IInv, TypeOK
  <2>2. r.version \in Version /\ row \in ReleaseRow
    BY <2>1, ReleaseConstants DEF CreateRequest, ReleaseRow
  <2>3. release' = [release EXCEPT ![r.version] = row] /\ Creating(r)
    BY <1>1 DEF CommitCreate, CommitCreateEffect, Creating
  <2> QED BY <2>2, <2>3
<1>2. CASE CommitApprove(c)
  <2> DEFINE row == [status |-> "published", publishedAt |-> r.at]
  <2>1. r \in ReviewRequest
    BY <1>2, RequestKinds DEF CommitApprove, IInv, TypeOK
  <2>2. r.version \in Version /\ row \in ReleaseRow
    BY <2>1, ReleaseConstants DEF ReviewRequest, ReleaseRow
  <2>3. release' = [release EXCEPT ![r.version] = row] /\ r.op = "approve"
    BY <1>2 DEF CommitApprove
  <2> QED BY <2>2, <2>3
<1>3. CASE CommitReview(c)
  <2> DEFINE row == [release[r.version] EXCEPT !.status = Target(r.op)]
  <2>1. r \in ReviewRequest /\ r.op \in ReviewOp \ {"approve"}
    BY <1>3, RequestKinds DEF CommitReview, IInv, TypeOK
  <2>2. /\ r.version \in Version /\ release[r.version] \in ReleaseRow
        /\ release[r.version].status = Expected(r.op) /\ Exists(r.version)
    BY <1>3, <2>1 DEF CommitReview, ReviewRequest, IInv, TypeOK, Exists, FreshChecks, Fresh
  <2>3. Expected(r.op) # "published" /\ Target(r.op) \in Status \ {"published"}
    BY <2>1 DEF Expected, Target
  <2>4. release[r.version].publishedAt = Never
    BY <2>2, <2>3 DEF PublishedIffDated
  <2>5. row \in ReleaseRow /\ row.status # "published" /\ row.publishedAt = Never
    BY <2>2, <2>3, <2>4 DEF ReleaseRow
  <2>6. release' = [release EXCEPT ![r.version] = row]
    BY <1>3 DEF CommitReview
  <2> QED BY <2>2, <2>5, <2>6
<1>4. CASE CommitRollback(c)
  <2> DEFINE old == release[r.version]
             row == [status |-> Flush(r.row.status, "pending_review", old.status),
                     publishedAt |-> Flush(r.row.publishedAt, Never, old.publishedAt)]
  <2>1. r \in RollbackRequest
    BY <1>4, RequestKinds DEF CommitRollback, IInv, TypeOK
  <2>2. r.version \in Version /\ old \in ReleaseRow /\ old = r.row
    BY <1>4, <2>1 DEF CommitRollback, RollbackRequest, FreshChecks, Fresh, IInv, TypeOK, Exists
  <2>3. row \in ReleaseRow /\ row.status = "pending_review" /\ row.publishedAt = Never
    BY <2>2, ReleaseConstants DEF ReleaseRow, Flush
  <2>4. release' = [release EXCEPT ![r.version] = row]
    BY <1>4 DEF CommitRollback
  <2> QED BY <2>2, <2>3, <2>4
<1>5. CASE ReadCourse(c) \/ CommitUpdateCourse(c) \/ CommitDeleteCourse(c)
  BY <1>5 DEF ReadCourse, CommitUpdateCourse, CommitDeleteCourse, rows
<1> QED BY <1>1, <1>2, <1>3, <1>4, <1>5 DEF Commit

\* A request that is accepted is newer than all that was published.
LEMMA CheckDates ==
    ASSUME IInv, NEW c \in Client, Check(c)
    PROVE  /\ UNCHANGED release /\ clock' = clock + 1
           /\ Creating(request'[c]) \/ request'[c].op \in ReviewOp => request'[c].at = clock + 1
<1>1. ASSUME NEW r, Accept(c, r) PROVE request'[c] = r /\ UNCHANGED release /\ clock' = clock + 1
  BY <1>1 DEF Accept, rows, IInv, TypeOK
<1>2. ASSUME NEW v \in Version, CheckCreate(c, v) \/ CheckPublish(c, v) \/ CheckSubmitCourse(c, v)
      PROVE  \E r : Accept(c, r) /\ r.at = clock + 1
  BY <1>2 DEF CheckCreate, CheckPublish, CheckSubmitCourse, Creation
<1>3. ASSUME NEW v \in Version, NEW op \in ReviewOp, CheckReview(c, v, op)
      PROVE  \E r : Accept(c, r) /\ r.at = clock + 1
  BY <1>3 DEF CheckReview
<1>4. ASSUME NEW v \in Version, CheckRollback(c, v)
      PROVE  \E r : Accept(c, r) /\ r.op = "rollback"
  BY <1>4 DEF CheckRollback
<1>5. ASSUME NEW s \in CourseStatus, CheckUpdateCourse(c, s)
      PROVE  \E r : Accept(c, r) /\ r.op = "update"
  BY <1>5 DEF CheckUpdateCourse
<1>6. ASSUME CheckDeleteCourse(c)
      PROVE  \E r : Accept(c, r) /\ r.op = "delete"
  BY <1>6 DEF CheckDeleteCourse
<1>7. \E r : Accept(c, r) /\ (r.at = clock + 1 \/ r.op \in {"rollback", "update", "delete"})
  BY <1>2, <1>3, <1>4, <1>5, <1>6 DEF Check
<1> QED BY <1>1, <1>7 DEF Creating

LEMMA SerialStep ==
    ASSUME \A c, d \in Client : c = d, SerialInv, [Next]_vars
    PROVE  SerialInv'
<1> USE DEF SerialInv
<1>1. IInv' /\ FreshChecks'
  BY Inductive, FreshStep
<1>2. /\ clock \in Nat
      /\ \A v \in Version : Exists(v) => release[v] \in ReleaseRow /\ release[v].publishedAt \in Nat
  BY ReleaseConstants DEF IInv, TypeOK, Exists, ReleaseRow
<1>3. CASE UNCHANGED vars
  BY <1>1, <1>3 DEF vars, PublishedIffDated, DatesInOrder, Exists, Creating
<1>4. ASSUME NEW c \in Client, Check(c) PROVE SerialInv'
  <2>1. /\ UNCHANGED release /\ clock' = clock + 1
        /\ Creating(request'[c]) \/ request'[c].op \in ReviewOp => request'[c].at = clock + 1
    BY <1>4, CheckDates
  <2>2. PublishedIffDated'
    BY <2>1 DEF PublishedIffDated, Exists
  <2>3. \A v \in Version : Exists(v)' => release'[v].publishedAt <= clock /\ release'[v].publishedAt \in Nat
    BY <1>2, <2>1 DEF DatesInOrder, Exists
  <2>4. clock + 1 \in 1..clock'
    BY <1>2, <2>1
  <2>5. \A d \in Client : d = c
    OBVIOUS
  <2>6. DatesInOrder'
    BY <1>2, <2>1, <2>3, <2>4, <2>5 DEF DatesInOrder, Creating
  <2> QED BY <1>1, <2>2, <2>6
<1>5. ASSUME NEW c \in Client, ReadCourse(c) PROVE SerialInv'
  <2>1. request[c] \in ReviewRequest
    BY <1>5, RequestKinds DEF ReadCourse, IInv, TypeOK
  <2>2. /\ request'[c] = [request[c] EXCEPT !.course = course]
        /\ UNCHANGED <<release, clock>>
    BY <1>5 DEF ReadCourse, rows, IInv, TypeOK
  <2>3. request'[c].op = request[c].op /\ request'[c].at = request[c].at
    BY <2>1, <2>2 DEF ReviewRequest
  <2>4. \A d \in Client : d = c
    OBVIOUS
  <2>5. PublishedIffDated' /\ DatesInOrder'
    BY <2>2, <2>3, <2>4 DEF PublishedIffDated, DatesInOrder, Exists, Creating
  <2> QED BY <1>1, <2>5
<1>6. ASSUME NEW c \in Client, Finish(c), Commit(c) \/ Abort(c) PROVE SerialInv'
  <2>1. clock' = clock /\ \A d \in Client : request'[d].op = "idle"
    BY <1>6 DEF Finish, IInv, TypeOK
  <2>2. CASE UNCHANGED release
    BY <1>1, <2>1, <2>2 DEF PublishedIffDated, DatesInOrder, Exists, Creating
  <2>3. CASE release' = [v \in Version |-> NoRelease]
    BY <1>1, <2>1, <2>3 DEF PublishedIffDated, DatesInOrder, Exists, Creating
  <2>4. ASSUME NEW v \in Version, NEW row \in ReleaseRow,
               release' = [release EXCEPT ![v] = row],
               \/ /\ row.status = "published" /\ row.publishedAt = request[c].at
                  /\ Creating(request[c]) \/ request[c].op = "approve"
               \/ row.status # "published" /\ row.publishedAt = Never
        PROVE  SerialInv'
    <3>1. /\ row.status = "published" <=> row.publishedAt # Never
          /\ row.publishedAt <= clock
      BY <1>2, <2>4 DEF DatesInOrder
    <3>2. /\ release'[v] = row
          /\ \A w \in Version : w # v => release'[w] = release[w]
      BY <2>4 DEF IInv, TypeOK
    <3>3. PublishedIffDated'
      BY <3>1, <3>2 DEF PublishedIffDated, Exists
    <3>4. DatesInOrder'
      BY <2>1, <3>1, <3>2 DEF DatesInOrder, Exists, Creating
    <3> QED BY <1>1, <3>3, <3>4
  <2>5. CASE Abort(c)
    BY <2>2, <2>5 DEF Abort, rows
  <2>6. CASE Commit(c)
    BY <2>2, <2>3, <2>4, <2>6, ReleaseSteps
  <2> QED BY <1>6, <2>5, <2>6
<1>7. ASSUME NEW c \in Client, Commit(c) \/ Abort(c) PROVE ReadCourse(c) \/ Finish(c)
  BY <1>7 DEF Commit, Abort, CommitCreate, CommitApprove, CommitReview, CommitRollback,
              CommitUpdateCourse, CommitDeleteCourse
<1> QED BY <1>3, <1>4, <1>5, <1>6, <1>7 DEF Next

LEMMA SerialInvariance ==
    ASSUME \A c, d \in Client : c = d
    PROVE  Spec => []SerialInv
<1>1. Init => SerialInv
  <2> SUFFICES ASSUME Init PROVE SerialInv
    OBVIOUS
  <2>1. PublishedIffDated /\ DatesInOrder
    BY DEF Init, PublishedIffDated, DatesInOrder, Exists, Creating
  <2> QED BY <2>1, Initially, FreshInit DEF SerialInv
<1>2. SerialInv /\ [Next]_vars => SerialInv'
  BY SerialStep
<1> QED BY <1>1, <1>2, PTL DEF Spec

\* Without overlapping requests, exactly the published releases carry a date.
THEOREM DatesMarkPublished ==
    ASSUME \A c, d \in Client : c = d
    PROVE  Spec => []PublishedIffDated
BY SerialInvariance, PTL DEF SerialInv

\* The bundle served after a step that published v.
Serving == \A v \in Published' \ Published : Served' = v

LEMMA ServingStep ==
    ASSUME SerialInv, Next
    PROVE  Serving
<1> SUFFICES ASSUME NEW v \in Published' \ Published PROVE Served' = v
  BY DEF Serving
<1> USE DEF SerialInv
<1>1. v \in Version /\ Exists(v)' /\ release'[v].status = "published" /\ release'[v] # release[v]
  BY DEF Published, Exists
<1>2. PICK c \in Client : Commit(c)
  BY <1>1, CheckDates DEF Next, Abort, rows
<1>3. PICK row \in ReleaseRow :
          /\ release' = [release EXCEPT ![v] = row]
          /\ row.status = "published" /\ row.publishedAt = request[c].at
          /\ Creating(request[c]) \/ request[c].op = "approve"
  BY <1>1, <1>2, ReleaseSteps DEF Exists, IInv, TypeOK
<1>4. /\ release'[v].publishedAt = request[c].at
      /\ \A w \in Version : w # v => release'[w] = release[w]
  BY <1>1, <1>3 DEF IInv, TypeOK
<1>5. /\ request[c].at \in Nat
      /\ \A w \in Version : Exists(w) => /\ release[w].publishedAt \in Nat
                                         /\ release[w].publishedAt < request[c].at
  BY <1>3, ReleaseConstants DEF DatesInOrder, IInv, TypeOK, Exists, ReleaseRow
<1>6. \A w \in Published' : w # v => release'[w].publishedAt < release'[v].publishedAt
  BY <1>4, <1>5 DEF Published, Exists
<1>7. \A w \in Published' : release'[w].publishedAt \in Nat
  BY <1>4, <1>5 DEF Published, Exists
<1>8. \A w \in Published' :
          (\A u \in Published' : release'[u].publishedAt <= release'[w].publishedAt) <=> w = v
  BY <1>6, <1>7
<1>9. Served' = CHOOSE w \in Published' :
                    \A u \in Published' : release'[u].publishedAt <= release'[w].publishedAt
  BY DEF Served
<1> QED BY <1>8, <1>9

\* What is published is what learners get: without overlapping requests, the
\* release that a step publishes is the latest bundle after it.
THEOREM PublishedIsServed ==
    ASSUME \A c, d \in Client : c = d
    PROVE  Spec => PublishingServes
<1>1. SerialInv /\ [Next]_vars => [Serving]_vars
  BY ServingStep
<1>2. Spec => [][Serving]_vars
  BY <1>1, SerialInvariance, PTL DEF Spec
<1> QED BY <1>2 DEF PublishingServes, Serving
=============================================================================

-------------------------- MODULE CourseSubmission --------------------------
(***************************************************************************)
(* The dialog of the course builder that sends a course to review: it      *)
(* checks the copy on the screen, forms the version from the releases it   *)
(* lists, submits, and has a second try with the next version when it      *)
(* takes the refusal for a taken version.  The service builds the release  *)
(* from what is saved, not from the screen.                                *)
(***************************************************************************)
EXTENDS Naturals, FiniteSets, FiniteSetsExt

CONSTANTS
    Content,     \* what a course may hold
    Lacking,     \* where the dialog finds an error
    Invalid,     \* where the service finds one
    Press,       \* presses of the button, numbered
    Odd,         \* a version the dialog cannot parse
    MaxVersion,  \* versions 1.0.0, 1.0.1, ... as numbers
    MaxMoves     \* other things that happen: edits, colleagues, openings

ASSUME SubmissionAssumption ==
    /\ Lacking \subseteq Content /\ Invalid \subseteq Content /\ Content # {}
    /\ MaxVersion \in Nat \ {0} /\ MaxMoves \in Nat
    /\ Press \subseteq Nat \ {0}

VARIABLES
    copy,      \* the course of the store, whether it has unsaved edits, and whether the
               \* page shows an error in place of the builder
    onServer,  \* the course as saved
    releases,  \* versions with their content and the press that made them
    dialog,    \* the open dialog, or none
    submits,   \* of each press, how far it got
    moves

submissionVars == <<copy, onServer, releases, dialog, submits, moves>>

Colleague == 0
NoDialog == [open |-> FALSE, version |-> 1, listed |-> {}, loading |-> FALSE]
NewDialog == [NoDialog EXCEPT !.open = TRUE, !.loading = TRUE]
Unpressed == [at |-> "none", version |-> 1, tries |-> 0, why |-> "none", seen |-> FALSE]

Version == 1..MaxVersion
Versions == {r.version : r \in releases}

\* buildNextVersion: one more than the greatest version it can parse.
NextVersion(listed) == IF listed \ {Odd} = {} THEN 1 ELSE Max(listed \ {Odd}) + 1

Move == moves < MaxMoves /\ moves' = moves + 1

\* An error of the store takes the place of the builder, its dialog included.
DialogDrawn == dialog.open /\ ~copy.error

\* The dialog that was pressed is gone; the submission goes on.
Unseen(all) == [p \in Press |-> [all[p] EXCEPT !.seen = FALSE]]

Breaks(all) == copy' = [copy EXCEPT !.error = TRUE] /\ submits' = Unseen(all)

----------------------------------------------------------------------------
(* The course, and what others do.                                         *)

\* By the builder, or by the keys for undo, which work on any page.
EditContent(c) ==
    /\ c # copy.content /\ Move
    /\ copy' = [copy EXCEPT !.content = c, !.dirty = TRUE]
    /\ UNCHANGED <<onServer, releases, dialog, submits>>

Saves ==
    /\ copy.dirty
    /\ \/ /\ onServer' = copy.content /\ copy' = [copy EXCEPT !.dirty = FALSE]
          /\ UNCHANGED <<submits, moves>>
       \/ Move /\ Breaks(submits) /\ onServer' \in {onServer, copy.content}
    /\ UNCHANGED <<releases, dialog>>

ColleagueSaves(c) ==
    /\ c # onServer /\ Move /\ onServer' = c
    /\ UNCHANGED <<copy, releases, dialog, submits>>

ColleagueReleases(v) ==
    /\ v \notin Versions /\ Move
    /\ releases' = releases \cup {[version |-> v, content |-> onServer, by |-> Colleague]}
    /\ UNCHANGED <<copy, onServer, dialog, submits>>

\* The page is opened again.  Within the application the flag of the dialog
\* outlives the reset of the store; the browser's reload forgets it.
OpenPage ==
    /\ Move
    /\ copy' = [content |-> onServer, dirty |-> FALSE, error |-> FALSE]
    /\ dialog' \in {NoDialog, IF dialog.open THEN NewDialog ELSE NoDialog}
    /\ submits' = Unseen(submits)
    /\ UNCHANGED <<onServer, releases>>

----------------------------------------------------------------------------
(* The dialog.                                                             *)
OpenPublishDialog ==
    /\ ~dialog.open /\ ~copy.error /\ Move
    /\ dialog' = NewDialog
    /\ UNCHANGED <<copy, onServer, releases, submits>>

\* The versions arrive, or the list fails and 1.0.0 stays.
LoadLatestVersion ==
    /\ DialogDrawn /\ dialog.loading
    /\ dialog' \in {[dialog EXCEPT !.loading = FALSE],
                    [dialog EXCEPT !.loading = FALSE, !.listed = Versions,
                                   !.version = NextVersion(Versions)]}
    /\ UNCHANGED <<copy, onServer, releases, submits, moves>>

Close ==
    /\ dialog.open /\ dialog' = NoDialog /\ submits' = Unseen(submits)
    /\ UNCHANGED <<copy, onServer, releases, moves>>

Publishing == \E p \in Press : submits[p].seen

\* runValidation checks the screen again after every change.
HandlePublish(p) ==
    /\ DialogDrawn /\ copy.content \notin Lacking /\ ~Publishing
    /\ submits[p].at = "none" /\ dialog.version \in Version
    /\ submits' = [submits EXCEPT ![p] =
          [at |-> "sent", version |-> dialog.version, tries |-> 1, why |-> "none", seen |-> TRUE]]
    /\ UNCHANGED <<copy, onServer, releases, dialog, moves>>

\* submit_course_for_review: the checks in their order, then the release.
SubmitForReview(p) ==
    /\ submits[p].at = "sent"
    /\ LET s == submits[p]
           Refused(why) == /\ submits' = [submits EXCEPT ![p].at = "refused", ![p].why = why]
                           /\ UNCHANGED releases
       IN CASE onServer \in Invalid ->
                   \E why \in {"invalid", "invalid_quoting"} : Refused(why)
            [] onServer \notin Invalid /\ s.version \in Versions -> Refused("taken")
            [] OTHER ->
                   /\ releases' = releases \cup {[version |-> s.version, content |-> onServer, by |-> p]}
                   /\ submits' = [submits EXCEPT ![p].at = "created"]
    /\ UNCHANGED <<copy, onServer, dialog, moves>>

\* Slip: any failure is taken for a taken version.
RecognisedAny == {"invalid_quoting", "taken", "lost"}
\* The dialog looks for "already exists", "version" or "409" in the message.
\* The router translates the one of a taken version, so it has none of them;
\* the one of a failed check quotes titles.
Recognised == {"invalid_quoting"}

\* publish leaves the error in the store, so that the dialog never shows it.
Failed(p, why) ==
    /\ Breaks([submits EXCEPT ![p].why = why,
                  ![p].at = IF why \in Recognised /\ submits[p].tries = 1 THEN "listing" ELSE "failed"])
    /\ UNCHANGED dialog

\* It closes whatever dialog is open by then.
Answered(p) ==
    /\ \/ /\ submits[p].at = "created"
          /\ dialog' = NoDialog
          /\ submits' = Unseen([submits EXCEPT ![p].at = "done"])
          /\ UNCHANGED copy
       \/ submits[p].at = "refused" /\ Failed(p, submits[p].why)
    /\ UNCHANGED <<onServer, releases, moves>>

AnswerLost(p) ==
    /\ submits[p].at \in {"sent", "created", "refused"} /\ Failed(p, "lost")
    /\ UNCHANGED <<onServer, releases, moves>>

\* The second try, with the version that comes next by now.
TryNextVersion(p) ==
    /\ submits[p].at = "listing"
    /\ LET next == NextVersion(Versions) IN
        \/ /\ next # submits[p].version /\ next \in Version
           /\ submits' = [submits EXCEPT ![p].at = "sent", ![p].version = next, ![p].tries = 2]
        \/ submits' = [submits EXCEPT ![p].at = "failed"]
    /\ UNCHANGED <<copy, onServer, releases, dialog, moves>>

\* The course becomes what the release holds, and so does the screen; what was
\* not saved is gone.  (Its effect on a release's status is ReleaseLifecycle's,
\* the race with the editor CourseEditor's.)
HandleRollback(r) ==
    /\ DialogDrawn /\ r.version \in dialog.listed /\ Move
    /\ \/ /\ onServer' = r.content /\ copy' = [copy EXCEPT !.content = r.content, !.dirty = FALSE]
          /\ dialog' = NoDialog /\ submits' = Unseen(submits)
       \/ onServer' \in {onServer, r.content} /\ Breaks(submits) /\ UNCHANGED dialog
    /\ UNCHANGED releases

----------------------------------------------------------------------------
SubmissionInit ==
    /\ \E c \in Content : copy = [content |-> c, dirty |-> FALSE, error |-> FALSE] /\ onServer = c
    /\ releases = {} /\ dialog = NoDialog /\ moves = 0
    /\ submits = [p \in Press |-> Unpressed]

SubmissionNext ==
    \/ \E c \in Content : EditContent(c) \/ ColleagueSaves(c)
    \/ \E v \in Version \cup {Odd} : ColleagueReleases(v)
    \/ Saves \/ OpenPage \/ OpenPublishDialog \/ LoadLatestVersion \/ Close
    \/ \E p \in Press :
          \/ HandlePublish(p) \/ SubmitForReview(p)
          \/ Answered(p) \/ AnswerLost(p) \/ TryNextVersion(p)
    \/ \E r \in releases : HandleRollback(r)

SubmissionSpec == SubmissionInit /\ [][SubmissionNext]_submissionVars

----------------------------------------------------------------------------
SubmissionTypeOK ==
    /\ copy \in [content : Content, dirty : BOOLEAN, error : BOOLEAN] /\ onServer \in Content
    /\ releases \subseteq [version : Version \cup {Odd}, content : Content, by : Press \cup {Colleague}]
    /\ dialog.version \in Nat /\ dialog.listed \subseteq Version \cup {Odd}
    /\ \A p \in Press : submits[p].at \in {"none", "sent", "created", "refused", "listing", "done", "failed"}

\* A press makes one release at most, although the answer may be lost, a
\* refusal may start a second try and the dialog may be closed and opened
\* meanwhile: the second try follows only refusals (handlePublish).
PressSubmitsOnce ==
    \A p \in Press : Cardinality({r \in releases : r.by = p}) <= 1

\* "The version is formed automatically", says the dialog: a press that is
\* refused because a colleague took the version meanwhile tries the next one.
TakenVersionIsRetried ==
    [][\A p \in Press :
          submits[p].at = "refused" /\ submits[p].why = "taken" /\ submits[p].tries = 1
          /\ submits'[p].at # "refused" /\ submits'[p].why = "taken" => submits'[p].at = "listing"]_submissionVars

=============================================================================

--------------------------- MODULE AuthoringProofs ---------------------------
(***************************************************************************)
(* Safety of the dialog that submits a course, of the header of the        *)
(* builder and of the course wizard, for any number of presses, tabs,      *)
(* requests, texts, competencies, saves and items.                         *)
(***************************************************************************)
EXTENDS CourseSubmission, CourseSettings, CourseWizard, FiniteSetTheorems,
        WellFoundedInduction, SequenceTheorems, TLAPS

-----------------------------------------------------------------------------
(* The dialog that submits a course *)

Submits == [at : {"none", "sent", "created", "refused", "listing", "done", "failed"},
            version : Version, tries : Nat,
            why : {"none", "invalid", "invalid_quoting", "taken", "lost"},
            seen : BOOLEAN]

SubmissionTyped ==
    /\ SubmissionTypeOK
    /\ submits \in [Press -> Submits]
    /\ dialog \in [open : BOOLEAN, version : Nat, listed : SUBSET (Version \cup {Odd}),
                   loading : BOOLEAN]

\* What can still lead to a release has led to none.
MayCreate == {"none", "sent", "refused", "listing"}
UnansweredMadeNone ==
    \A p \in Press : submits[p].at \in MayCreate => \A r \in releases : r.by # p

OnePerPress == \A r, s \in releases : r.by = s.by /\ r.by \in Press => r = s

SubmissionInv == SubmissionTyped /\ UnansweredMadeNone /\ OnePerPress

\* The next version is a number, whatever was listed.
LEMMA NextIsNumber ==
    ASSUME NEW listed \in SUBSET (Version \cup {Odd})
    PROVE  NextVersion(listed) \in Nat
  <1> DEFINE V == listed \ {Odd}
  <1> DEFINE below == {MaxVersion - v : v \in V}
  <1>1. MaxVersion \in Nat /\ V \subseteq 1..MaxVersion
    BY SubmissionAssumption DEF Version
  <1>2. CASE V = {}
    BY <1>2 DEF NextVersion
  <1>3. CASE V # {}
    <2>1. below \subseteq Nat /\ below # {}
      BY <1>1, <1>3
    <2>2. PICK n \in below : \A m \in below : n <= m
      <3> DEFINE R == OpToRel(<, Nat)
      <3>1. IsWellFoundedOn(R, Nat)
        BY NatLessThanWellFounded
      <3>2. \A a, b \in Nat : a < b => <<a, b>> \in R
        BY DEF OpToRel
      <3> HIDE DEF R, below
      <3>3. PICK x \in below : \A y \in below : ~ (<<y, x>> \in R)
        BY <2>1, <3>1, WFMin
      <3>4. ASSUME NEW y \in below PROVE x <= y
        <4>1. x \in Nat /\ y \in Nat
          BY <2>1
        <4>2. ~ (y < x)
          BY <3>2, <3>3, <4>1
        <4> QED
          BY <4>1, <4>2
      <3> QED
        BY <3>4
    <2>3. PICK v \in V : n = MaxVersion - v
      OBVIOUS
    <2>4. \A w \in V : v >= w
      BY <1>1, <2>2, <2>3
    <2>5. Max(V) \in V
      BY <2>3, <2>4 DEF Max
    <2> QED
      BY <1>1, <1>3, <2>5 DEF NextVersion
  <1> QED
    BY <1>2, <1>3

LEMMA SubmissionInitially == SubmissionInit => SubmissionInv
  BY SubmissionAssumption
  DEF SubmissionInit, SubmissionInv, SubmissionTyped, SubmissionTypeOK, Submits, Unpressed, NoDialog,
      Version, UnansweredMadeNone, OnePerPress

LEMMA UnseenTyped ==
    ASSUME NEW all \in [Press -> Submits]
    PROVE  /\ Unseen(all) \in [Press -> Submits]
           /\ \A p \in Press : Unseen(all)[p].at = all[p].at
  BY DEF Unseen, Submits

LEMMA BreaksTyped ==
    ASSUME NEW all \in [Press -> Submits], SubmissionTyped, Breaks(all)
    PROVE  /\ copy' \in [content : Content, dirty : BOOLEAN, error : BOOLEAN]
           /\ submits' \in [Press -> Submits]
           /\ \A p \in Press : submits'[p].at = all[p].at
  BY UnseenTyped DEF Breaks, SubmissionTyped, SubmissionTypeOK

\* A press that failed is over, unless the second try follows a refusal.
LEMMA FailedStep ==
    ASSUME SubmissionTyped, NEW p \in Press, NEW why, Failed(p, why),
           why \in {"invalid", "invalid_quoting", "taken", "lost", "none"},
           UNCHANGED <<onServer, releases>>
    PROVE  /\ SubmissionTyped'
           /\ \A q \in Press \ {p} : submits'[q].at = submits[q].at
           /\ submits'[p].at = "failed" \/ (why = "invalid_quoting" /\ submits'[p].at = "listing")
  <1> DEFINE at == IF why \in Recognised /\ submits[p].tries = 1 THEN "listing" ELSE "failed"
  <1> DEFINE all == [submits EXCEPT ![p].why = why, ![p].at = at]
  <1>1. submits \in [Press -> Submits] /\ submits[p] \in Submits
    BY DEF SubmissionTyped
  <1>2. at \in {"listing", "failed"} /\ (at = "listing" => why = "invalid_quoting")
    BY DEF Recognised
  <1>3. Breaks(all) /\ UNCHANGED dialog
    BY DEF Failed
  <1> HIDE DEF at
  <1>4. /\ all \in [Press -> Submits]
        /\ all[p].at = at
        /\ \A q \in Press \ {p} : all[q].at = submits[q].at
    BY <1>1, <1>2 DEF Submits
  <1> HIDE DEF all
  <1>5. /\ copy' \in [content : Content, dirty : BOOLEAN, error : BOOLEAN]
        /\ submits' \in [Press -> Submits]
        /\ \A q \in Press : submits'[q].at = all[q].at
    BY <1>3, <1>4, BreaksTyped
  <1>6. \A q \in Press : submits'[q].at \in {"none", "sent", "created", "refused", "listing", "done", "failed"}
    BY <1>5 DEF Submits
  <1>7. SubmissionTyped'
    BY <1>3, <1>5, <1>6 DEF SubmissionTyped, SubmissionTypeOK
  <1> QED
    BY <1>2, <1>4, <1>5, <1>7

\* A step that makes no release, and after which no press that was answered can
\* make one.
NoNewRelease ==
    /\ releases' = releases
    /\ \A p \in Press : submits'[p].at \in MayCreate => submits[p].at \in MayCreate

LEMMA NoNewReleaseStep ==
    ASSUME SubmissionInv, SubmissionTyped', NoNewRelease
    PROVE  SubmissionInv'
  BY DEF SubmissionInv, UnansweredMadeNone, OnePerPress, NoNewRelease

LEMMA EditStep ==
    ASSUME SubmissionTyped,
           \/ \E c \in Content : EditContent(c) \/ ColleagueSaves(c)
           \/ Saves
           \/ UNCHANGED submissionVars
    PROVE  SubmissionTyped' /\ NoNewRelease
  <1> USE DEF SubmissionTyped, SubmissionTypeOK, NoNewRelease
  <1>1. ASSUME NEW c \in Content, EditContent(c) PROVE SubmissionTyped' /\ NoNewRelease
    BY <1>1 DEF EditContent
  <1>2. ASSUME NEW c \in Content, ColleagueSaves(c) PROVE SubmissionTyped' /\ NoNewRelease
    BY <1>2 DEF ColleagueSaves
  <1>3. CASE Saves
    <2>1. onServer' \in Content /\ UNCHANGED <<releases, dialog>>
      BY <1>3 DEF Saves
    <2>2. CASE copy' = [copy EXCEPT !.dirty = FALSE] /\ UNCHANGED submits
      BY <2>1, <2>2
    <2>3. CASE Breaks(submits)
      BY <2>1, <2>3, BreaksTyped DEF Submits
    <2> QED
      BY <1>3, <2>2, <2>3 DEF Saves
  <1>4. CASE UNCHANGED submissionVars
    BY <1>4 DEF submissionVars
  <1> QED
    BY <1>1, <1>2, <1>3, <1>4

LEMMA DialogStep ==
    ASSUME SubmissionTyped, OpenPage \/ OpenPublishDialog \/ LoadLatestVersion \/ Close
    PROVE  SubmissionTyped' /\ NoNewRelease
  <1>1. /\ Unseen(submits) \in [Press -> Submits]
        /\ \A p \in Press : Unseen(submits)[p].at = submits[p].at
    BY UnseenTyped DEF SubmissionTyped
  <1> DEFINE Dialogs == [open : BOOLEAN, version : Nat, listed : SUBSET (Version \cup {Odd}),
                         loading : BOOLEAN]
  <1>3. NoDialog \in Dialogs /\ NewDialog \in Dialogs
    BY DEF NoDialog, NewDialog
  <1> USE DEF SubmissionTyped, SubmissionTypeOK, NoNewRelease
  <1>4. CASE OpenPage
    <2>1. dialog' \in Dialogs
      BY <1>3, <1>4 DEF OpenPage
    <2> QED
      BY <1>1, <1>4, <2>1 DEF OpenPage
  <1>5. CASE OpenPublishDialog
    BY <1>3, <1>5 DEF OpenPublishDialog
  <1>6. CASE LoadLatestVersion
    <2>1. Versions \in SUBSET (Version \cup {Odd}) /\ NextVersion(Versions) \in Nat
      BY NextIsNumber DEF Versions
    <2>2. dialog' \in Dialogs
      BY <1>6, <2>1 DEF LoadLatestVersion
    <2> QED
      BY <1>6, <2>2 DEF LoadLatestVersion
  <1>7. CASE Close
    BY <1>1, <1>3, <1>7 DEF Close
  <1> QED
    BY <1>4, <1>5, <1>6, <1>7

LEMMA PressStep ==
    ASSUME SubmissionTyped, NEW p \in Press,
           HandlePublish(p) \/ Answered(p) \/ AnswerLost(p) \/ TryNextVersion(p)
    PROVE  SubmissionTyped' /\ NoNewRelease
  <1>1. submits \in [Press -> Submits] /\ submits[p] \in Submits
    BY DEF SubmissionTyped
  <1>2. CASE HandlePublish(p)
    BY <1>1, <1>2 DEF HandlePublish, Submits, SubmissionTyped, SubmissionTypeOK, NoNewRelease, MayCreate
  <1>3. CASE submits[p].at = "created" /\ Answered(p)
    <2> DEFINE all == [submits EXCEPT ![p].at = "done"]
    <2>1. /\ all \in [Press -> Submits]
          /\ all[p].at = "done"
          /\ \A q \in Press \ {p} : all[q].at = submits[q].at
      BY <1>1 DEF Submits
    <2>2. /\ submits' = Unseen(all) /\ dialog' = NoDialog
          /\ UNCHANGED <<copy, onServer, releases>>
      BY <1>3 DEF Answered
    <2> HIDE DEF all
    <2>3. submits' \in [Press -> Submits] /\ \A q \in Press : submits'[q].at = all[q].at
      BY <2>1, <2>2, UnseenTyped
    <2>4. NoNewRelease
      BY <2>1, <2>2, <2>3 DEF NoNewRelease, MayCreate
    <2> QED
      BY <2>2, <2>3, <2>4 DEF SubmissionTyped, SubmissionTypeOK, NoDialog, Submits
  <1>4. ASSUME submits[p].at = "refused", Answered(p) PROVE SubmissionTyped' /\ NoNewRelease
    <2>1. Failed(p, submits[p].why) /\ UNCHANGED <<onServer, releases>>
      BY <1>4 DEF Answered
    <2>2. submits[p].why \in {"none", "invalid", "invalid_quoting", "taken", "lost"}
      BY <1>1 DEF Submits
    <2> QED
      BY <1>4, <2>1, <2>2, FailedStep DEF NoNewRelease, MayCreate
  <1>5. CASE AnswerLost(p)
    <2>1. Failed(p, "lost") /\ UNCHANGED <<onServer, releases>>
      BY <1>5 DEF AnswerLost
    <2> QED
      BY <2>1, FailedStep DEF NoNewRelease, MayCreate
  <1>6. CASE TryNextVersion(p)
    <2>1. NextVersion(Versions) \in Nat
      BY NextIsNumber DEF Versions, SubmissionTyped, SubmissionTypeOK
    <2> QED
      BY <1>1, <1>6, <2>1
      DEF TryNextVersion, Submits, SubmissionTyped, SubmissionTypeOK, NoNewRelease, MayCreate
  <1> QED
    BY <1>2, <1>3, <1>4, <1>5, <1>6 DEF Answered

LEMMA RollbackStep ==
    ASSUME SubmissionTyped, NEW r \in releases, HandleRollback(r)
    PROVE  SubmissionTyped' /\ NoNewRelease
  <1>1. r.content \in Content /\ submits \in [Press -> Submits]
    BY DEF SubmissionTyped, SubmissionTypeOK
  <1>2. CASE Breaks(submits) /\ onServer' \in {onServer, r.content} /\ UNCHANGED dialog
    <2>1. /\ copy' \in [content : Content, dirty : BOOLEAN, error : BOOLEAN]
          /\ submits' \in [Press -> Submits]
          /\ \A q \in Press : submits'[q].at = submits[q].at
      BY <1>1, <1>2, BreaksTyped
    <2>2. UNCHANGED releases
      BY DEF HandleRollback
    <2> QED
      BY <1>1, <1>2, <2>1, <2>2 DEF SubmissionTyped, SubmissionTypeOK, Submits, NoNewRelease
  <1>3. CASE /\ onServer' = r.content /\ copy' = [copy EXCEPT !.content = r.content, !.dirty = FALSE]
             /\ dialog' = NoDialog /\ submits' = Unseen(submits)
    <2>1. submits' \in [Press -> Submits] /\ \A q \in Press : submits'[q].at = submits[q].at
      BY <1>1, <1>3, UnseenTyped
    <2>2. UNCHANGED releases
      BY DEF HandleRollback
    <2> QED
      BY <1>1, <1>3, <2>1, <2>2 DEF SubmissionTyped, SubmissionTypeOK, Submits, NoNewRelease, NoDialog
  <1> QED
    BY <1>2, <1>3 DEF HandleRollback

\* The colleague's releases are those of no press.
LEMMA ColleagueStep ==
    ASSUME SubmissionInv, NEW v \in Version \cup {Odd}, ColleagueReleases(v)
    PROVE  SubmissionInv'
  <1>1. Colleague \notin Press
    BY SubmissionAssumption DEF Colleague
  <1>2. SubmissionTyped'
    BY DEF ColleagueReleases, SubmissionInv, SubmissionTyped, SubmissionTypeOK
  <1>3. UnansweredMadeNone' /\ OnePerPress'
    BY <1>1 DEF ColleagueReleases, SubmissionInv, UnansweredMadeNone, OnePerPress
  <1> QED
    BY <1>2, <1>3 DEF SubmissionInv

LEMMA SubmitForReviewStep ==
    ASSUME SubmissionInv, NEW p \in Press, SubmitForReview(p)
    PROVE  SubmissionInv'
  <1>1. submits \in [Press -> Submits] /\ submits[p] \in Submits /\ submits[p].at = "sent"
    BY DEF SubmissionInv, SubmissionTyped, SubmitForReview
  <1>2. ASSUME NEW why \in {"invalid", "invalid_quoting", "taken"},
               submits' = [submits EXCEPT ![p].at = "refused", ![p].why = why],
               UNCHANGED <<releases, copy, onServer, dialog>>
        PROVE  SubmissionInv'
    <2>1. submits' \in [Press -> Submits] /\ \A q \in Press \ {p} : submits'[q].at = submits[q].at
      BY <1>1, <1>2 DEF Submits
    <2>2. SubmissionTyped'
      BY <1>2, <2>1 DEF SubmissionInv, SubmissionTyped, SubmissionTypeOK, Submits
    <2>3. NoNewRelease
      BY <1>1, <1>2, <2>1 DEF NoNewRelease, MayCreate
    <2> QED
      BY <2>2, <2>3, NoNewReleaseStep
  <1>3. ASSUME releases' = releases \cup {[version |-> submits[p].version, content |-> onServer, by |-> p]},
               submits' = [submits EXCEPT ![p].at = "created"],
               UNCHANGED <<copy, onServer, dialog>>
        PROVE  SubmissionInv'
    <2>1. submits' \in [Press -> Submits] /\ \A q \in Press \ {p} : submits'[q].at = submits[q].at
      BY <1>1, <1>3 DEF Submits
    <2>2. SubmissionTyped'
      BY <1>1, <1>3, <2>1 DEF SubmissionInv, SubmissionTyped, SubmissionTypeOK, Submits
    <2>3. submits'[p].at = "created" /\ (\A r \in releases : r.by # p)
      BY <1>1, <1>3 DEF SubmissionInv, UnansweredMadeNone, MayCreate
    <2>4. UnansweredMadeNone' /\ OnePerPress'
      BY <1>3, <2>1, <2>3 DEF SubmissionInv, UnansweredMadeNone, OnePerPress, MayCreate
    <2> QED
      BY <2>2, <2>4 DEF SubmissionInv
  <1> QED
    BY <1>2, <1>3 DEF SubmitForReview

LEMMA SubmissionInductive == SubmissionInv /\ [SubmissionNext]_submissionVars => SubmissionInv'
  <1> SUFFICES ASSUME SubmissionInv, [SubmissionNext]_submissionVars PROVE SubmissionInv'
    OBVIOUS
  <1>1. SubmissionTyped
    BY DEF SubmissionInv
  <1>2. CASE SubmissionTyped' /\ NoNewRelease
    BY <1>2, NoNewReleaseStep
  <1> QED
    BY <1>1, <1>2, EditStep, DialogStep, PressStep, RollbackStep, ColleagueStep, SubmitForReviewStep
    DEF SubmissionNext

LEMMA SubmissionInvariance == SubmissionSpec => []SubmissionInv
  BY SubmissionInitially, SubmissionInductive, PTL DEF SubmissionSpec

\* The copy, the releases and the dialog keep their types, whatever version the
\* dialog forms from the list (buildNextVersion).
THEOREM SubmissionIsTyped == SubmissionSpec => []SubmissionTypeOK
  <1>1. SubmissionInv => SubmissionTypeOK
    BY DEF SubmissionInv, SubmissionTyped
  <1> QED
    BY <1>1, SubmissionInvariance, PTL

\* One press of the button creates one release at most: handlePublish tries again
\* only after a refusal, and an answer that was lost is none.
THEOREM PressCreatesOnce == SubmissionSpec => []PressSubmitsOnce
  <1>1. ASSUME SubmissionInv, NEW p \in Press
        PROVE  Cardinality({r \in releases : r.by = p}) <= 1
    <2> DEFINE made == {r \in releases : r.by = p}
    <2>1. CASE made = {}
      BY <2>1, FS_EmptySet
    <2>2. CASE made # {}
      <3>1. PICK r \in made : TRUE
        BY <2>2
      <3>2. made = {r}
        BY <1>1, <3>1 DEF SubmissionInv, OnePerPress
      <3>3. Cardinality({r}) = 1
        BY FS_Singleton
      <3> HIDE DEF made
      <3>4. Cardinality(made) <= 1
        BY <3>2, <3>3
      <3> QED
        BY <3>4 DEF made
    <2> QED
      BY <2>1, <2>2
  <1>2. SubmissionInv => PressSubmitsOnce
    BY <1>1 DEF PressSubmitsOnce
  <1> QED
    BY <1>2, SubmissionInvariance, PTL

-----------------------------------------------------------------------------
(* The header of the builder: texts, competencies *)

Texts == [Field -> Text]
Links == [key : Competency, type : CourseType, by : Nat]
RowsType == [texts : Texts, known : SUBSET Competency, active : SUBSET Competency,
             links : SUBSET Links]
HeaderType == [shown : Texts, past : Seq(Texts), future : Seq(Texts), dirty : BOOLEAN,
               save : {"no", "sent", "served"}, reply : Texts, editing : SUBSET Field,
               drawn : BOOLEAN, clean : BOOLEAN, crossed : BOOLEAN]
PatchType == [n : 1..MaxPatches, field : Field, text : Text]
PaneType == [at : {"closed", "loading", "ready"}, list : SUBSET Competency, links : SUBSET Links,
             unread : SUBSET {"list", "links"}, marks : [Competency -> Mark],
             offered : SUBSET Competency, put : Nat]
PutType == [at : {"sent", "checked", "refused", "written", "over"}, tab : Tab, left : BOOLEAN,
            marks : [Competency -> Mark], seen : SUBSET Links, links : SUBSET Competency,
            offered : SUBSET Competency]

SettingsTyped ==
    /\ rows \in RowsType /\ header \in HeaderType /\ patches \subseteq PatchType
    /\ panes \in [Tab -> PaneType]
    /\ puts \in [Put -> PutType \cup {NoPut}]

\* What is shown without changes, or will be when the answer arrives, is stored.
ShownIsStored ==
    /\ ~header.dirty /\ ~header.crossed => patches = {} /\ header.shown = rows.texts
    /\ header.save = "served" /\ header.clean => patches = {} /\ header.reply = rows.texts

\* What a dialog lists it has been offered, and it marks every link it was told
\* of and does not list.  So does what it sends.
UnlistedIsMarked ==
    /\ \A t \in Tab : panes[t].at = "ready" =>
          /\ panes[t].list \subseteq panes[t].offered
          /\ Keyed(panes[t].links) \ panes[t].offered \subseteq Marked(panes[t].marks)
    /\ \A n \in Put : puts[n].at # "none" =>
          puts[n].links \ puts[n].offered \subseteq Marked(puts[n].marks)

SettingsInv == SettingsTyped /\ ShownIsStored /\ UnlistedIsMarked

LEMMA SettingsInitially == SettingsInit => SettingsInv
  <1> SUFFICES ASSUME SettingsInit PROVE SettingsInv
    OBVIOUS
  <1> DEFINE word == CHOOSE t \in Text : t \notin {Blank, Brief}
  <1>1. word \in Text
    BY SettingsAssumption
  <1> HIDE DEF word
  <1>2. \E known \in SUBSET Competency : \E active \in SUBSET known, linked \in SUBSET known :
           rows = [texts |-> [f \in Field |-> word], known |-> known, active |-> active,
                   links |-> {[key |-> c, type |-> "foundation", by |-> 0] : c \in linked}]
    BY DEF SettingsInit, word
  <1>3. rows \in RowsType
    BY <1>1, <1>2, SettingsAssumption DEF RowsType, Texts, Links
  <1>4. header \in HeaderType
    BY <1>3 DEF SettingsInit, HeaderType, RowsType
  <1>5. ClosedPane \in PaneType
    BY DEF ClosedPane, PaneType, NoMarks, Mark
  <1>6. SettingsTyped
    BY <1>3, <1>4, <1>5 DEF SettingsInit, SettingsTyped
  <1>7. ShownIsStored /\ UnlistedIsMarked
    BY DEF SettingsInit, ShownIsStored, UnlistedIsMarked, ClosedPane, NoPut
  <1> QED
    BY <1>6, <1>7 DEF SettingsInv

-----------------------------------------------------------------------------
(* Title and description *)

\* Whatever is shown next keeps its type.
LEMMA TouchedType ==
    ASSUME header \in HeaderType, NEW shown \in Texts
    PROVE  Touched(shown) \in HeaderType
  <1>1. header.shown \in Texts /\ header.past \in Seq(Texts)
    BY DEF HeaderType
  <1>2. Append(header.past, header.shown) \in Seq(Texts) /\ <<>> \in Seq(Texts)
    BY <1>1, AppendProperties, EmptySeq
  <1> QED
    BY <1>2 DEF Touched, HeaderType

LEMMA HistoryType ==
    ASSUME header \in HeaderType
    PROVE  /\ header.past # <<>> => /\ Last(header.past) \in Texts /\ Front(header.past) \in Seq(Texts)
                                    /\ <<header.shown>> \o header.future \in Seq(Texts)
           /\ header.future # <<>> => /\ Head(header.future) \in Texts /\ Tail(header.future) \in Seq(Texts)
                                      /\ Append(header.past, header.shown) \in Seq(Texts)
  <1>1. header.shown \in Texts /\ header.past \in Seq(Texts) /\ header.future \in Seq(Texts)
    BY DEF HeaderType
  <1>2. ASSUME header.past # <<>>
        PROVE  Last(header.past) \in Texts /\ Front(header.past) \in Seq(Texts)
    BY <1>1, <1>2 DEF Last, Front
  <1>3. <<header.shown>> \o header.future \in Seq(Texts)
    BY <1>1
  <1> QED
    BY <1>1, <1>2, <1>3

\* The steps of the texts leave the dialogs alone.
Dialogs == <<panes, puts>>

LEMMA FieldStep ==
    ASSUME SettingsInv, NEW f \in Field, EditText(f) \/ SubmitText(f) \/ CancelText(f)
    PROVE  SettingsTyped' /\ ShownIsStored' /\ UNCHANGED Dialogs
  <1> USE DEF SettingsInv, SettingsTyped, Dialogs
  <1>1. header \in HeaderType /\ rows \in RowsType
    OBVIOUS
  <1>2. ASSUME EditText(f) \/ CancelText(f)
        PROVE  SettingsTyped' /\ ShownIsStored' /\ UNCHANGED Dialogs
    <2>1. PICK editing \in SUBSET Field : header' = [header EXCEPT !.editing = editing]
      BY <1>1, <1>2 DEF EditText, CancelText, HeaderType
    <2>2. UNCHANGED <<rows, patches, panes, puts>>
      BY <1>2 DEF EditText, CancelText
    <2>3. header' \in HeaderType
      BY <1>1, <2>1 DEF HeaderType
    <2>4. ShownIsStored'
      BY <1>1, <2>1, <2>2 DEF ShownIsStored, HeaderType
    <2> QED
      BY <2>2, <2>3, <2>4
  <1>3. ASSUME SubmitText(f), UNCHANGED patches, header' = [header EXCEPT !.editing = @ \ {f}]
        PROVE  SettingsTyped' /\ ShownIsStored' /\ UNCHANGED Dialogs
    BY <1>3 DEF SubmitText, ShownIsStored, HeaderType
  <1>4. ASSUME NEW t \in Text, NEW n \in 1..MaxPatches, SubmitText(f),
               patches' = patches \cup {[n |-> n, field |-> f, text |-> t]},
               header' = [Touched([header.shown EXCEPT ![f] = t]) EXCEPT !.editing = @ \ {f}, !.clean = FALSE]
        PROVE  SettingsTyped' /\ ShownIsStored' /\ UNCHANGED Dialogs
    <2> DEFINE touched == Touched([header.shown EXCEPT ![f] = t])
    <2>1. [header.shown EXCEPT ![f] = t] \in Texts
      BY <1>1 DEF HeaderType, Texts
    <2>2. touched \in HeaderType
      BY <1>1, <2>1, TouchedType
    <2>3. touched.dirty
      BY <1>1 DEF Touched, HeaderType
    <2> HIDE DEF touched
    <2>4. header' = [touched EXCEPT !.editing = @ \ {f}, !.clean = FALSE]
      BY <1>4 DEF touched
    <2>5. header' \in HeaderType /\ header'.dirty /\ ~header'.clean
      BY <2>2, <2>3, <2>4 DEF HeaderType
    <2>6. patches' \subseteq PatchType
      BY <1>4 DEF PatchType
    <2> QED
      BY <1>4, <2>5, <2>6 DEF SubmitText, ShownIsStored
  <1> QED
    BY <1>2, <1>3, <1>4 DEF SubmitText

LEMMA PatchStep ==
    ASSUME SettingsInv, NEW p \in patches, ServePatch(p) \/ PatchFails(p)
    PROVE  SettingsTyped' /\ ShownIsStored' /\ UNCHANGED Dialogs
  <1> USE DEF SettingsInv, SettingsTyped, Dialogs
  <1>1. p.field \in Field /\ p.text \in Text
    BY DEF PatchType
  <1>2. rows' \in RowsType
    BY <1>1 DEF ServePatch, PatchFails, RowsType, Texts
  <1>3. patches # {} /\ patches' \subseteq patches /\ UNCHANGED <<header, panes, puts>>
    BY DEF ServePatch, PatchFails
  <1>4. ShownIsStored'
    BY <1>3 DEF ShownIsStored
  <1> QED
    BY <1>2, <1>3, <1>4

LEMMA HistoryStep ==
    ASSUME SettingsInv, EditLessons \/ UndoTexts \/ RedoTexts
    PROVE  SettingsTyped' /\ ShownIsStored' /\ UNCHANGED Dialogs
  <1> USE DEF SettingsInv, SettingsTyped, Dialogs
  <1>1. header \in HeaderType /\ header.shown \in Texts
    BY DEF HeaderType
  <1>2. header' \in HeaderType
    <2>1. CASE EditLessons
      BY <1>1, <2>1, TouchedType DEF EditLessons
    <2>2. CASE UndoTexts
      BY <1>1, <2>2, HistoryType DEF UndoTexts, HeaderType
    <2>3. CASE RedoTexts
      BY <1>1, <2>3, HistoryType DEF RedoTexts, HeaderType
    <2> QED
      BY <2>1, <2>2, <2>3
  <1>3. header'.dirty /\ header'.save = header.save /\ header'.clean = header.clean /\ header'.reply = header.reply
    BY <1>1 DEF EditLessons, Touched, UndoTexts, RedoTexts, HeaderType
  <1>4. UNCHANGED <<rows, patches, panes, puts>>
    BY DEF EditLessons, UndoTexts, RedoTexts
  <1> QED
    BY <1>2, <1>3, <1>4 DEF ShownIsStored

LEMMA SaveStep ==
    ASSUME SettingsInv, SaveLessons \/ ServeLessons \/ LessonsSaved
    PROVE  SettingsTyped' /\ ShownIsStored' /\ UNCHANGED Dialogs
  <1> USE DEF SettingsInv, SettingsTyped, Dialogs
  <1>1. header \in HeaderType /\ rows.texts \in Texts
    BY DEF RowsType
  <1>2. CASE SaveLessons
    BY <1>1, <1>2 DEF SaveLessons, HeaderType, ShownIsStored
  <1>3. CASE ServeLessons
    BY <1>1, <1>3 DEF ServeLessons, HeaderType, ShownIsStored
  <1>4. CASE LessonsSaved
    BY <1>1, <1>4 DEF LessonsSaved, HeaderType, ShownIsStored
  <1> QED
    BY <1>2, <1>3, <1>4

-----------------------------------------------------------------------------
(* The page, which takes its dialog with it *)

LEMMA ClosedPaneType == ClosedPane \in PaneType /\ ClosedPane.at = "closed"
  BY DEF ClosedPane, PaneType, NoMarks, Mark

\* A save that keeps what it sent.
Kept(old, new) ==
    /\ new.at = old.at
    /\ old.at # "none" => new.links = old.links /\ new.offered = old.offered /\ new.marks = old.marks

LEMMA LeftType ==
    ASSUME puts \in [Put -> PutType \cup {NoPut}]
    PROVE  Left \in [Put -> PutType \cup {NoPut}] /\ \A n \in Put : Kept(puts[n], Left[n])
  <1>1. ASSUME NEW n \in Put
        PROVE  Left[n] \in PutType \cup {NoPut} /\ Kept(puts[n], Left[n])
    <2>1. CASE puts[n].at # "none" /\ puts[n].tab = 1
      <3>1. puts[n] \in PutType
        BY <2>1 DEF NoPut
      <3>2. Left[n] = [puts[n] EXCEPT !.left = TRUE]
        BY <2>1 DEF Left
      <3> QED
        BY <3>1, <3>2 DEF PutType, Kept
    <2>2. CASE ~ (puts[n].at # "none" /\ puts[n].tab = 1)
      <3>1. Left[n] = puts[n]
        BY <2>2 DEF Left
      <3> QED
        BY <3>1 DEF Kept
    <2> QED
      BY <2>1, <2>2
  <1>2. Left = [n \in Put |-> Left[n]]
    BY DEF Left
  <1>3. ASSUME NEW f, NEW S, f = [n \in Put |-> f[n]], \A n \in Put : f[n] \in S
        PROVE  f \in [Put -> S]
    BY <1>3
  <1>4. Left \in [Put -> PutType \cup {NoPut}]
    BY <1>1, <1>2, <1>3
  <1> QED
    BY <1>1, <1>4

LEMMA PageStep ==
    ASSUME SettingsInv, LessonsFail \/ ReloadPage
    PROVE  SettingsInv'
  <1> USE DEF SettingsInv, SettingsTyped
  <1>1. header \in HeaderType /\ rows.texts \in Texts /\ 1 \in Tab /\ <<>> \in Seq(Texts)
    BY SettingsAssumption, EmptySeq DEF RowsType
  <1>2. header' \in HeaderType /\ UNCHANGED <<rows, patches>>
    BY <1>1 DEF LessonsFail, ReloadPage, HeaderType
  <1>3. ShownIsStored'
    BY <1>1, <1>2 DEF LessonsFail, ReloadPage, HeaderType, ShownIsStored
  <1>4. panes' = [panes EXCEPT ![1] = ClosedPane] /\ puts' = Left
    BY DEF LessonsFail, ReloadPage
  <1>5. SettingsTyped'
    BY <1>1, <1>2, <1>4, ClosedPaneType, LeftType
  <1>6. UnlistedIsMarked'
    BY <1>1, <1>4, ClosedPaneType, LeftType DEF UnlistedIsMarked, Kept
  <1> QED
    BY <1>3, <1>5, <1>6

-----------------------------------------------------------------------------
(* The dialogs of the competencies *)

\* The pane a step leaves behind, and what it has to be.
LEMMA PaneReplaced ==
    ASSUME SettingsInv, NEW t \in Tab, NEW pane \in PaneType, OnPane(t, pane),
           UNCHANGED <<puts, header, patches>>, rows' \in RowsType, rows'.texts = rows.texts,
           pane.at = "ready" =>
              /\ pane.list \subseteq pane.offered
              /\ Keyed(pane.links) \ pane.offered \subseteq Marked(pane.marks)
    PROVE  SettingsInv'
  <1>1. panes' \in [Tab -> PaneType] /\ panes'[t] = pane /\ \A u \in Tab \ {t} : panes'[u] = panes[u]
    BY DEF OnPane, SettingsInv, SettingsTyped
  <1>2. SettingsTyped'
    BY <1>1 DEF SettingsInv, SettingsTyped
  <1>3. ShownIsStored'
    BY DEF SettingsInv, ShownIsStored
  <1>4. UnlistedIsMarked'
    BY <1>1 DEF SettingsInv, UnlistedIsMarked
  <1> QED
    BY <1>2, <1>3, <1>4 DEF SettingsInv

\* A link of the page is marked with its type.
LEMMA LinkIsMarked ==
    ASSUME NEW links \in SUBSET Links
    PROVE  /\ Linked(links) \in [Competency -> Mark]
           /\ Keyed(links) \subseteq Marked(Linked(links))
  <1>1. ASSUME NEW c \in Competency, c \in Keyed(links)
        PROVE  (CHOOSE l \in links : l.key = c).type \in CourseType
    <2>1. \E l \in links : l.key = c
      BY <1>1 DEF Keyed
    <2> QED
      BY <2>1 DEF Links
  <1>2. Keyed(links) \subseteq Competency
    BY DEF Keyed, Links
  <1> QED
    BY <1>1, <1>2, SettingsAssumption DEF Linked, Marked, Mark

LEMMA LoadStep ==
    ASSUME SettingsInv, NEW t \in Tab,
           OpenPane(t) \/ ReadPane(t) \/ PaneLoaded(t) \/ PaneUnread(t) \/ ClosePane(t)
    PROVE  SettingsInv'
  <1>1. /\ panes \in [Tab -> PaneType] /\ panes[t] \in PaneType /\ rows \in RowsType
        /\ ClosedPane \in PaneType /\ ClosedPane.at = "closed"
    BY ClosedPaneType DEF SettingsInv, SettingsTyped
  <1>2. CASE OpenPane(t)
    <2>1. [ClosedPane EXCEPT !.at = "loading", !.unread = {"list", "links"}] \in PaneType
      BY <1>1 DEF PaneType
    <2> QED
      BY <1>1, <1>2, <2>1, PaneReplaced DEF OpenPane, PaneType
  <1>3. CASE ReadPane(t)
    <2>1. PICK what \in panes[t].unread :
             OnPane(t, [panes[t] EXCEPT !.unread = @ \ {what},
                                        !.list = IF what = "list" THEN rows.active ELSE @,
                                        !.links = IF what = "links" THEN rows.links ELSE @])
      BY <1>3 DEF ReadPane
    <2> DEFINE pane == [panes[t] EXCEPT !.unread = @ \ {what},
                                        !.list = IF what = "list" THEN rows.active ELSE @,
                                        !.links = IF what = "links" THEN rows.links ELSE @]
    <2>2. pane \in PaneType /\ pane.at = "loading"
      BY <1>1, <1>3 DEF ReadPane, PaneType, RowsType
    <2> QED
      BY <1>1, <1>3, <2>1, <2>2, PaneReplaced DEF ReadPane
  <1>4. CASE PaneLoaded(t)
    <2> DEFINE pane == [panes[t] EXCEPT !.at = "ready", !.marks = MarksOf(panes[t]),
                                        !.offered = @ \cup panes[t].list]
    <2>1. /\ panes[t].links \in SUBSET Links /\ panes[t].list \in SUBSET Competency
          /\ panes[t].offered \in SUBSET Competency
      BY <1>1 DEF PaneType
    <2>2. /\ MarksOf(panes[t]) \in [Competency -> Mark]
          /\ Keyed(panes[t].links) \subseteq Marked(MarksOf(panes[t]))
      BY <2>1, LinkIsMarked DEF MarksOf
    <2>3. /\ pane \in PaneType /\ pane.list \subseteq pane.offered
          /\ Keyed(pane.links) \subseteq Marked(pane.marks)
      BY <1>1, <2>1, <2>2 DEF PaneType
    <2> QED
      BY <1>1, <1>4, <2>3, PaneReplaced DEF PaneLoaded
  <1>5. CASE PaneUnread(t)
    <2> DEFINE pane == [panes[t] EXCEPT !.at = "ready", !.links = {}, !.unread = {}, !.list = panes[t].offered]
    <2>1. pane \in PaneType /\ pane.list = pane.offered /\ Keyed(pane.links) = {}
      BY <1>1 DEF PaneType, Keyed
    <2> QED
      BY <1>1, <1>5, <2>1, PaneReplaced DEF PaneUnread
  <1>6. CASE ClosePane(t)
    BY <1>1, <1>6, PaneReplaced DEF ClosePane
  <1> QED
    BY <1>2, <1>3, <1>4, <1>5, <1>6

LEMMA MarkStep ==
    ASSUME SettingsInv, NEW t \in Tab, NEW c \in Competency, Toggle(t, c) \/ UpdateCourseType(t, c)
    PROVE  SettingsInv'
  <1>1. /\ panes \in [Tab -> PaneType] /\ panes[t] \in PaneType /\ rows \in RowsType
        /\ "foundation" \in CourseType
    BY SettingsAssumption DEF SettingsInv, SettingsTyped
  <1>2. PICK y \in Mark : OnPane(t, [panes[t] EXCEPT !.marks[c] = y])
    <2>1. CASE Toggle(t, c)
      <3> DEFINE y == IF panes[t].marks[c] = Unlinked THEN "foundation" ELSE Unlinked
      <3>1. y \in Mark
        BY <1>1 DEF Mark
      <3>2. OnPane(t, [panes[t] EXCEPT !.marks[c] = y])
        BY <1>1, <2>1 DEF Toggle, PaneType
      <3> QED
        BY <3>1, <3>2
    <2>2. CASE UpdateCourseType(t, c)
      BY <2>2 DEF UpdateCourseType, Mark
    <2> QED
      BY <2>1, <2>2
  <1> DEFINE pane == [panes[t] EXCEPT !.marks[c] = y]
  <1>3. panes[t].at = "ready" /\ c \in panes[t].list /\ UNCHANGED <<rows, header, patches, puts>>
    BY DEF Toggle, UpdateCourseType
  <1>4. /\ pane \in PaneType /\ pane.list = panes[t].list /\ pane.offered = panes[t].offered
        /\ pane.links = panes[t].links /\ Marked(panes[t].marks) \ {c} \subseteq Marked(pane.marks)
    BY <1>1 DEF PaneType, Marked
  <1>5. /\ pane.list \subseteq pane.offered
        /\ Keyed(pane.links) \ pane.offered \subseteq Marked(pane.marks)
    BY <1>3, <1>4 DEF SettingsInv, UnlistedIsMarked
  <1> HIDE DEF pane
  <1>6. OnPane(t, pane)
    BY <1>2 DEF pane
  <1> QED
    BY <1>1, <1>3, <1>4, <1>5, <1>6, PaneReplaced

LEMMA AddCompetencyStep ==
    ASSUME SettingsInv, NEW t \in Tab, AddCompetency(t)
    PROVE  SettingsInv'
  <1>1. /\ panes \in [Tab -> PaneType] /\ panes[t] \in PaneType /\ rows \in RowsType
        /\ "foundation" \in CourseType
    BY SettingsAssumption DEF SettingsInv, SettingsTyped
  <1>2. PICK c \in Competency \ rows.known :
           /\ rows' = [rows EXCEPT !.known = @ \cup {c}, !.active = @ \cup {c}]
           /\ OnPane(t, [panes[t] EXCEPT !.marks[c] = "foundation", !.offered = @ \cup {c},
                                         !.list = IF panes[t].at = "ready" THEN @ \cup {c} ELSE @])
    BY DEF AddCompetency
  <1> DEFINE pane == [panes[t] EXCEPT !.marks[c] = "foundation", !.offered = @ \cup {c},
                                      !.list = IF panes[t].at = "ready" THEN @ \cup {c} ELSE @]
  <1>3. rows' \in RowsType /\ rows'.texts = rows.texts /\ UNCHANGED <<header, patches, puts>>
    BY <1>1, <1>2 DEF RowsType, AddCompetency
  <1>4. /\ pane \in PaneType /\ pane.at = panes[t].at /\ pane.offered = panes[t].offered \cup {c}
        /\ pane.list \subseteq panes[t].list \cup {c} /\ pane.links = panes[t].links
        /\ Marked(panes[t].marks) \subseteq Marked(pane.marks) \cup {c}
    BY <1>1 DEF PaneType, Marked, Mark
  <1>5. pane.at = "ready" => /\ pane.list \subseteq pane.offered
                            /\ Keyed(pane.links) \ pane.offered \subseteq Marked(pane.marks)
    BY <1>4 DEF SettingsInv, UnlistedIsMarked
  <1> HIDE DEF pane
  <1>6. OnPane(t, pane)
    BY <1>2 DEF pane
  <1> QED
    BY <1>3, <1>4, <1>5, <1>6, PaneReplaced

LEMMA HideCompetencyStep ==
    ASSUME SettingsInv, NEW t \in Tab, NEW c \in Competency, HideCompetency(t, c)
    PROVE  SettingsInv'
  <1>1. panes \in [Tab -> PaneType] /\ panes[t] \in PaneType /\ rows \in RowsType
    BY DEF SettingsInv, SettingsTyped
  <1> DEFINE pane == [panes[t] EXCEPT !.list = @ \ {c}, !.marks[c] = Unlinked]
  <1>2. rows' \in RowsType /\ rows'.texts = rows.texts /\ UNCHANGED <<header, patches, puts>>
    BY <1>1 DEF RowsType, HideCompetency
  <1>3. panes[t].at = "ready" /\ c \in panes[t].list /\ (OnPane(t, pane) \/ OnPane(t, panes[t]))
    BY <1>1 DEF HideCompetency, OnPane
  <1>4. /\ panes[t].list \subseteq panes[t].offered
        /\ Keyed(panes[t].links) \ panes[t].offered \subseteq Marked(panes[t].marks)
    BY <1>3 DEF SettingsInv, UnlistedIsMarked
  <1>5. /\ pane \in PaneType /\ pane.list \subseteq panes[t].list /\ pane.offered = panes[t].offered
        /\ pane.links = panes[t].links /\ Marked(panes[t].marks) \subseteq Marked(pane.marks) \cup {c}
    BY <1>1 DEF PaneType, Marked, Mark
  <1> HIDE DEF pane
  <1>6. CASE OnPane(t, pane)
    BY <1>2, <1>3, <1>4, <1>5, <1>6, PaneReplaced
  <1>7. CASE OnPane(t, panes[t])
    BY <1>1, <1>2, <1>4, <1>7, PaneReplaced
  <1> QED
    BY <1>3, <1>6, <1>7

\* What is sent is what was marked.
LEMMA PressSaveStep ==
    ASSUME SettingsInv, NEW t \in Tab, PressSave(t)
    PROVE  SettingsInv'
  <1>1. /\ panes \in [Tab -> PaneType] /\ panes[t] \in PaneType
        /\ puts \in [Put -> PutType \cup {NoPut}]
    BY DEF SettingsInv, SettingsTyped
  <1> DEFINE put == [at |-> "sent", tab |-> t, left |-> FALSE, marks |-> panes[t].marks, seen |-> {},
                     links |-> Keyed(panes[t].links), offered |-> panes[t].offered]
  <1>2. PICK n \in Put : /\ puts[n].at = "none"
                         /\ puts' = [puts EXCEPT ![n] = put]
                         /\ OnPane(t, [panes[t] EXCEPT !.put = n])
    BY DEF PressSave
  <1> DEFINE pane == [panes[t] EXCEPT !.put = n]
  <1>3. panes[t].at = "ready" /\ UNCHANGED <<rows, header, patches>>
    BY DEF PressSave
  <1>4. /\ panes[t].list \subseteq panes[t].offered
        /\ Keyed(panes[t].links) \ panes[t].offered \subseteq Marked(panes[t].marks)
    BY <1>3 DEF SettingsInv, UnlistedIsMarked
  <1>10. n \in Nat
    BY SettingsAssumption DEF Put
  <1>5. /\ pane \in PaneType /\ pane.list = panes[t].list /\ pane.offered = panes[t].offered
        /\ pane.links = panes[t].links /\ pane.marks = panes[t].marks
    BY <1>1, <1>10 DEF PaneType
  <1>6. put \in PutType /\ put.links \ put.offered \subseteq Marked(put.marks)
    BY <1>1, <1>4 DEF PutType, PaneType, Keyed, Links
  <1> HIDE DEF put, pane
  <1>7. panes' = [panes EXCEPT ![t] = pane]
    BY <1>2 DEF OnPane, pane
  <1>8. SettingsTyped'
    BY <1>1, <1>2, <1>3, <1>5, <1>6, <1>7 DEF SettingsInv, SettingsTyped
  <1>9. UnlistedIsMarked'
    BY <1>1, <1>2, <1>4, <1>5, <1>6, <1>7 DEF SettingsInv, UnlistedIsMarked
  <1> QED
    BY <1>3, <1>8, <1>9 DEF SettingsInv, ShownIsStored

\* The saves, once sent.
LEMMA PutStep ==
    ASSUME SettingsInv, NEW n \in Put, CheckPut(n) \/ WritePut(n) \/ PutAnswered(n) \/ PutFails(n)
    PROVE  SettingsInv'
  <1>1. /\ panes \in [Tab -> PaneType] /\ puts \in [Put -> PutType \cup {NoPut}] /\ rows \in RowsType
        /\ puts[n].at # "none"
    BY DEF SettingsInv, SettingsTyped, CheckPut, WritePut, PutAnswered, PutFails
  <1>2. puts[n] \in PutType /\ puts[n].tab \in Tab
    BY <1>1 DEF PutType, NoPut
  <1>3. PICK at \in {"checked", "refused", "written", "over"}, seen \in SUBSET Links :
           puts' = [puts EXCEPT ![n] = [puts[n] EXCEPT !.at = at, !.seen = seen]]
    <2>1. rows.links \in SUBSET Links /\ puts[n].seen \in SUBSET Links
      BY <1>1, <1>2 DEF RowsType, PutType
    <2>2. CASE CheckPut(n)
      <3>1. PICK at \in {"checked", "refused"} :
               puts' = [puts EXCEPT ![n].at = at, ![n].seen = rows.links]
        BY <2>2 DEF CheckPut
      <3>2. puts' = [puts EXCEPT ![n] = [puts[n] EXCEPT !.at = at, !.seen = rows.links]]
        BY <1>1, <3>1
      <3> QED
        BY <2>1, <3>2
    <2>3. CASE WritePut(n) \/ PutAnswered(n) \/ PutFails(n)
      <3>1. PICK at \in {"refused", "written", "over"} : puts' = [puts EXCEPT ![n].at = at]
        BY <2>3 DEF WritePut, PutAnswered, PutFails
      <3>2. [puts[n] EXCEPT !.at = at] = [puts[n] EXCEPT !.at = at, !.seen = puts[n].seen]
        BY <1>2 DEF PutType
      <3> QED
        BY <1>1, <2>1, <3>1, <3>2
    <2> QED
      BY <2>2, <2>3
  <1> DEFINE put == [puts[n] EXCEPT !.at = at, !.seen = seen]
  <1>4. /\ put \in PutType /\ put.links = puts[n].links /\ put.offered = puts[n].offered
        /\ put.marks = puts[n].marks
    BY <1>2 DEF PutType
  <1> HIDE DEF put
  <1>5. puts' = [puts EXCEPT ![n] = put]
    BY <1>3 DEF put
  <1>6. rows' \in RowsType /\ rows'.texts = rows.texts /\ UNCHANGED <<header, patches>>
    <2>1. CASE UNCHANGED rows
      BY <1>1, <2>1 DEF CheckPut, WritePut, PutAnswered, PutFails
    <2>2. CASE WritePut(n) /\ rows' # rows
      <3> DEFINE new == {[key |-> c, type |-> puts[n].marks[c], by |-> n] : c \in Marked(puts[n].marks)}
      <3>1. new \in SUBSET Links
        BY <1>2, SettingsAssumption DEF Links, Marked, Mark, PutType, Put
      <3>2. rows' = [rows EXCEPT !.links = (rows.links \ puts[n].seen) \cup new]
        BY <2>2 DEF WritePut
      <3> QED
        BY <1>1, <2>2, <3>1, <3>2 DEF WritePut, RowsType
    <2> QED
      BY <2>1, <2>2 DEF CheckPut, PutAnswered, PutFails
  <1>7. /\ panes' \in [Tab -> PaneType]
        /\ \A t \in Tab : panes'[t].at = "ready" =>
               /\ panes[t].at = "ready"
               /\ panes'[t].list = panes[t].list /\ panes'[t].offered = panes[t].offered
               /\ panes'[t].links = panes[t].links /\ panes'[t].marks = panes[t].marks
    <2>1. CASE UNCHANGED panes
      BY <1>1, <2>1
    <2>2. CASE OnPane(puts[n].tab, ClosedPane)
      BY <1>1, <1>2, <2>2, ClosedPaneType DEF OnPane
    <2>3. CASE OnPane(puts[n].tab, [panes[puts[n].tab] EXCEPT !.put = 0])
      <3> DEFINE pane == panes[puts[n].tab]
                 over == [pane EXCEPT !.put = 0]
      <3>1. puts[n].tab \in Tab /\ pane \in PaneType
        BY <1>1, <1>2 DEF PutType
      <3>2. /\ over \in PaneType /\ over.at = pane.at /\ over.list = pane.list
            /\ over.offered = pane.offered /\ over.links = pane.links /\ over.marks = pane.marks
        <4> HIDE DEF pane
        <4> QED
          BY <3>1 DEF PaneType
      <3> HIDE DEF over
      <3>3. panes' = [panes EXCEPT ![puts[n].tab] = over]
        BY <2>3 DEF OnPane, over
      <3> QED
        BY <1>1, <3>1, <3>2, <3>3
    <2> QED
      BY <2>1, <2>2, <2>3 DEF CheckPut, WritePut, PutAnswered, PutFails
  <1>8. SettingsTyped'
    BY <1>1, <1>4, <1>5, <1>6, <1>7 DEF SettingsInv, SettingsTyped
  <1>9. UnlistedIsMarked'
    BY <1>1, <1>4, <1>5, <1>7 DEF SettingsInv, UnlistedIsMarked
  <1> QED
    BY <1>6, <1>8, <1>9 DEF SettingsInv, ShownIsStored

LEMMA SettingsInductive == SettingsInv /\ [SettingsNext]_settingsVars => SettingsInv'
  <1> SUFFICES ASSUME SettingsInv, [SettingsNext]_settingsVars PROVE SettingsInv'
    OBVIOUS
  <1>1. ASSUME SettingsTyped', ShownIsStored', UNCHANGED Dialogs PROVE SettingsInv'
    BY <1>1 DEF SettingsInv, UnlistedIsMarked, Dialogs
  <1>2. CASE TextsNext \/ SaveLessons
    BY <1>1, <1>2, FieldStep, PatchStep, HistoryStep, SaveStep DEF TextsNext
  <1>3. CASE PanesNext
    BY <1>3, LoadStep, MarkStep, AddCompetencyStep, HideCompetencyStep, PressSaveStep, PutStep DEF PanesNext
  <1>4. CASE UNCHANGED settingsVars
    BY <1>4 DEF settingsVars, SettingsInv, SettingsTyped, ShownIsStored, UnlistedIsMarked
  <1> QED
    BY <1>2, <1>3, <1>4, PageStep DEF SettingsNext, PageNext

LEMMA SettingsInvariance == SettingsSpec => []SettingsInv
  BY SettingsInitially, SettingsInductive, PTL DEF SettingsSpec

\* What the header shows, sends and has to undo keeps its type, and so do the
\* dialogs and their saves.
THEOREM SettingsAreTyped == SettingsSpec => []SettingsTyped
  BY SettingsInvariance, PTL DEF SettingsInv

\* A header without changes shows the stored title and description, although the
\* save of the lessons does not send them and its answer replaces them.
THEOREM SavedTextsStored == SettingsSpec => []SavedTextsAreStored
  <1>1. SettingsInv => SavedTextsAreStored
    BY DEF SettingsInv, ShownIsStored, SavedTextsAreStored
  <1> QED
    BY <1>1, SettingsInvariance, PTL

\* replace_course_competencies deletes what it listed and inserts what was sent:
\* what the dialog could not list is among it, for any number of tabs and saves.
THEOREM UnlistedLinksStay == SettingsSpec => UnlistedLinkStays
  <1> DEFINE Stays ==
        \A n \in Put : puts[n].at = "checked" /\ puts'[n].at = "written" =>
           (Keyed(rows.links) \cap puts[n].links) \ puts[n].offered \subseteq Keyed(rows'.links)
  <1>1. SettingsInv /\ [SettingsNext]_settingsVars => Stays
    <2> SUFFICES ASSUME SettingsInv, [SettingsNext]_settingsVars, NEW n \in Put,
                        puts[n].at = "checked", puts'[n].at = "written"
                 PROVE  puts[n].links \ puts[n].offered \subseteq Keyed(rows'.links)
      OBVIOUS
    <2>1. puts \in [Put -> PutType \cup {NoPut}] /\ rows \in RowsType
      BY DEF SettingsInv, SettingsTyped
    <2>2. WritePut(n)
      <3>1. CASE UNCHANGED puts
        BY <3>1
      <3>2. CASE puts' = Left
        BY <2>1, <3>2, LeftType DEF Kept
      <3>3. ASSUME NEW t \in Tab, PressSave(t) PROVE FALSE
        BY <2>1, <3>3 DEF PressSave
      <3>4. ASSUME NEW m \in Put, CheckPut(m) \/ WritePut(m) \/ PutAnswered(m) \/ PutFails(m)
            PROVE  WritePut(n)
        <4>1. m = n
          BY <2>1, <3>4 DEF CheckPut, WritePut, PutAnswered, PutFails
        <4> QED
          BY <2>1, <3>4, <4>1 DEF CheckPut, PutAnswered, PutFails
      <3>5. CASE TextsNext \/ PageNext \/ UNCHANGED settingsVars
        BY <3>1, <3>2, <3>5 DEF TextsNext, PageNext, settingsVars, EditText, SubmitText, CancelText,
             ServePatch, PatchFails, EditLessons, UndoTexts, RedoTexts, ServeLessons, LessonsSaved,
             SaveLessons, LessonsFail, ReloadPage
      <3>6. CASE PanesNext
        BY <3>1, <3>3, <3>4, <3>6 DEF PanesNext, OpenPane, ReadPane, PaneLoaded, PaneUnread,
             AddCompetency, ClosePane, Toggle, UpdateCourseType, HideCompetency
      <3> QED
        BY <3>5, <3>6 DEF SettingsNext
    <2>3. /\ puts[n].links \ puts[n].offered \subseteq Marked(puts[n].marks)
      BY DEF SettingsInv, UnlistedIsMarked
    <2>4. Marked(puts[n].marks) \subseteq Keyed(rows'.links)
      <3> DEFINE new == {[key |-> c, type |-> puts[n].marks[c], by |-> n] : c \in Marked(puts[n].marks)}
      <3>1. rows'.links = (rows.links \ puts[n].seen) \cup new
        <4>1. puts' # [puts EXCEPT ![n].at = "refused"]
          <5>1. puts[n] \in PutType
            BY <2>1 DEF NoPut
          <5>2. [puts EXCEPT ![n].at = "refused"][n].at = "refused"
            BY <2>1, <5>1 DEF PutType
          <5> QED
            BY <5>2
        <4>2. rows' = [rows EXCEPT !.links = (rows.links \ puts[n].seen) \cup new]
          BY <2>2, <4>1 DEF WritePut
        <4> QED
          BY <2>1, <4>2 DEF RowsType
      <3>2. ASSUME NEW c \in Marked(puts[n].marks) PROVE c \in Keyed(new)
        <4>1. [key |-> c, type |-> puts[n].marks[c], by |-> n] \in new
          OBVIOUS
        <4> QED
          BY <4>1 DEF Keyed
      <3> QED
        BY <3>1, <3>2 DEF Keyed
    <2> QED
      BY <2>3, <2>4
  <1> QED
    BY <1>1, SettingsInvariance, PTL DEF SettingsSpec, UnlistedLinkStays

-----------------------------------------------------------------------------
(* Sequences of the wizard *)

Listed(list) == list \in Seq(ToSet(list))

\* A function on 1..n is a list of its values.
LEMMA ListMade ==
    ASSUME NEW n \in Nat, NEW f, f = [i \in 1..n |-> f[i]]
    PROVE  Listed(f) /\ Len(f) = n /\ DOMAIN f = 1..n
  <1>1. f \in [1..n -> ToSet(f)]
    <2>1. \A i \in 1..n : f[i] \in ToSet(f)
      BY DEF ToSet
    <2> QED
      BY <2>1
  <1>2. f \in Seq(ToSet(f))
    BY <1>1
  <1> QED
    BY <1>2 DEF Listed

LEMMA ListHas ==
    ASSUME NEW list, Listed(list)
    PROVE  /\ Len(list) \in Nat /\ DOMAIN list = 1..Len(list)
           /\ list = [i \in 1..Len(list) |-> list[i]]
  BY DEF Listed

LEMMA ListExtended ==
    ASSUME NEW list, Listed(list), NEW x
    PROVE  /\ Listed(Append(list, x)) /\ DOMAIN Append(list, x) = 1..(Len(list) + 1)
           /\ \A i \in DOMAIN list : Append(list, x)[i] = list[i]
           /\ Append(list, x)[Len(list) + 1] = x /\ Len(list) + 1 \notin DOMAIN list
  <1> DEFINE T == ToSet(list) \cup {x}
             more == Append(list, x)
  <1>1. list \in Seq(T) /\ x \in T /\ Len(list) \in Nat /\ DOMAIN list = 1..Len(list)
    BY DEF Listed
  <1> HIDE DEF T
  <1>2. /\ Len(list) \in Nat /\ DOMAIN list = 1..Len(list) /\ DOMAIN more = 1..(Len(list) + 1)
        /\ more = [i \in 1..(Len(list) + 1) |-> more[i]]
        /\ \A i \in DOMAIN list : more[i] = list[i]
        /\ more[Len(list) + 1] = x
    <2>1. more \in Seq(T) /\ Len(more) = Len(list) + 1
      BY <1>1
    <2>2. DOMAIN more = 1..(Len(list) + 1) /\ more = [i \in 1..(Len(list) + 1) |-> more[i]]
      <3> HIDE DEF more
      <3>1. DOMAIN more = 1..Len(more) /\ more = [i \in DOMAIN more |-> more[i]]
        BY <2>1
      <3> QED
        BY <2>1, <3>1
    <2>3. \A i \in DOMAIN list : more[i] = list[i]
      BY <1>1
    <2>4. more[Len(list) + 1] = x
      BY <1>1
    <2> QED
      BY <1>1, <2>2, <2>3, <2>4
  <1> HIDE DEF more
  <1>3. Listed(more)
    BY <1>2, ListMade
  <1> QED
    BY <1>2, <1>3 DEF more

LEMMA ListCut ==
    ASSUME NEW list, Listed(list), NEW i \in DOMAIN list
    PROVE  /\ Listed(RemoveAt(list, i))
           /\ \E from : /\ \A k \in DOMAIN RemoveAt(list, i) : from[k] \in DOMAIN list \ {i} /\ RemoveAt(list, i)[k] = list[from[k]]
                        /\ \A j, k \in DOMAIN RemoveAt(list, i) : from[j] = from[k] => j = k
                        /\ \A j \in DOMAIN list \ {i} : \E k \in DOMAIN RemoveAt(list, i) : from[k] = j
  <1> DEFINE n == Len(list)
             left == SubSeq(list, 1, i - 1)
             right == SubSeq(list, i + 1, n)
             less == RemoveAt(list, i)
             from == [k \in 1..(n - 1) |-> IF k < i THEN k ELSE k + 1]
  <1>1. n \in Nat /\ DOMAIN list = 1..n /\ i \in 1..n /\ list \in Seq(ToSet(list))
    BY ListHas DEF Listed
  <1>2. /\ left \in Seq(ToSet(list)) /\ Len(left) = i - 1
        /\ \A k \in 1..(i - 1) : left[k] = list[k]
    BY <1>1, SubSeqProperties
  <1>3. /\ right \in Seq(ToSet(list)) /\ Len(right) = n - i
        /\ \A k \in 1..(n - i) : right[k] = list[i + k]
    <2>1. right \in Seq(ToSet(list)) /\ Len(right) = n - i
      BY <1>1, SubSeqProperties
    <2>2. \A k \in 1..(n - i) : right[k] = list[i + k]
      BY <1>1, SubSeqProperties
    <2> QED
      BY <2>1, <2>2
  <1>4. less = left \o right
    BY DEF RemoveAt
  <1> HIDE DEF left, right, less
  <1>5. /\ Len(less) = n - 1 /\ less = [k \in 1..(n - 1) |-> less[k]]
        /\ \A k \in 1..(n - 1) : less[k] = IF k < i THEN left[k] ELSE right[k - (i - 1)]
    <2> DEFINE S == ToSet(list)
               m == Len(left)
    <2>0. left \in Seq(S) /\ right \in Seq(S) /\ m = i - 1 /\ Len(right) = n - i /\ less = left \o right
      BY <1>2, <1>3, <1>4
    <2> HIDE DEF S, m
    <2>a. /\ less \in Seq(S) /\ Len(less) = Len(left) + Len(right)
          /\ \A k \in 1..Len(less) : less[k] = IF k <= Len(left) THEN left[k] ELSE right[k - Len(left)]
      BY <2>0, ConcatProperties
    <2>b. Len(less) = n - 1
      BY <1>1, <2>0, <2>a DEF m
    <2>1. /\ Len(less) = n - 1 /\ less = [k \in 1..(n - 1) |-> less[k]]
          /\ \A k \in 1..(n - 1) : less[k] = IF k <= i - 1 THEN left[k] ELSE right[k - (i - 1)]
      <3>1. less = [k \in 1..Len(less) |-> less[k]]
        BY <2>a
      <3>2. Len(left) = i - 1
        BY <2>0 DEF m
      <3> QED
        BY <2>a, <2>b, <3>1, <3>2
    <2>2. \A k \in 1..(n - 1) : k <= i - 1 <=> k < i
      BY <1>1
    <2> QED
      BY <1>1, <2>1, <2>2
  <1>6. Listed(less) /\ DOMAIN less = 1..(n - 1)
    BY <1>1, <1>5, ListMade
  <1>7. ASSUME NEW k \in 1..(n - 1) PROVE from[k] \in DOMAIN list \ {i} /\ less[k] = list[from[k]]
    <2> HIDE DEF n
    <2>1. CASE k < i
      BY <1>1, <1>2, <1>5, <2>1
    <2>2. CASE ~(k < i)
      <3>1. k - (i - 1) \in 1..(n - i) /\ i + (k - (i - 1)) = k + 1 /\ k + 1 \in 1..n /\ k + 1 # i
        BY <1>1, <2>2
      <3>2. less[k] = right[k - (i - 1)] /\ right[k - (i - 1)] = list[k + 1]
        BY <1>3, <1>5, <2>2, <3>1
      <3> QED
        BY <1>1, <2>2, <3>1, <3>2
    <2> QED
      BY <2>1, <2>2
  <1>8. \A j, k \in 1..(n - 1) : from[j] = from[k] => j = k
    BY <1>1
  <1>9. ASSUME NEW j \in DOMAIN list \ {i} PROVE \E k \in 1..(n - 1) : from[k] = j
    <2> DEFINE k == IF j < i THEN j ELSE j - 1
    <2>1. k \in 1..(n - 1) /\ from[k] = j
      BY <1>1, <1>9
    <2> QED
      BY <2>1
  <1> HIDE DEF from, n
  <1> QED
    BY <1>6, <1>7, <1>8, <1>9 DEF less

\* The members of a finite set of numbers are counted off in their order.
LEMMA CountedOff ==
    ASSUME NEW at \in SUBSET Nat, IsFiniteSet(at)
    PROVE  LET N == Cardinality(at)
               count(i) == Cardinality({j \in at : j <= i})
           IN  /\ N \in Nat
               /\ \A i \in at : count(i) \in 1..N
               /\ \A i, j \in at : count(i) = count(j) => i = j
               /\ \A k \in 1..N : \E i \in at : count(i) = k
  <1> DEFINE N == Cardinality(at)
             upTo(i) == {j \in at : j <= i}
             f == [i \in at |-> Cardinality(upTo(i))]
  <1>1. N \in Nat
    BY FS_CardinalityType
  <1>2. ASSUME NEW i \in at PROVE IsFiniteSet(upTo(i)) /\ Cardinality(upTo(i)) \in 1..N
    <2>1. upTo(i) \in SUBSET at /\ upTo(i) # {}
      OBVIOUS
    <2> HIDE DEF upTo
    <2>2. IsFiniteSet(upTo(i)) /\ Cardinality(upTo(i)) <= N
      BY <2>1, FS_Subset
    <2>3. Cardinality(upTo(i)) \in Nat /\ Cardinality(upTo(i)) # 0
      BY <2>1, <2>2, FS_CardinalityType, FS_EmptySet
    <2> QED
      BY <1>1, <2>2, <2>3
  <1>3. ASSUME NEW i \in at, NEW j \in at, i < j PROVE Cardinality(upTo(i)) # Cardinality(upTo(j))
    <2>0. \A x \in at : x \in Int
      OBVIOUS
    <2>1. upTo(i) \in SUBSET upTo(j)
      <3> SUFFICES ASSUME NEW x \in at, x <= i PROVE x <= j
        OBVIOUS
      <3> QED
        BY <1>3, <2>0
    <2>2. j \in upTo(j) /\ j \notin upTo(i)
      BY <1>3, <2>0
    <2> HIDE DEF upTo
    <2> QED
      BY <1>2, <2>1, <2>2, FS_Subset
  <1> HIDE DEF upTo
  <1>4. f \in Injection(at, 1..N) /\ \A i, j \in at : f[i] = f[j] => i = j
    <2>1. f \in [at -> 1..N]
      BY <1>2
    <2>2. ASSUME NEW i \in at, NEW j \in at, f[i] = f[j] PROVE i = j
      BY <1>3, <2>2
    <2> QED
      BY <2>1, <2>2 DEF Injection, IsInjective
  <1>5. IsFiniteSet(1..N) /\ Cardinality(1..N) = N
    BY <1>1, FS_Interval
  <1>6. f \in Surjection(at, 1..N)
    BY <1>4, <1>5, FS_Injection
  <1>7. \A k \in 1..N : \E i \in at : f[i] = k
    BY <1>6 DEF Surjection
  <1>8. \A i \in at : f[i] = Cardinality(upTo(i)) /\ f[i] \in 1..N
    BY <1>2
  <1> HIDE DEF f, N
  <1> QED
    BY <1>1, <1>4, <1>7, <1>8 DEF upTo, N

\* A filter gives the items at its places, each once.
LEMMA ListFiltered ==
    ASSUME NEW list, Listed(list), NEW at \in SUBSET DOMAIN list
    PROVE  /\ Listed(Filtered(list, at))
           /\ \E from : /\ \A k \in DOMAIN Filtered(list, at) : from[k] \in at /\ Filtered(list, at)[k] = list[from[k]]
                        /\ \A j, k \in DOMAIN Filtered(list, at) : from[j] = from[k] => j = k
                        /\ \A j \in at : \E k \in DOMAIN Filtered(list, at) : from[k] = j
  <1> DEFINE N == Cardinality(at)
             count(i) == Cardinality({j \in at : j <= i})
             place(k) == CHOOSE i \in at : count(i) = k
             from == [k \in 1..N |-> place(k)]
  <1>1. at \in SUBSET Nat /\ IsFiniteSet(at)
    <2>1. at \in SUBSET (1..Len(list)) /\ at \in SUBSET Nat /\ Len(list) \in Nat
      BY ListHas
    <2>2. IsFiniteSet(1..Len(list))
      BY <2>1, FS_Interval
    <2> QED
      BY <2>1, <2>2, FS_Subset
  <1>2. /\ N \in Nat
        /\ \A i \in at : count(i) \in 1..N
        /\ \A i, j \in at : count(i) = count(j) => i = j
        /\ \A k \in 1..N : \E i \in at : count(i) = k
    BY <1>1, CountedOff
  <1>3. Filtered(list, at) = [k \in 1..N |-> list[place(k)]]
    BY DEF Filtered
  <1> HIDE DEF count
  <1>4. \A k \in 1..N : place(k) \in at /\ count(place(k)) = k
    BY <1>2
  <1> HIDE DEF place
  <1> DEFINE less == Filtered(list, at)
  <1>5. less = [k \in 1..N |-> less[k]] /\ \A k \in 1..N : less[k] = list[from[k]]
    BY <1>3
  <1> HIDE DEF less, N
  <1>6. Listed(less) /\ DOMAIN less = 1..N
    BY <1>2, <1>5, ListMade
  <1>7. \A k \in 1..N : from[k] \in at
    BY <1>4
  <1>8. \A j, k \in 1..N : from[j] = from[k] => j = k
    BY <1>4
  <1>9. \A j \in at : \E k \in 1..N : from[k] = j
    <2> SUFFICES ASSUME NEW j \in at PROVE from[count(j)] = j /\ count(j) \in 1..N
      OBVIOUS
    <2>1. count(j) \in 1..N
      BY <1>2
    <2>2. place(count(j)) = j
      BY <1>2, <1>4, <2>1
    <2> QED
      BY <2>1, <2>2
  <1> HIDE DEF from
  <1> QED
    BY <1>5, <1>6, <1>7, <1>8, <1>9 DEF less

-----------------------------------------------------------------------------
(* The wizard: what holds while no two saves have overlapped *)

Kind == {"lessons", "modules"}

IsItem(m, n) ==
    /\ m = [id |-> m.id, row |-> m.row, of |-> m.of, text |-> m.text]
    /\ m.id \in 1..(n - 1) /\ m.row \in Nat

\* Items are numbered apart.
IsList(list, n) ==
    /\ Listed(list)
    /\ \A i \in DOMAIN list : IsItem(list[i], n)
    /\ \A i, j \in DOMAIN list : list[i].id = list[j].id => i = j

\* Each module belongs to a lesson.
IsWizard(w) ==
    /\ w = [step |-> w.step, course |-> w.course, title |-> w.title, lessons |-> w.lessons,
            modules |-> w.modules, nextId |-> w.nextId, saving |-> w.saving]
    /\ w.course \in Nat /\ w.nextId \in Nat \ {0}
    /\ \A kind \in Kind : IsList(w[kind], w.nextId)
    /\ \A i \in DOMAIN w.modules : \E j \in DOMAIN w.lessons : w.lessons[j].id = w.modules[i].of

IsCourses(list) ==
    Listed(list) /\ \A i \in DOMAIN list : list[i] = [slug |-> list[i].slug, title |-> list[i].title]
IsRows(list) ==
    Listed(list) /\ \A i \in DOMAIN list : list[i] = [parent |-> list[i].parent, text |-> list[i].text]

IsKept(k) ==
    /\ k = [courses |-> k.courses, lessons |-> k.lessons, modules |-> k.modules]
    /\ IsCourses(k.courses) /\ \A kind \in Kind : IsRows(k[kind])

\* The row of an item is its own, and stands where the item does.
RowsFit(w, k) ==
    /\ w.course # Absent => w.course \in DOMAIN k.courses
    /\ \A kind \in Kind : \A i \in DOMAIN w[kind] :
        w[kind][i].row # Absent =>
            /\ w[kind][i].row \in DOMAIN k[kind]
            /\ \A j \in DOMAIN w[kind] : w[kind][i].row = w[kind][j].row => i = j
    /\ \A i \in DOMAIN w.lessons :
        w.lessons[i].row # Absent => w.course # Absent /\ k.lessons[w.lessons[i].row].parent = w.course
    /\ \A i \in DOMAIN w.modules : \A j \in DOMAIN w.lessons :
        w.lessons[j].id = w.modules[i].of /\ w.modules[i].row # Absent =>
            w.lessons[j].row # Absent /\ k.modules[w.modules[i].row].parent = w.lessons[j].row

IsRequest(r) ==
    /\ r = [kind |-> r.kind, id |-> r.id, row |-> r.row, parent |-> r.parent, text |-> r.text]
    /\ r.kind \in Kind \cup {"course"} /\ r.id \in Nat

\* A request creates the row of the item it was made for, or writes to it.
Aimed(r, w, k) ==
    /\ r.kind = "course" => r.row = w.course
    /\ r.kind \in Kind =>
        /\ r.id < w.nextId /\ (r.row # Absent => r.row \in DOMAIN k[r.kind])
        /\ \A i \in DOMAIN w[r.kind] :
            /\ w[r.kind][i].id = r.id => w[r.kind][i].row = r.row
            /\ r.row # Absent /\ w[r.kind][i].row = r.row => w[r.kind][i].id = r.id
    /\ r.kind = "lessons" => r.parent = w.course
    /\ r.kind = "modules" =>
        /\ r.parent # Absent
        /\ \A i \in DOMAIN w.modules : \A j \in DOMAIN w.lessons :
            w.modules[i].id = r.id /\ w.lessons[j].id = w.modules[i].of => w.lessons[j].row = r.parent

IsSave(q, w, k) ==
    /\ Listed(q) /\ (q # <<>> => w.course # Absent)
    /\ \A x \in DOMAIN q : IsRequest(q[x]) /\ Aimed(q[x], w, k)
    /\ \A x, y \in DOMAIN q : q[x].kind = q[y].kind /\ q[x].id = q[y].id => x = y

SavesAimed(w, k) ==
    /\ saves = [s \in SaveSlot |-> saves[s]]
    /\ \A s \in SaveSlot : IsSave(saves[s], w, k)
    /\ \A s, t \in SaveSlot : saves[s] # <<>> /\ saves[t] # <<>> => s = t

TimersBound ==
    alarm = [t \in Timer |-> alarm[t]] /\ \A t \in Timer : alarm[t] \in {Absent, wizard.course}

ShortFree(w) == \A kind \in Kind : \A i \in DOMAIN w[kind] : w[kind][i].text # Short

Pending(kind, id, text) ==
    \E s \in SaveSlot : \E x \in DOMAIN saves[s] :
        saves[s][x].kind = kind /\ saves[s][x].id = id /\ saves[s][x].text = text

\* What the wizard shows is stored, or about to be.
StoredOrSent(w, k) ==
    /\ w.title # Short => k.courses[w.course].title = w.title \/ Pending("course", Absent, w.title)
    /\ \A kind \in Kind : \A i \in DOMAIN w[kind] :
        \/ w[kind][i].row # Absent /\ k[kind][w[kind][i].row].text = w[kind][i].text
        \/ Pending(kind, w[kind][i].id, w[kind][i].text)
        \/ /\ kind = "modules"
           /\ \E j \in DOMAIN w.lessons : w.lessons[j].id = w.modules[i].of /\ w.lessons[j].row = Absent

\* What is about to be stored is what the wizard shows.
SentIsShown(w) ==
    \A s \in SaveSlot : \A x \in DOMAIN saves[s] : LET r == saves[s][x] IN
        /\ r.kind = "course" => r.text = w.title /\ r.text # Short
        /\ r.kind \in Kind => \E i \in DOMAIN w[r.kind] : w[r.kind][i].id = r.id /\ w[r.kind][i].text = r.text

\* Until the timer of the effect runs again, that is.
Settled(w, k) ==
    alarm["effect"] = Absent /\ w.course # Absent =>
        SentIsShown(w) /\ (ShortFree(w) => StoredOrSent(w, k))

WizardInv ==
    calm => /\ IsWizard(wizard) /\ IsKept(kept) /\ RowsFit(wizard, kept)
            /\ SavesAimed(wizard, kept) /\ TimersBound
            /\ Settled(wizard, kept)

\* The record of a wizard, field by field.
Fields(step, course, title, lessons, modules, nextId, saving) ==
    [step |-> step, course |-> course, title |-> title, lessons |-> lessons,
     modules |-> modules, nextId |-> nextId, saving |-> saving]

LEMMA FieldsSet ==
    ASSUME NEW w, w = Fields(w.step, w.course, w.title, w.lessons, w.modules, w.nextId, w.saving),
           NEW a
    PROVE  /\ [w EXCEPT !.step = a] = Fields(a, w.course, w.title, w.lessons, w.modules, w.nextId, w.saving)
           /\ [w EXCEPT !.saving = a] = Fields(w.step, w.course, w.title, w.lessons, w.modules, w.nextId, a)
           /\ [w EXCEPT !.lessons = a] = Fields(w.step, w.course, w.title, a, w.modules, w.nextId, w.saving)
           /\ [w EXCEPT !.modules = a] = Fields(w.step, w.course, w.title, w.lessons, a, w.nextId, w.saving)
  <1>1. PICK step, course, title, lessons, modules, nextId, saving :
          w = Fields(step, course, title, lessons, modules, nextId, saving)
    OBVIOUS
  <1>2. /\ step = w.step /\ course = w.course /\ title = w.title /\ lessons = w.lessons /\ modules = w.modules
        /\ nextId = w.nextId /\ saving = w.saving
    BY <1>1 DEF Fields
  <1>3. /\ [w EXCEPT !.step = a] = Fields(a, course, title, lessons, modules, nextId, saving)
        /\ [w EXCEPT !.saving = a] = Fields(step, course, title, lessons, modules, nextId, a)
        /\ [w EXCEPT !.lessons = a] = Fields(step, course, title, a, modules, nextId, saving)
        /\ [w EXCEPT !.modules = a] = Fields(step, course, title, lessons, a, nextId, saving)
        /\ [w EXCEPT !.title = a] = Fields(step, course, a, lessons, modules, nextId, saving)
        /\ [w EXCEPT !.course = a] = Fields(step, a, title, lessons, modules, nextId, saving)
    BY <1>1 DEF Fields
  <1> QED
    BY <1>2, <1>3

\* An item of w was one of the wizard, or is new.
Descends(w) ==
    /\ w.course = wizard.course /\ wizard.nextId <= w.nextId
    /\ \A kind \in Kind : \A i \in DOMAIN w[kind] :
        \/ \E j \in DOMAIN wizard[kind] : /\ wizard[kind][j].id = w[kind][i].id
                                          /\ wizard[kind][j].row = w[kind][i].row
                                          /\ wizard[kind][j].of = w[kind][i].of
        \/ w[kind][i].id >= wizard.nextId /\ w[kind][i].row = Absent

\* The lesson of a module that was there is the one it had.
LEMMA LessonDescends ==
    ASSUME IsWizard(wizard), NEW w, IsWizard(w), Descends(w),
           NEW i \in DOMAIN wizard.modules, NEW j \in DOMAIN w.lessons, w.lessons[j].id = wizard.modules[i].of
    PROVE  \E k \in DOMAIN wizard.lessons : /\ wizard.lessons[k].id = wizard.modules[i].of
                                            /\ wizard.lessons[k].row = w.lessons[j].row
  <1>1. PICK k \in DOMAIN wizard.lessons : wizard.lessons[k].id = wizard.modules[i].of
    BY DEF IsWizard
  <1>2. wizard.lessons[k].id \in 1..(wizard.nextId - 1) /\ wizard.nextId \in Nat
    BY DEF IsWizard, IsList, IsItem, Kind
  <1>3. ~(w.lessons[j].id >= wizard.nextId)
    BY <1>1, <1>2
  <1>4. PICK l \in DOMAIN wizard.lessons : wizard.lessons[l].id = w.lessons[j].id /\ wizard.lessons[l].row = w.lessons[j].row
    BY <1>3 DEF Descends, Kind
  <1> QED
    BY <1>4

LEMMA RowsDescend ==
    ASSUME IsWizard(wizard), RowsFit(wizard, kept), NEW w, IsWizard(w), Descends(w)
    PROVE  RowsFit(w, kept)
  <1>1. w.course = wizard.course
    BY DEF Descends
  <1>2. ASSUME NEW kind \in Kind, NEW i \in DOMAIN w[kind], w[kind][i].row # Absent
        PROVE  \E k \in DOMAIN wizard[kind] : /\ wizard[kind][k].id = w[kind][i].id
                                              /\ wizard[kind][k].row = w[kind][i].row
                                              /\ wizard[kind][k].of = w[kind][i].of
    BY <1>2 DEF Descends
  <1>3. ASSUME NEW kind \in Kind, NEW i \in DOMAIN w[kind], w[kind][i].row # Absent
        PROVE  /\ w[kind][i].row \in DOMAIN kept[kind]
               /\ \A j \in DOMAIN w[kind] : w[kind][i].row = w[kind][j].row => i = j
    <2>1. PICK k \in DOMAIN wizard[kind] : wizard[kind][k].id = w[kind][i].id /\ wizard[kind][k].row = w[kind][i].row
      BY <1>2, <1>3
    <2>2. ASSUME NEW j \in DOMAIN w[kind], w[kind][i].row = w[kind][j].row PROVE i = j
      <3>1. PICK l \in DOMAIN wizard[kind] : wizard[kind][l].id = w[kind][j].id /\ wizard[kind][l].row = w[kind][j].row
        BY <1>2, <1>3, <2>2
      <3>2. k = l
        BY <1>3, <2>1, <2>2, <3>1 DEF RowsFit
      <3> QED
        BY <2>1, <3>1, <3>2 DEF IsWizard, IsList
    <2> QED
      BY <1>3, <2>1, <2>2 DEF RowsFit
  <1>4. ASSUME NEW i \in DOMAIN w.lessons, w.lessons[i].row # Absent
        PROVE  w.course # Absent /\ kept.lessons[w.lessons[i].row].parent = w.course
    <2>1. PICK k \in DOMAIN wizard.lessons : wizard.lessons[k].row = w.lessons[i].row
      BY <1>2, <1>4 DEF Kind
    <2> QED
      BY <1>1, <1>4, <2>1 DEF RowsFit
  <1>5. ASSUME NEW i \in DOMAIN w.modules, NEW j \in DOMAIN w.lessons, w.lessons[j].id = w.modules[i].of,
               w.modules[i].row # Absent
        PROVE  w.lessons[j].row # Absent /\ kept.modules[w.modules[i].row].parent = w.lessons[j].row
    <2>1. PICK k \in DOMAIN wizard.modules : wizard.modules[k].row = w.modules[i].row /\ wizard.modules[k].of = w.modules[i].of
      BY <1>2, <1>5 DEF Kind
    <2>2. PICK l \in DOMAIN wizard.lessons : /\ wizard.lessons[l].id = wizard.modules[k].of
                                             /\ wizard.lessons[l].row = w.lessons[j].row
      BY <1>5, <2>1, LessonDescends
    <2> QED
      BY <1>5, <2>1, <2>2 DEF RowsFit
  <1> QED
    BY <1>1, <1>3, <1>4, <1>5 DEF RowsFit

LEMMA AimDescends ==
    ASSUME IsWizard(wizard), NEW w, IsWizard(w), Descends(w), NEW r, r.id \in Nat, Aimed(r, wizard, kept)
    PROVE  Aimed(r, w, kept)
  <1>0. w.course = wizard.course /\ wizard.nextId <= w.nextId /\ wizard.nextId \in Nat /\ w.nextId \in Nat
    BY DEF Descends, IsWizard
  <1>1. CASE r.kind \in Kind
    <2>1. r.id < wizard.nextId
      BY <1>1 DEF Aimed
    <2>2. ASSUME NEW i \in DOMAIN w[r.kind], w[r.kind][i].id = r.id PROVE w[r.kind][i].row = r.row
      <3>1. ~(w[r.kind][i].id >= wizard.nextId)
        BY <1>0, <2>1, <2>2
      <3>2. PICK k \in DOMAIN wizard[r.kind] : wizard[r.kind][k].id = r.id /\ wizard[r.kind][k].row = w[r.kind][i].row
        BY <1>1, <2>2, <3>1 DEF Descends
      <3> QED
        BY <1>1, <3>2 DEF Aimed
    <2>3. ASSUME NEW i \in DOMAIN w[r.kind], r.row # Absent, w[r.kind][i].row = r.row PROVE w[r.kind][i].id = r.id
      <3>1. PICK k \in DOMAIN wizard[r.kind] : wizard[r.kind][k].id = w[r.kind][i].id /\ wizard[r.kind][k].row = r.row
        BY <1>1, <2>3 DEF Descends
      <3> QED
        BY <1>1, <2>3, <3>1 DEF Aimed
    <2>4. ASSUME r.kind = "modules", NEW i \in DOMAIN w.modules, NEW j \in DOMAIN w.lessons,
                 w.modules[i].id = r.id, w.lessons[j].id = w.modules[i].of
          PROVE  w.lessons[j].row = r.parent
      <3>1. ~(w.modules[i].id >= wizard.nextId)
        BY <1>0, <2>1, <2>4
      <3>2. PICK k \in DOMAIN wizard.modules : wizard.modules[k].id = r.id /\ wizard.modules[k].of = w.modules[i].of
        BY <2>4, <3>1 DEF Descends, Kind
      <3>3. PICK l \in DOMAIN wizard.lessons : /\ wizard.lessons[l].id = wizard.modules[k].of
                                               /\ wizard.lessons[l].row = w.lessons[j].row
        BY <2>4, <3>2, LessonDescends
      <3> QED
        BY <2>4, <3>2, <3>3 DEF Aimed
    <2>5. r.id < w.nextId
      BY <1>0, <2>1
    <2> QED
      BY <1>0, <1>1, <2>2, <2>3, <2>4, <2>5 DEF Aimed
  <1>2. CASE r.kind \notin Kind
    BY <1>0, <1>2 DEF Aimed, Kind
  <1> QED
    BY <1>1, <1>2

\* The steps are drawn again: the timer starts, and the items are those that were there, or new.
LEMMA RerenderStep ==
    ASSUME WizardInv, NEW w, IsWizard(w), Descends(w), Rerendered(w), UNCHANGED <<saves, kept, calm>>
    PROVE  WizardInv'
  <1> SUFFICES ASSUME calm PROVE WizardInv'
    BY DEF WizardInv
  <1>1. /\ IsWizard(wizard) /\ IsKept(kept) /\ RowsFit(wizard, kept)
        /\ SavesAimed(wizard, kept) /\ TimersBound
    BY DEF WizardInv
  <1>2. /\ wizard' = w /\ saves' = saves /\ kept' = kept
        /\ alarm' = [alarm EXCEPT !["effect"] = IF w.course = Absent THEN @ ELSE w.course]
    BY DEF Rerendered
  <1>3. w.course = wizard.course
    BY DEF Descends
  <1>4. IsWizard(wizard)'
    BY <1>2 DEF IsWizard, IsList, IsItem, Listed
  <1>5. IsKept(kept)'
    BY <1>1, <1>2 DEF IsKept, IsCourses, IsRows, Listed
  <1>6. RowsFit(w, kept)
    BY <1>1, RowsDescend
  <1>7. SavesAimed(w, kept)
    <2>1. ASSUME NEW s \in SaveSlot PROVE IsSave(saves[s], w, kept)
      <3>1. IsSave(saves[s], wizard, kept)
        BY <1>1 DEF SavesAimed
      <3>2. ASSUME NEW x \in DOMAIN saves[s] PROVE Aimed(saves[s][x], w, kept)
        <4>1. saves[s][x].id \in Nat /\ Aimed(saves[s][x], wizard, kept)
          BY <3>1 DEF IsSave, IsRequest
        <4> QED
          BY <1>1, <4>1, AimDescends
      <3> QED
        BY <1>3, <3>1, <3>2 DEF IsSave
    <2> QED
      BY <1>1, <2>1 DEF SavesAimed
  <1>8. TimersBound' /\ (alarm'["effect"] = Absent => w.course = Absent)
    BY <1>1, <1>2, <1>3 DEF TimersBound, Timer
  <1>9. Settled(wizard, kept)'
    BY <1>2, <1>8 DEF Settled
  <1>10. RowsFit(wizard, kept)' /\ SavesAimed(wizard, kept)'
    BY <1>2, <1>6, <1>7 DEF RowsFit, SavesAimed, IsSave, Aimed, IsRequest
  <1> QED
    BY <1>4, <1>5, <1>8, <1>9, <1>10 DEF WizardInv

LEMMA WizardFields ==
    ASSUME IsWizard(wizard)
    PROVE  wizard = Fields(wizard.step, wizard.course, wizard.title, wizard.lessons, wizard.modules,
                           wizard.nextId, wizard.saving)
  BY DEF IsWizard, Fields

LEMMA WizardPairSet ==
    ASSUME IsWizard(wizard), NEW a, NEW b
    PROVE  /\ [wizard EXCEPT !.lessons = a, !.nextId = b]
                = Fields(wizard.step, wizard.course, wizard.title, a, wizard.modules, b, wizard.saving)
           /\ [wizard EXCEPT !.modules = a, !.nextId = b]
                = Fields(wizard.step, wizard.course, wizard.title, wizard.lessons, a, b, wizard.saving)
           /\ [wizard EXCEPT !.lessons = a, !.modules = b]
                = Fields(wizard.step, wizard.course, wizard.title, a, b, wizard.nextId, wizard.saving)
           /\ [wizard EXCEPT !.title = a, !.saving = b]
                = Fields(wizard.step, wizard.course, a, wizard.lessons, wizard.modules, wizard.nextId, b)
  <1>1. PICK step, course, title, lessons, modules, nextId, saving :
          wizard = Fields(step, course, title, lessons, modules, nextId, saving)
    BY WizardFields
  <1>2. /\ step = wizard.step /\ course = wizard.course /\ title = wizard.title /\ lessons = wizard.lessons
        /\ modules = wizard.modules /\ nextId = wizard.nextId /\ saving = wizard.saving
    BY <1>1 DEF Fields
  <1>3. /\ [wizard EXCEPT !.lessons = a] = Fields(step, course, title, a, modules, nextId, saving)
        /\ [wizard EXCEPT !.modules = a] = Fields(step, course, title, lessons, a, nextId, saving)
        /\ [wizard EXCEPT !.title = a] = Fields(step, course, a, lessons, modules, nextId, saving)
    BY <1>1 DEF Fields
  <1>4. /\ [wizard EXCEPT !.lessons = a, !.nextId = b] = Fields(step, course, title, a, modules, b, saving)
        /\ [wizard EXCEPT !.lessons = a, !.modules = b] = Fields(step, course, title, a, b, nextId, saving)
    <2> DEFINE v == [wizard EXCEPT !.lessons = a]
    <2>1. v = Fields(step, course, title, a, modules, nextId, saving)
      BY <1>3
    <2>2. /\ [wizard EXCEPT !.lessons = a, !.nextId = b] = [v EXCEPT !.nextId = b]
          /\ [wizard EXCEPT !.lessons = a, !.modules = b] = [v EXCEPT !.modules = b]
      OBVIOUS
    <2> HIDE DEF v
    <2>3. /\ [v EXCEPT !.nextId = b] = Fields(step, course, title, a, modules, b, saving)
          /\ [v EXCEPT !.modules = b] = Fields(step, course, title, a, b, nextId, saving)
      BY <2>1 DEF Fields
    <2> QED
      BY <2>2, <2>3
  <1>5. [wizard EXCEPT !.modules = a, !.nextId = b] = Fields(step, course, title, lessons, a, b, saving)
    <2> DEFINE v == [wizard EXCEPT !.modules = a]
    <2>1. v = Fields(step, course, title, lessons, a, nextId, saving)
      BY <1>3
    <2>2. [wizard EXCEPT !.modules = a, !.nextId = b] = [v EXCEPT !.nextId = b]
      OBVIOUS
    <2> HIDE DEF v
    <2>3. [v EXCEPT !.nextId = b] = Fields(step, course, title, lessons, a, b, saving)
      BY <2>1 DEF Fields
    <2> QED
      BY <2>2, <2>3
  <1>6. [wizard EXCEPT !.title = a, !.saving = b] = Fields(step, course, a, lessons, modules, nextId, b)
    <2> DEFINE v == [wizard EXCEPT !.title = a]
    <2>1. v = Fields(step, course, a, lessons, modules, nextId, saving)
      BY <1>3
    <2>2. [wizard EXCEPT !.title = a, !.saving = b] = [v EXCEPT !.saving = b]
      OBVIOUS
    <2> HIDE DEF v
    <2>3. [v EXCEPT !.saving = b] = Fields(step, course, a, lessons, modules, nextId, b)
      BY <2>1 DEF Fields
    <2> QED
      BY <2>2, <2>3
  <1> QED
    BY <1>2, <1>4, <1>5, <1>6

Advanced(a, b, c, d) == [wizard EXCEPT !.course = a, !.title = b, !.step = c, !.saving = d]

LEMMA WizardAdvanced ==
    ASSUME IsWizard(wizard), NEW a, NEW b, NEW c, NEW d
    PROVE  Advanced(a, b, c, d) = Fields(c, a, b, wizard.lessons, wizard.modules, wizard.nextId, d)
  <1>1. PICK step, course, title, lessons, modules, nextId, saving :
          wizard = Fields(step, course, title, lessons, modules, nextId, saving)
    BY WizardFields
  <1>2. /\ step = wizard.step /\ course = wizard.course /\ title = wizard.title /\ lessons = wizard.lessons
        /\ modules = wizard.modules /\ nextId = wizard.nextId /\ saving = wizard.saving
    BY <1>1 DEF Fields
  <1>3. [wizard EXCEPT !.course = a] = Fields(step, a, title, lessons, modules, nextId, saving)
    BY <1>1 DEF Fields
  <1>7. [wizard EXCEPT !.course = a, !.title = b, !.step = c, !.saving = d] = Fields(c, a, b, lessons, modules, nextId, d)
    <2> DEFINE v == [wizard EXCEPT !.course = a]
               x == [v EXCEPT !.title = b]
               y == [x EXCEPT !.step = c]
    <2>1. v = Fields(step, a, title, lessons, modules, nextId, saving)
      BY <1>3
    <2>2. [wizard EXCEPT !.course = a, !.title = b, !.step = c, !.saving = d] = [y EXCEPT !.saving = d]
      OBVIOUS
    <2>3. x = [v EXCEPT !.title = b]
      OBVIOUS
    <2>4. y = [x EXCEPT !.step = c]
      OBVIOUS
    <2> HIDE DEF v, x, y
    <2>5. x = Fields(step, a, b, lessons, modules, nextId, saving)
      BY <2>1, <2>3 DEF Fields
    <2>6. y = Fields(c, a, b, lessons, modules, nextId, saving)
      BY <2>4, <2>5 DEF Fields
    <2>7. [y EXCEPT !.saving = d] = Fields(c, a, b, lessons, modules, nextId, d)
      BY <2>6 DEF Fields
    <2> QED
      BY <2>2, <2>7
  <1> QED
    BY <1>2, <1>7 DEF Advanced

\* What the fields of a changed wizard must be.
LEMMA WizardMade ==
    ASSUME NEW step, NEW course \in Nat, NEW title, NEW lessons, NEW modules, NEW nextId \in Nat \ {0}, NEW saving,
           IsList(lessons, nextId), IsList(modules, nextId),
           \A i \in DOMAIN modules : \E j \in DOMAIN lessons : lessons[j].id = modules[i].of
    PROVE  IsWizard(Fields(step, course, title, lessons, modules, nextId, saving))
  <1> DEFINE w == Fields(step, course, title, lessons, modules, nextId, saving)
  <1>1. /\ w = [step |-> w.step, course |-> w.course, title |-> w.title, lessons |-> w.lessons,
                modules |-> w.modules, nextId |-> w.nextId, saving |-> w.saving]
        /\ w.course = course /\ w.nextId = nextId /\ w.lessons = lessons /\ w.modules = modules
    BY DEF Fields
  <1> HIDE DEF w
  <1>2. ASSUME NEW kind \in Kind PROVE IsList(w[kind], w.nextId)
    BY <1>1 DEF Kind
  <1> QED
    BY <1>1, <1>2 DEF IsWizard, w

LEMMA WizardLists ==
    ASSUME IsWizard(wizard)
    PROVE  /\ wizard.course \in Nat /\ wizard.nextId \in Nat \ {0}
           /\ IsList(wizard.lessons, wizard.nextId) /\ IsList(wizard.modules, wizard.nextId)
           /\ \A i \in DOMAIN wizard.modules : \E j \in DOMAIN wizard.lessons : wizard.lessons[j].id = wizard.modules[i].of
  BY DEF IsWizard, Kind

\* The items of a list come from another, or are new.
From(list, old, n) ==
    \A i \in DOMAIN list :
        \/ \E j \in DOMAIN old : old[j].id = list[i].id /\ old[j].row = list[i].row /\ old[j].of = list[i].of
        \/ list[i].id >= n /\ list[i].row = Absent

LEMMA ChangeMade ==
    ASSUME WizardInv, NEW step, NEW title, NEW lessons, NEW modules, NEW nextId \in Nat \ {0}, NEW saving,
           calm =>
             /\ wizard.nextId <= nextId
             /\ IsList(lessons, nextId) /\ IsList(modules, nextId)
             /\ \A i \in DOMAIN modules : \E j \in DOMAIN lessons : lessons[j].id = modules[i].of
             /\ From(lessons, wizard.lessons, wizard.nextId) /\ From(modules, wizard.modules, wizard.nextId),
           Rerendered(Fields(step, wizard.course, title, lessons, modules, nextId, saving)),
           UNCHANGED <<saves, kept, calm>>
    PROVE  WizardInv'
  <1> SUFFICES ASSUME calm PROVE WizardInv'
    BY DEF WizardInv
  <1> DEFINE w == Fields(step, wizard.course, title, lessons, modules, nextId, saving)
  <1>1. IsWizard(wizard)
    BY DEF WizardInv
  <1>2. IsWizard(w)
    BY <1>1, WizardLists, WizardMade
  <1>3. w.course = wizard.course /\ w.nextId = nextId /\ w.lessons = lessons /\ w.modules = modules
    BY DEF Fields
  <1> HIDE DEF w
  <1>4. Descends(w)
    BY <1>3 DEF Descends, From, Kind
  <1>5. Rerendered(w)
    BY DEF w
  <1> QED
    BY <1>2, <1>4, <1>5, RerenderStep

LEMMA SameFrom == ASSUME NEW list, NEW n PROVE From(list, list, n)
  BY DEF From

LEMMA StepSet ==
    ASSUME WizardInv, NEW s, SetStep(s)
    PROVE  WizardInv'
  <1> SUFFICES ASSUME calm PROVE WizardInv'
    BY DEF SetStep, Change, WizardInv
  <1>1. IsWizard(wizard)
    BY DEF WizardInv
  <1>2. [wizard EXCEPT !.step = s] = Fields(s, wizard.course, wizard.title, wizard.lessons, wizard.modules,
                                            wizard.nextId, wizard.saving)
    BY <1>1, WizardFields, FieldsSet
  <1>3. /\ Rerendered(Fields(s, wizard.course, wizard.title, wizard.lessons, wizard.modules, wizard.nextId, wizard.saving))
        /\ UNCHANGED <<saves, kept, calm>>
    BY <1>2 DEF SetStep, Change
  <1>4. wizard.nextId \in Nat \ {0} /\ wizard.nextId <= wizard.nextId
    BY <1>1, WizardLists
  <1> QED
    BY <1>1, <1>3, <1>4, WizardLists, SameFrom, ChangeMade

ItemOf(n, of) == [id |-> n, row |-> Absent, of |-> of, text |-> Short]

\* A new item at the end of a list.
LEMMA ItemAppended ==
    ASSUME NEW list, NEW n \in Nat \ {0}, NEW of, IsList(list, n)
    PROVE  LET more == Append(list, ItemOf(n, of))
           IN  /\ IsList(more, n + 1) /\ From(more, list, n)
               /\ \A i \in DOMAIN list : i \in DOMAIN more /\ more[i] = list[i]
               /\ \A i \in DOMAIN more : (i \in DOMAIN list /\ more[i] = list[i]) \/ more[i].of = of
  <1> DEFINE m == ItemOf(n, of)
             more == Append(list, m)
             k == Len(list) + 1
  <1>1. /\ Listed(more) /\ DOMAIN more = 1..k /\ k \notin DOMAIN list /\ more[k] = m
        /\ \A i \in DOMAIN list : more[i] = list[i]
        /\ DOMAIN list = 1..Len(list) /\ Len(list) \in Nat
    BY ListExtended, ListHas DEF IsList
  <1> HIDE DEF more, m
  <1>2. \A i \in DOMAIN more : (i \in DOMAIN list /\ more[i] = list[i]) \/ (i = k /\ more[i] = m)
    BY <1>1
  <1>3. \A i \in DOMAIN list : i \in DOMAIN more
    BY <1>1
  <1>4. m.id = n /\ m.row = Absent /\ m.of = of /\ IsItem(m, n + 1)
    <2>1. /\ m.id = n /\ m.row = 0 /\ m.of = of
          /\ m = [id |-> m.id, row |-> m.row, of |-> m.of, text |-> m.text]
      BY DEF ItemOf, Absent, m
    <2>2. n \in 1..((n + 1) - 1)
      OBVIOUS
    <2> QED
      BY <2>1, <2>2 DEF IsItem, Absent
  <1>5. \A i \in DOMAIN list : IsItem(list[i], n + 1) /\ list[i].id < n
    BY DEF IsList, IsItem
  <1> HIDE DEF k
  <1>6. \A i \in DOMAIN more : IsItem(more[i], n + 1)
    BY <1>2, <1>4, <1>5
  <1>7. \A i, j \in DOMAIN more : more[i].id = more[j].id => i = j
    <2>1. \A i \in DOMAIN list : list[i].id # n
      BY <1>5
    <2> QED
      BY <1>2, <1>4, <2>1 DEF IsList
  <1>8. From(more, list, n)
    BY <1>2, <1>4 DEF From
  <1> QED
    BY <1>1, <1>2, <1>3, <1>4, <1>6, <1>7, <1>8 DEF IsList, more, m

LEMMA LessonAdded ==
    ASSUME WizardInv, AddWizardLesson
    PROVE  WizardInv'
  <1> SUFFICES ASSUME calm PROVE WizardInv'
    BY DEF AddWizardLesson, Change, WizardInv
  <1> DEFINE n == wizard.nextId
             next == n + 1
             m == NewItem(Absent)
             more == Append(wizard.lessons, m)
  <1>1. IsWizard(wizard)
    BY DEF WizardInv
  <1>2. [wizard EXCEPT !.lessons = Append(@, NewItem(Absent)), !.nextId = @ + 1]
          = Fields(wizard.step, wizard.course, wizard.title, more, wizard.modules, next, wizard.saving)
    <2>1. [wizard EXCEPT !.lessons = Append(@, NewItem(Absent)), !.nextId = @ + 1]
            = [wizard EXCEPT !.lessons = more, !.nextId = next]
      OBVIOUS
    <2> HIDE DEF more, next
    <2>2. [wizard EXCEPT !.lessons = more, !.nextId = next]
            = Fields(wizard.step, wizard.course, wizard.title, more, wizard.modules, next, wizard.saving)
      BY <1>1, WizardPairSet
    <2> QED
      BY <2>1, <2>2
  <1>3. Rerendered(Fields(wizard.step, wizard.course, wizard.title, more, wizard.modules, next, wizard.saving))
        /\ UNCHANGED <<saves, kept, calm>>
    BY <1>2 DEF AddWizardLesson, Change
  <1>4. /\ IsList(more, n + 1) /\ From(more, wizard.lessons, n)
        /\ \A i \in DOMAIN wizard.lessons : i \in DOMAIN more /\ more[i] = wizard.lessons[i]
    <2>1. m = ItemOf(n, Absent)
      BY DEF NewItem, ItemOf
    <2>2. IsList(wizard.lessons, n) /\ n \in Nat \ {0}
      BY <1>1, WizardLists
    <2> HIDE DEF m, n
    <2> QED
      BY <2>1, <2>2, ItemAppended
  <1>5. n \in Nat \ {0} /\ n + 1 \in Nat \ {0} /\ n <= n + 1
    BY <1>1, WizardLists
  <1> HIDE DEF n, more
  <1>6. IsList(wizard.modules, n + 1)
    BY <1>1, <1>5, WizardLists DEF IsList, IsItem, n
  <1>7. \A i \in DOMAIN wizard.modules : \E j \in DOMAIN more : more[j].id = wizard.modules[i].of
    BY <1>1, <1>4, WizardLists
  <1> QED
    BY <1>1, <1>3, <1>4, <1>5, <1>6, <1>7, WizardLists, SameFrom, ChangeMade DEF n

LEMMA ModuleAdded ==
    ASSUME WizardInv, NEW k \in DOMAIN wizard.lessons, AddModule(k)
    PROVE  WizardInv'
  <1> SUFFICES ASSUME calm PROVE WizardInv'
    BY DEF AddModule, Change, WizardInv
  <1> DEFINE n == wizard.nextId
             next == n + 1
             of == wizard.lessons[k].id
             m == NewItem(of)
             more == Append(wizard.modules, m)
  <1>1. IsWizard(wizard)
    BY DEF WizardInv
  <1>2. [wizard EXCEPT !.modules = Append(@, NewItem(of)), !.nextId = @ + 1]
          = Fields(wizard.step, wizard.course, wizard.title, wizard.lessons, more, next, wizard.saving)
    <2>1. [wizard EXCEPT !.modules = Append(@, NewItem(of)), !.nextId = @ + 1]
            = [wizard EXCEPT !.modules = more, !.nextId = next]
      OBVIOUS
    <2> HIDE DEF more, next
    <2>2. [wizard EXCEPT !.modules = more, !.nextId = next]
            = Fields(wizard.step, wizard.course, wizard.title, wizard.lessons, more, next, wizard.saving)
      BY <1>1, WizardPairSet
    <2> QED
      BY <2>1, <2>2
  <1>3. Rerendered(Fields(wizard.step, wizard.course, wizard.title, wizard.lessons, more, next, wizard.saving))
        /\ UNCHANGED <<saves, kept, calm>>
    BY <1>2 DEF AddModule, Change
  <1>4. /\ IsList(more, n + 1) /\ From(more, wizard.modules, n)
        /\ \A i \in DOMAIN more : (i \in DOMAIN wizard.modules /\ more[i] = wizard.modules[i]) \/ more[i].of = of
    <2>1. m = ItemOf(n, of)
      BY DEF NewItem, ItemOf
    <2>2. IsList(wizard.modules, n) /\ n \in Nat \ {0}
      BY <1>1, WizardLists
    <2> HIDE DEF m, n, of
    <2> QED
      BY <2>1, <2>2, ItemAppended
  <1>5. n \in Nat \ {0} /\ n + 1 \in Nat \ {0} /\ n <= n + 1
    BY <1>1, WizardLists
  <1> HIDE DEF n, more
  <1>6. IsList(wizard.lessons, n + 1)
    BY <1>1, <1>5, WizardLists DEF IsList, IsItem, n
  <1>7. \A i \in DOMAIN more : \E j \in DOMAIN wizard.lessons : wizard.lessons[j].id = more[i].of
    BY <1>1, <1>4, WizardLists
  <1> QED
    BY <1>1, <1>3, <1>4, <1>5, <1>6, <1>7, WizardLists, SameFrom, ChangeMade DEF n

Retitled(list, k, t) == [list EXCEPT ![k].text = t]

\* An item with another text.
LEMMA ItemRenamed ==
    ASSUME NEW list, NEW n, IsList(list, n), NEW k \in DOMAIN list, NEW t
    PROVE  LET new == Retitled(list, k, t)
           IN  /\ IsList(new, n) /\ From(new, list, n) /\ DOMAIN new = DOMAIN list
               /\ \A i \in DOMAIN list : new[i].id = list[i].id /\ new[i].of = list[i].of
  <1> DEFINE new == Retitled(list, k, t)
             m == [list[k] EXCEPT !.text = t]
  <1>1. PICK a, b, c, d : list[k] = [id |-> a, row |-> b, of |-> c, text |-> d]
    BY DEF IsList, IsItem
  <1>2. m = [id |-> a, row |-> b, of |-> c, text |-> t]
    BY <1>1
  <1>3. IsItem(m, n) /\ m.id = list[k].id /\ m.row = list[k].row /\ m.of = list[k].of
    <2>1. m.id = a /\ m.row = b /\ m.of = c /\ m = [id |-> m.id, row |-> m.row, of |-> m.of, text |-> m.text]
      BY <1>2
    <2>2. list[k].id = a /\ list[k].row = b /\ list[k].of = c /\ IsItem(list[k], n)
      BY <1>1 DEF IsList
    <2> HIDE DEF m
    <2> QED
      BY <2>1, <2>2 DEF IsItem
  <1>4. DOMAIN new = DOMAIN list /\ \A i \in DOMAIN list : new[i] = IF i = k THEN m ELSE list[i]
    BY DEF Retitled
  <1>5. new = [i \in DOMAIN list |-> new[i]]
    BY DEF Retitled
  <1> HIDE DEF m, new
  <1>6. Listed(new)
    BY <1>5, ListHas, ListMade DEF IsList
  <1>7. \A i \in DOMAIN list : /\ IsItem(new[i], n) /\ new[i].id = list[i].id /\ new[i].row = list[i].row
                               /\ new[i].of = list[i].of
    BY <1>3, <1>4 DEF IsList
  <1> QED
    BY <1>4, <1>6, <1>7 DEF IsList, From, new

LEMMA LessonRenamed ==
    ASSUME WizardInv, NEW k \in DOMAIN wizard.lessons, NEW t, UpdateLesson(k, t)
    PROVE  WizardInv'
  <1> SUFFICES ASSUME calm PROVE WizardInv'
    BY DEF UpdateLesson, Change, WizardInv
  <1> DEFINE new == Retitled(wizard.lessons, k, t)
  <1>1. IsWizard(wizard)
    BY DEF WizardInv
  <1>2. [wizard EXCEPT !.lessons[k].text = t]
          = Fields(wizard.step, wizard.course, wizard.title, new, wizard.modules, wizard.nextId, wizard.saving)
    <2>1. [wizard EXCEPT !.lessons[k].text = t] = [wizard EXCEPT !.lessons = new]
      BY DEF Retitled
    <2> HIDE DEF new
    <2> QED
      BY <1>1, <2>1, WizardFields, FieldsSet
  <1>3. /\ Rerendered(Fields(wizard.step, wizard.course, wizard.title, new, wizard.modules, wizard.nextId, wizard.saving))
        /\ UNCHANGED <<saves, kept, calm>>
    BY <1>2 DEF UpdateLesson, Change
  <1>4. /\ IsList(new, wizard.nextId)
        /\ From(new, wizard.lessons, wizard.nextId) /\ DOMAIN new = DOMAIN wizard.lessons
        /\ \A i \in DOMAIN wizard.lessons : new[i].id = wizard.lessons[i].id
    BY <1>1, WizardLists, ItemRenamed
  <1> HIDE DEF new
  <1>5. wizard.nextId \in Nat \ {0} /\ wizard.nextId <= wizard.nextId
    BY <1>1, WizardLists
  <1>6. \A i \in DOMAIN wizard.modules : \E j \in DOMAIN new : new[j].id = wizard.modules[i].of
    BY <1>1, <1>4, WizardLists
  <1> QED
    BY <1>1, <1>3, <1>4, <1>5, <1>6, WizardLists, SameFrom, ChangeMade

LEMMA ModuleRenamed ==
    ASSUME WizardInv, NEW k \in DOMAIN wizard.modules, NEW t, UpdateModule(k, t)
    PROVE  WizardInv'
  <1> SUFFICES ASSUME calm PROVE WizardInv'
    BY DEF UpdateModule, Change, WizardInv
  <1> DEFINE new == Retitled(wizard.modules, k, t)
  <1>1. IsWizard(wizard)
    BY DEF WizardInv
  <1>2. [wizard EXCEPT !.modules[k].text = t]
          = Fields(wizard.step, wizard.course, wizard.title, wizard.lessons, new, wizard.nextId, wizard.saving)
    <2>1. [wizard EXCEPT !.modules[k].text = t] = [wizard EXCEPT !.modules = new]
      BY DEF Retitled
    <2> HIDE DEF new
    <2> QED
      BY <1>1, <2>1, WizardFields, FieldsSet
  <1>3. /\ Rerendered(Fields(wizard.step, wizard.course, wizard.title, wizard.lessons, new, wizard.nextId, wizard.saving))
        /\ UNCHANGED <<saves, kept, calm>>
    BY <1>2 DEF UpdateModule, Change
  <1>4. /\ IsList(new, wizard.nextId)
        /\ From(new, wizard.modules, wizard.nextId) /\ DOMAIN new = DOMAIN wizard.modules
        /\ \A i \in DOMAIN wizard.modules : new[i].of = wizard.modules[i].of
    BY <1>1, WizardLists, ItemRenamed
  <1> HIDE DEF new
  <1>5. wizard.nextId \in Nat \ {0} /\ wizard.nextId <= wizard.nextId
    BY <1>1, WizardLists
  <1>6. \A i \in DOMAIN new : \E j \in DOMAIN wizard.lessons : wizard.lessons[j].id = new[i].of
    BY <1>1, <1>4, WizardLists
  <1> QED
    BY <1>1, <1>3, <1>4, <1>5, <1>6, WizardLists, SameFrom, ChangeMade

\* Some items of a list, each once.
Picked(less, list, from) ==
    /\ \A k \in DOMAIN less : from[k] \in DOMAIN list /\ less[k] = list[from[k]]
    /\ \A j, k \in DOMAIN less : from[j] = from[k] => j = k

LEMMA ItemsLeft ==
    ASSUME NEW list, NEW n, IsList(list, n), NEW less, Listed(less), NEW from, Picked(less, list, from)
    PROVE  IsList(less, n) /\ From(less, list, n)
  BY DEF IsList, From, Picked

LEMMA ModuleRemoved ==
    ASSUME WizardInv, NEW k \in DOMAIN wizard.modules, RemoveModule(k)
    PROVE  WizardInv'
  <1> SUFFICES ASSUME calm PROVE WizardInv'
    BY DEF RemoveModule, Change, WizardInv
  <1> DEFINE less == RemoveAt(wizard.modules, k)
  <1>1. IsWizard(wizard)
    BY DEF WizardInv
  <1>2. [wizard EXCEPT !.modules = RemoveAt(@, k)]
          = Fields(wizard.step, wizard.course, wizard.title, wizard.lessons, less, wizard.nextId, wizard.saving)
    BY <1>1, WizardFields, FieldsSet
  <1>3. /\ Rerendered(Fields(wizard.step, wizard.course, wizard.title, wizard.lessons, less, wizard.nextId, wizard.saving))
        /\ UNCHANGED <<saves, kept, calm>>
    BY <1>2 DEF RemoveModule, Change
  <1>4. Listed(wizard.modules)
    BY <1>1, WizardLists DEF IsList
  <1>5. PICK from : /\ \A i \in DOMAIN less : from[i] \in DOMAIN wizard.modules /\ less[i] = wizard.modules[from[i]]
                    /\ \A i, j \in DOMAIN less : from[i] = from[j] => i = j
    BY <1>4, ListCut
  <1>6. Listed(less)
    BY <1>4, ListCut
  <1> HIDE DEF less
  <1>p. Picked(less, wizard.modules, from)
    BY <1>5 DEF Picked
  <1>7. /\ IsList(less, wizard.nextId)
        /\ From(less, wizard.modules, wizard.nextId)
    BY <1>1, <1>5, <1>6, <1>p, WizardLists, ItemsLeft
  <1>8. wizard.nextId \in Nat \ {0} /\ wizard.nextId <= wizard.nextId
    BY <1>1, WizardLists
  <1>9. \A i \in DOMAIN less : \E j \in DOMAIN wizard.lessons : wizard.lessons[j].id = less[i].of
    BY <1>1, <1>5, WizardLists
  <1> QED
    BY <1>1, <1>3, <1>6, <1>7, <1>8, <1>9, WizardLists, SameFrom, ChangeMade

LEMMA LessonDropped ==
    ASSUME WizardInv, NEW k \in DOMAIN wizard.lessons, DropLesson(k)
    PROVE  WizardInv'
  <1> SUFFICES ASSUME calm PROVE WizardInv'
    BY DEF DropLesson, Change, WizardInv
  <1> DEFINE at == {i \in DOMAIN wizard.modules : wizard.modules[i].of # wizard.lessons[k].id}
             lessons == RemoveAt(wizard.lessons, k)
             modules == Filtered(wizard.modules, at)
  <1>1. IsWizard(wizard)
    BY DEF WizardInv
  <1>2. /\ Rerendered([wizard EXCEPT !.lessons = lessons, !.modules = modules])
        /\ UNCHANGED <<saves, kept, calm>>
    BY DEF DropLesson, Change
  <1>a. at \in SUBSET DOMAIN wizard.modules
    OBVIOUS
  <1> HIDE DEF at
  <1>3. Rerendered(Fields(wizard.step, wizard.course, wizard.title, lessons, modules, wizard.nextId, wizard.saving))
    <2> HIDE DEF lessons, modules
    <2>1. [wizard EXCEPT !.lessons = lessons, !.modules = modules]
            = Fields(wizard.step, wizard.course, wizard.title, lessons, modules, wizard.nextId, wizard.saving)
      BY <1>1, WizardPairSet
    <2> QED
      BY <1>2, <2>1
  <1>4. Listed(wizard.lessons) /\ Listed(wizard.modules)
    BY <1>1, WizardLists DEF IsList
  <1>5. PICK from : /\ \A i \in DOMAIN lessons : from[i] \in DOMAIN wizard.lessons \ {k} /\ lessons[i] = wizard.lessons[from[i]]
                    /\ \A i, j \in DOMAIN lessons : from[i] = from[j] => i = j
                    /\ \A j \in DOMAIN wizard.lessons \ {k} : \E i \in DOMAIN lessons : from[i] = j
    BY <1>4, ListCut
  <1>6. PICK of : /\ \A i \in DOMAIN modules : of[i] \in at /\ modules[i] = wizard.modules[of[i]]
                  /\ \A i, j \in DOMAIN modules : of[i] = of[j] => i = j
    BY <1>4, <1>a, ListFiltered
  <1>7. Listed(lessons) /\ Listed(modules)
    BY <1>4, <1>a, ListCut, ListFiltered
  <1> HIDE DEF lessons, modules
  <1>p. Picked(lessons, wizard.lessons, from) /\ Picked(modules, wizard.modules, of)
    BY <1>5, <1>6, <1>a DEF Picked
  <1>8. /\ IsList(lessons, wizard.nextId)
        /\ From(lessons, wizard.lessons, wizard.nextId)
    BY <1>1, <1>7, <1>p, WizardLists, ItemsLeft
  <1>9. /\ IsList(modules, wizard.nextId)
        /\ From(modules, wizard.modules, wizard.nextId)
    BY <1>1, <1>7, <1>p, WizardLists, ItemsLeft
  <1>10. wizard.nextId \in Nat \ {0} /\ wizard.nextId <= wizard.nextId
    BY <1>1, WizardLists
  <1>11. ASSUME NEW i \in DOMAIN modules PROVE \E j \in DOMAIN lessons : lessons[j].id = modules[i].of
    <2>1. of[i] \in DOMAIN wizard.modules /\ modules[i].of # wizard.lessons[k].id /\ modules[i] = wizard.modules[of[i]]
      BY <1>6 DEF at
    <2>2. PICK j \in DOMAIN wizard.lessons : wizard.lessons[j].id = modules[i].of
      BY <1>1, <2>1, WizardLists
    <2> QED
      BY <1>5, <2>1, <2>2
  <1> QED
    BY <1>2, <1>3, <1>7, <1>8, <1>9, <1>10, <1>11, ChangeMade

\* The author's other actions.
LEMMA WizardStays ==
    ASSUME WizardInv, UNCHANGED <<wizard, saves, kept, calm>>, alarm' = [alarm EXCEPT !["button"] = wizard.course] \/ alarm' = alarm
    PROVE  WizardInv'
  <1> SUFFICES ASSUME calm PROVE WizardInv'
    BY DEF WizardInv
  <1>1. /\ IsWizard(wizard) /\ IsKept(kept) /\ RowsFit(wizard, kept)
        /\ SavesAimed(wizard, kept) /\ TimersBound /\ Settled(wizard, kept)
    BY DEF WizardInv
  <1>2. TimersBound' /\ alarm'["effect"] = alarm["effect"]
    BY <1>1 DEF TimersBound, Timer
  <1>3. IsWizard(wizard)' /\ IsKept(kept)' /\ RowsFit(wizard, kept)'
    BY <1>1 DEF IsWizard, IsList, IsItem, Listed, IsKept, IsCourses, IsRows, RowsFit
  <1>4. SavesAimed(wizard, kept)'
    BY <1>1 DEF SavesAimed, IsSave, Aimed, IsRequest, Listed
  <1>5. Settled(wizard, kept)'
    <2>1. SentIsShown(wizard)' <=> SentIsShown(wizard)
      BY DEF SentIsShown
    <2>2. ShortFree(wizard)' <=> ShortFree(wizard)
      BY DEF ShortFree
    <2>3. StoredOrSent(wizard, kept)' <=> StoredOrSent(wizard, kept)
      BY DEF StoredOrSent, Pending
    <2> QED
      BY <1>1, <1>2, <2>1, <2>2, <2>3 DEF Settled
  <1> QED
    BY <1>2, <1>3, <1>4, <1>5 DEF WizardInv

LEMMA SaveHandled ==
    ASSUME WizardInv, HandleSave
    PROVE  WizardInv'
  BY WizardStays DEF HandleSave

\* No save is under way.
Idle == saves = [s \in SaveSlot |-> saves[s]] /\ \A s \in SaveSlot : saves[s] = <<>>

LEMMA IdleAimed ==
    ASSUME NEW w, NEW k, Idle
    PROVE  SavesAimed(w, k)
  <1>1. Listed(<<>>) /\ DOMAIN <<>> = {}
    BY DEF Listed
  <1>2. ASSUME NEW s \in SaveSlot PROVE IsSave(saves[s], w, k)
    <2>1. saves[s] = <<>>
      BY DEF Idle
    <2>2. \A x \in DOMAIN saves[s] : FALSE
      BY <1>1, <2>1
    <2> QED
      BY <1>1, <2>1, <2>2 DEF IsSave
  <1> QED
    BY <1>2 DEF SavesAimed, Idle

LEMMA WizardPublished ==
    ASSUME WizardInv, PublishWizard
    PROVE  WizardInv'
  <1> SUFFICES ASSUME calm' PROVE WizardInv'
    BY DEF WizardInv
  <1>1. /\ calm /\ AtRest /\ wizard' = InitialState
        /\ alarm' = alarm /\ saves' = saves /\ kept' = kept
    BY DEF PublishWizard
  <1>2. IsKept(kept) /\ SavesAimed(wizard, kept) /\ TimersBound
    BY <1>1 DEF WizardInv
  <1>3. Listed(<<>>) /\ DOMAIN <<>> = {}
    BY DEF Listed
  <1>4. /\ wizard' = [step |-> wizard'.step, course |-> wizard'.course, title |-> wizard'.title,
                      lessons |-> wizard'.lessons, modules |-> wizard'.modules, nextId |-> wizard'.nextId,
                      saving |-> wizard'.saving]
        /\ wizard'.course = Absent /\ wizard'.lessons = <<>> /\ wizard'.modules = <<>> /\ wizard'.nextId = 1
    BY <1>1 DEF InitialState
  <1>5. \A kind \in Kind : wizard'[kind] = <<>>
    BY <1>4 DEF Kind
  <1>6. IsWizard(wizard)' /\ RowsFit(wizard, kept)'
    BY <1>3, <1>4, <1>5 DEF IsWizard, IsList, RowsFit, Absent
  <1>7. Idle'
    BY <1>1, <1>2 DEF Idle, AtRest, SavesAimed, Timer
  <1>8. SavesAimed(wizard, kept)'
    <2>1. \A s \in SaveSlot : IsSave(saves[s], wizard', kept)
      <3>1. Idle
        BY <1>1, <1>7 DEF Idle
      <3> QED
        BY <3>1, IdleAimed DEF SavesAimed
    <2> QED
      BY <1>1, <1>2, <2>1 DEF SavesAimed, IsSave, Aimed, IsRequest, Listed
  <1>9. TimersBound'
    BY <1>1, <1>2 DEF TimersBound, AtRest
  <1>10. Settled(wizard, kept)'
    BY <1>4 DEF Settled
  <1>11. IsKept(kept)'
    BY <1>1, <1>2 DEF IsKept, IsCourses, IsRows, Listed
  <1> QED
    BY <1>6, <1>8, <1>9, <1>10, <1>11 DEF WizardInv

\* The same items, and rows that stand where they stood.
SameItems(w, k) ==
    /\ w.course = wizard.course /\ w.lessons = wizard.lessons /\ w.modules = wizard.modules
    /\ w.nextId = wizard.nextId
    /\ DOMAIN k.courses = DOMAIN kept.courses
    /\ \A kind \in Kind : /\ DOMAIN k[kind] = DOMAIN kept[kind]
                          /\ \A i \in DOMAIN k[kind] : k[kind][i].parent = kept[kind][i].parent

LEMMA SameItemsFit ==
    ASSUME NEW w, NEW k, SameItems(w, k), RowsFit(wizard, kept)
    PROVE  RowsFit(w, k) /\ \A r : Aimed(r, wizard, kept) => Aimed(r, w, k)
  <1>1. \A kind \in Kind : w[kind] = wizard[kind]
    BY DEF SameItems, Kind
  <1>2. RowsFit(w, k)
    <2>1. /\ w.course # Absent => w.course \in DOMAIN k.courses
          /\ \A kind \in Kind : \A i \in DOMAIN w[kind] :
              w[kind][i].row # Absent =>
                  /\ w[kind][i].row \in DOMAIN k[kind]
                  /\ \A j \in DOMAIN w[kind] : w[kind][i].row = w[kind][j].row => i = j
      BY <1>1 DEF SameItems, RowsFit
    <2>2. \A i \in DOMAIN w.lessons :
            w.lessons[i].row # Absent => w.course # Absent /\ k.lessons[w.lessons[i].row].parent = w.course
      <3>1. "lessons" \in Kind
        BY DEF Kind
      <3> QED
        BY <2>1, <3>1 DEF SameItems, RowsFit
    <2>3. \A i \in DOMAIN w.modules : \A j \in DOMAIN w.lessons :
            w.lessons[j].id = w.modules[i].of /\ w.modules[i].row # Absent =>
                w.lessons[j].row # Absent /\ k.modules[w.modules[i].row].parent = w.lessons[j].row
      <3>1. "modules" \in Kind
        BY DEF Kind
      <3> QED
        BY <2>1, <3>1 DEF SameItems, RowsFit
    <2> QED
      BY <2>1, <2>2, <2>3 DEF RowsFit
  <1>3. ASSUME NEW r, Aimed(r, wizard, kept) PROVE Aimed(r, w, k)
    BY <1>1, <1>3 DEF SameItems, Aimed
  <1> QED
    BY <1>2, <1>3

\* The first step is drawn again, with the title that was typed.
LEMMA InfoWasRefused ==
    ASSUME WizardInv, NEW t, InfoRefused(t), UNCHANGED <<saves, kept, calm>>
    PROVE  WizardInv'
  <1> SUFFICES ASSUME calm PROVE WizardInv'
    BY DEF WizardInv
  <1>1. IsWizard(wizard)
    BY DEF WizardInv
  <1> DEFINE w == [wizard EXCEPT !.title = t, !.saving = FALSE]
  <1>2. w = Fields(wizard.step, wizard.course, t, wizard.lessons, wizard.modules, wizard.nextId, FALSE)
    BY <1>1, WizardPairSet
  <1>3. Rerendered(w)
    BY DEF InfoRefused
  <1> HIDE DEF w
  <1>4. Rerendered(Fields(wizard.step, wizard.course, t, wizard.lessons, wizard.modules, wizard.nextId, FALSE))
    BY <1>2, <1>3
  <1>5. wizard.nextId \in Nat \ {0} /\ wizard.nextId <= wizard.nextId
    BY <1>1, WizardLists
  <1> QED
    BY <1>1, <1>4, <1>5, WizardLists, SameFrom, ChangeMade

\* A new course, or another title, is stored.
LEMMA InfoWasStored ==
    ASSUME WizardInv, calm, NEW t, NEW course, kept' = Stored(t),
           course = (IF wizard.course = Absent THEN Len(kept'.courses) ELSE wizard.course),
           InfoSaved(course, t), UNCHANGED <<saves, calm>>
    PROVE  WizardInv'
  <1>1. /\ IsWizard(wizard) /\ IsKept(kept) /\ RowsFit(wizard, kept)
        /\ SavesAimed(wizard, kept) /\ TimersBound
    BY DEF WizardInv
  <1>2. PICK C, L, M : kept = [courses |-> C, lessons |-> L, modules |-> M]
    BY <1>1 DEF IsKept, IsCourses, IsRows, Listed
  <1>3. /\ kept.courses = C /\ kept.lessons = L /\ kept.modules = M /\ kept["lessons"] = L /\ kept["modules"] = M
    BY <1>2
  <1>4. /\ Listed(C) /\ \A i \in DOMAIN C : C[i] = [slug |-> C[i].slug, title |-> C[i].title]
    BY <1>1, <1>3 DEF IsKept, IsCourses, IsRows, Listed
  <1> DEFINE new == kept'.courses
  <1>5. /\ kept' = [courses |-> new, lessons |-> L, modules |-> M]
        /\ Listed(new) /\ \A i \in DOMAIN new : new[i] = [slug |-> new[i].slug, title |-> new[i].title]
        /\ course \in DOMAIN new /\ course # Absent /\ course \in Nat
        /\ wizard.course # Absent => DOMAIN new = DOMAIN C
    <2>1. CASE wizard.course = Absent
      <3> DEFINE c == [slug |-> t, title |-> t]
                 more == Append(C, c)
      <3>1. kept' = [kept EXCEPT !.courses = Append(@, c)] /\ course = Len(kept'.courses)
        BY <2>1 DEF Stored
      <3>2. [kept EXCEPT !.courses = Append(@, c)] = [courses |-> more, lessons |-> L, modules |-> M]
        <4>1. [kept EXCEPT !.courses = Append(@, c)] = [kept EXCEPT !.courses = more]
          BY <1>3
        <4> HIDE DEF more
        <4>2. [kept EXCEPT !.courses = more] = [courses |-> more, lessons |-> L, modules |-> M]
          BY <1>2
        <4> QED
          BY <4>1, <4>2
      <3>3. c = [slug |-> c.slug, title |-> c.title]
        OBVIOUS
      <3> HIDE DEF c
      <3>4. /\ Listed(more) /\ DOMAIN more = 1..(Len(C) + 1) /\ \A i \in DOMAIN C : more[i] = C[i]
            /\ more[Len(C) + 1] = c /\ Len(C) \in Nat /\ DOMAIN C = 1..Len(C)
        BY <1>4, ListExtended, ListHas
      <3>5. Len(more) \in Nat /\ DOMAIN more = 1..Len(more)
        BY <3>4, ListHas
      <3> HIDE DEF more
      <3>6. kept' = [courses |-> more, lessons |-> L, modules |-> M] /\ new = more
        BY <3>1, <3>2
      <3>7. \A i \in DOMAIN more : i \in DOMAIN C \/ i = Len(C) + 1
        BY <3>4
      <3>8. \A i \in DOMAIN more : more[i] = [slug |-> more[i].slug, title |-> more[i].title]
        BY <1>4, <3>3, <3>4, <3>7
      <3>9. Len(more) = Len(C) + 1
        BY <3>4, <3>5
      <3>10. course = Len(C) + 1
        BY <3>1, <3>6, <3>9
      <3>11. course \in DOMAIN more /\ course # Absent /\ course \in Nat
        BY <3>4, <3>10 DEF Absent
      <3> QED
        BY <2>1, <3>4, <3>6, <3>8, <3>11
    <2>2. CASE wizard.course # Absent
      <3> DEFINE c == wizard.course
                 more == [C EXCEPT ![c].title = t]
                 x == [C[c] EXCEPT !.title = t]
      <3>1. kept' = [kept EXCEPT !.courses[c].title = t] /\ course = c
        BY <2>2 DEF Stored
      <3>2. [kept EXCEPT !.courses[c].title = t] = [courses |-> more, lessons |-> L, modules |-> M]
        BY <1>2
      <3>3. c \in DOMAIN C /\ c \in Nat /\ c # Absent
        BY <1>1, <1>3, <2>2, WizardLists DEF RowsFit
      <3>4. DOMAIN more = DOMAIN C /\ \A i \in DOMAIN C : more[i] = IF i = c THEN x ELSE C[i]
        OBVIOUS
      <3>5. more = [i \in DOMAIN C |-> more[i]]
        OBVIOUS
      <3>6. x = [slug |-> x.slug, title |-> x.title]
        <4>1. PICK a, b : C[c] = [slug |-> a, title |-> b]
          BY <1>4, <3>3
        <4>2. x = [slug |-> a, title |-> t]
          BY <4>1
        <4> HIDE DEF x
        <4> QED
          BY <4>2
      <3> HIDE DEF more, x, c
      <3>7. Listed(more)
        BY <1>4, <3>5, ListHas, ListMade
      <3>8. new = more
        BY <3>1, <3>2
      <3> QED
        BY <1>4, <3>1, <3>2, <3>3, <3>4, <3>6, <3>7, <3>8
    <2> QED
      BY <2>1, <2>2
  <1>6. /\ wizard' = Fields("lessons", course, t, wizard.lessons, wizard.modules, wizard.nextId, FALSE)
        /\ alarm' = [effect |-> course, button |-> wizard.course]
    <2> DEFINE saving == FALSE
    <2>1. wizard' = Advanced(course, t, "lessons", saving)
      BY DEF InfoSaved, Advanced
    <2>2. alarm' = [effect |-> course, button |-> wizard.course]
      BY DEF InfoSaved
    <2> HIDE DEF saving
    <2>3. wizard' = Fields("lessons", course, t, wizard.lessons, wizard.modules, wizard.nextId, saving)
      <3>1. Advanced(course, t, "lessons", saving)
              = Fields("lessons", course, t, wizard.lessons, wizard.modules, wizard.nextId, saving)
        BY <1>1, WizardAdvanced
      <3> QED
        BY <2>1, <3>1
    <2> QED
      BY <2>2, <2>3 DEF saving
  <1>7. /\ wizard'.course = course /\ wizard'.lessons = wizard.lessons /\ wizard'.modules = wizard.modules
        /\ wizard'.nextId = wizard.nextId
    BY <1>6 DEF Fields
  <1>8. IsWizard(wizard')
    BY <1>1, <1>5, <1>6, WizardLists, WizardMade
  <1>9. kept'.courses = new /\ kept'.lessons = L /\ kept'.modules = M /\ kept'["lessons"] = L /\ kept'["modules"] = M
    BY <1>5
  <1> HIDE DEF new
  <1>10. \A kind \in Kind : kept'[kind] = kept[kind]
    BY <1>3, <1>9 DEF Kind
  <1>11. IsKept(kept')
    <2>1. kept' = [courses |-> kept'.courses, lessons |-> kept'.lessons, modules |-> kept'.modules]
      BY <1>5, <1>9
    <2> QED
      BY <1>1, <1>5, <1>9, <1>10, <2>1 DEF IsKept, IsCourses
  <1>12. RowsFit(wizard', kept') /\ SavesAimed(wizard', kept')
    <2>1. CASE wizard.course = Absent
      <3>1. \A s \in SaveSlot : saves[s] = <<>>
        BY <1>1, <2>1 DEF SavesAimed, IsSave
      <3>2. \A i \in DOMAIN wizard.lessons : wizard.lessons[i].row = Absent
        BY <1>1, <2>1 DEF RowsFit
      <3>3. \A i \in DOMAIN wizard.modules : wizard.modules[i].row = Absent
        BY <1>1, <3>2, WizardLists DEF RowsFit
      <3>4. \A kind \in Kind : \A i \in DOMAIN wizard'[kind] : wizard'[kind][i].row = Absent
        BY <1>7, <3>2, <3>3 DEF Kind
      <3>5. RowsFit(wizard', kept')
        BY <1>5, <1>7, <1>9, <3>2, <3>3, <3>4 DEF RowsFit
      <3> QED
        BY <1>1, <3>1, <3>5, IdleAimed DEF Idle, SavesAimed
    <2>2. CASE wizard.course # Absent
      <3>1. SameItems(wizard', kept')
        BY <1>3, <1>5, <1>7, <1>9, <1>10, <2>2 DEF SameItems
      <3>2. ASSUME NEW s \in SaveSlot PROVE IsSave(saves[s], wizard', kept')
        BY <1>1, <1>5, <1>7, <3>1, SameItemsFit DEF SavesAimed, IsSave
      <3> QED
        BY <1>1, <3>1, <3>2, SameItemsFit DEF SavesAimed
    <2> QED
      BY <2>1, <2>2
  <1>13. TimersBound' /\ alarm'["effect"] # Absent
    <2>1. wizard.course \in {Absent, course}
      OBVIOUS
    <2>2. /\ alarm' = [t1 \in Timer |-> alarm'[t1]] /\ alarm'["effect"] = course /\ alarm'["button"] = wizard.course
      BY <1>6 DEF Timer
    <2> QED
      BY <1>5, <1>7, <2>1, <2>2 DEF TimersBound, Timer
  <1>14. Settled(wizard, kept)'
    BY <1>13 DEF Settled
  <1>15. IsWizard(wizard)' /\ IsKept(kept)' /\ RowsFit(wizard, kept)' /\ SavesAimed(wizard, kept)'
    <2>1. IsWizard(wizard)' /\ IsKept(kept)' /\ RowsFit(wizard, kept)'
      BY <1>8, <1>11, <1>12 DEF IsWizard, IsList, IsItem, Listed, IsKept, IsCourses, IsRows, RowsFit
    <2>2. SavesAimed(wizard, kept)'
      BY <1>12 DEF SavesAimed, IsSave, Aimed, IsRequest, Listed
    <2> QED
      BY <2>1, <2>2
  <1> QED
    BY <1>13, <1>14, <1>15 DEF WizardInv

LEMMA InfoSubmitted ==
    ASSUME WizardInv, NEW t, SaveAndNext(t)
    PROVE  WizardInv'
  <1> SUFFICES ASSUME calm' PROVE WizardInv'
    BY DEF WizardInv
  <1>1. UNCHANGED saves
    BY DEF SaveAndNext
  <1>2. CASE wizard.course = Absent /\ SlugTaken(t)
    BY <1>1, <1>2, InfoWasRefused DEF SaveAndNext
  <1>3. CASE ~(wizard.course = Absent /\ SlugTaken(t))
    <2>1. /\ kept' = Stored(t) /\ UNCHANGED calm
          /\ InfoSaved(IF wizard.course = Absent THEN Len(kept'.courses) ELSE wizard.course, t)
      BY <1>3 DEF SaveAndNext
    <2> QED
      BY <1>1, <2>1, InfoWasStored
  <1> QED
    BY <1>2, <1>3

LEMMA KeptMade ==
    ASSUME NEW C, IsCourses(C), NEW L, IsRows(L), NEW M, IsRows(M)
    PROVE  LET k == [courses |-> C, lessons |-> L, modules |-> M]
           IN  IsKept(k) /\ k.courses = C /\ k["lessons"] = L /\ k["modules"] = M
  <1> DEFINE k == [courses |-> C, lessons |-> L, modules |-> M]
  <1>1. k.courses = C /\ k.lessons = L /\ k.modules = M /\ k["lessons"] = L /\ k["modules"] = M
    OBVIOUS
  <1>2. k = [courses |-> k.courses, lessons |-> k.lessons, modules |-> k.modules]
    OBVIOUS
  <1> HIDE DEF k
  <1>3. \A kind \in Kind : IsRows(k[kind])
    BY <1>1 DEF Kind
  <1> QED
    BY <1>1, <1>2, <1>3 DEF IsKept, k

LEMMA RowRewritten ==
    ASSUME NEW list, IsRows(list), NEW n \in DOMAIN list, NEW t
    PROVE  LET new == Retitled(list, n, t)
           IN  /\ IsRows(new) /\ DOMAIN new = DOMAIN list
               /\ \A i \in DOMAIN list : /\ new[i].parent = list[i].parent
                                         /\ new[i].text = IF i = n THEN t ELSE list[i].text
  <1> DEFINE new == Retitled(list, n, t)
             m == [list[n] EXCEPT !.text = t]
  <1>1. PICK a, b : list[n] = [parent |-> a, text |-> b]
    BY DEF IsRows
  <1>2. m = [parent |-> a, text |-> t]
    BY <1>1
  <1>3. m.parent = list[n].parent /\ m.text = t /\ m = [parent |-> m.parent, text |-> m.text]
    <2>1. m.parent = a /\ m.text = t /\ m = [parent |-> m.parent, text |-> m.text]
      BY <1>2
    <2>2. list[n].parent = a
      BY <1>1
    <2> QED
      BY <2>1, <2>2
  <1>4. DOMAIN new = DOMAIN list /\ \A i \in DOMAIN list : new[i] = IF i = n THEN m ELSE list[i]
    BY DEF Retitled
  <1>5. new = [i \in DOMAIN list |-> new[i]]
    BY DEF Retitled
  <1> HIDE DEF new, m
  <1>6. Listed(new)
    BY <1>5, ListHas, ListMade DEF IsRows
  <1>7. \A i \in DOMAIN new : new[i] = [parent |-> new[i].parent, text |-> new[i].text]
    BY <1>3, <1>4 DEF IsRows
  <1> QED
    BY <1>3, <1>4, <1>6, <1>7 DEF IsRows, new

RowOf(p, t) == [parent |-> p, text |-> t]

LEMMA RowAdded ==
    ASSUME NEW list, IsRows(list), NEW p, NEW t
    PROVE  LET more == Append(list, RowOf(p, t))
           IN  /\ IsRows(more) /\ Len(more) \in Nat \ {0} /\ Len(more) \notin DOMAIN list
               /\ DOMAIN more = DOMAIN list \cup {Len(more)}
               /\ \A i \in DOMAIN list : more[i] = list[i]
               /\ more[Len(more)].parent = p /\ more[Len(more)].text = t
  <1> DEFINE m == RowOf(p, t)
             more == Append(list, m)
             n == Len(list) + 1
  <1>1. m.parent = p /\ m.text = t /\ m = [parent |-> m.parent, text |-> m.text]
    BY DEF RowOf
  <1> HIDE DEF m
  <1>2. /\ Listed(more) /\ DOMAIN more = 1..n /\ n \notin DOMAIN list /\ more[n] = m
        /\ \A i \in DOMAIN list : more[i] = list[i]
        /\ DOMAIN list = 1..Len(list) /\ Len(list) \in Nat
    BY ListExtended, ListHas DEF IsRows
  <1>3. Len(more) \in Nat /\ DOMAIN more = 1..Len(more)
    BY <1>2, ListHas
  <1> HIDE DEF more
  <1>4. Len(more) = n /\ n \in Nat \ {0} /\ DOMAIN more = DOMAIN list \cup {n}
    BY <1>2, <1>3
  <1> HIDE DEF n
  <1>5. IsRows(more)
    BY <1>1, <1>2, <1>4 DEF IsRows
  <1> QED
    BY <1>1, <1>2, <1>4, <1>5 DEF more, m

\* A request of the course writes its title.
LEMMA CourseWritten ==
    ASSUME IsKept(kept), NEW r, r.kind = "course", r.row \in DOMAIN kept.courses
    PROVE  /\ IsKept(Written(r)) /\ DOMAIN Written(r).courses = DOMAIN kept.courses
           /\ Written(r).courses[r.row].title = r.text
           /\ \A kind \in Kind : Written(r)[kind] = kept[kind]
  <1>1. PICK C, L, M : kept = [courses |-> C, lessons |-> L, modules |-> M]
    BY DEF IsKept
  <1>2. kept.courses = C /\ kept["lessons"] = L /\ kept["modules"] = M
    BY <1>1
  <1> DEFINE c == r.row
             x == [C[c] EXCEPT !.title = r.text]
             new == [C EXCEPT ![c].title = r.text]
  <1>3. Written(r) = [kept EXCEPT !.courses[c].title = r.text]
    BY DEF Written
  <1>4. [kept EXCEPT !.courses[c].title = r.text] = [courses |-> new, lessons |-> L, modules |-> M]
    BY <1>1
  <1>5. IsCourses(C) /\ IsRows(L) /\ IsRows(M) /\ c \in DOMAIN C
    BY <1>2 DEF IsKept, Kind
  <1>6. DOMAIN new = DOMAIN C /\ (\A i \in DOMAIN C : new[i] = IF i = c THEN x ELSE C[i]) /\ new = [i \in DOMAIN C |-> new[i]]
    OBVIOUS
  <1>7. x = [slug |-> x.slug, title |-> x.title] /\ x.title = r.text
    <2>1. PICK a, b : C[c] = [slug |-> a, title |-> b]
      BY <1>5 DEF IsCourses
    <2>2. x = [slug |-> a, title |-> r.text]
      BY <2>1
    <2> HIDE DEF x
    <2> QED
      BY <2>2
  <1> HIDE DEF new, x, c
  <1>8. Listed(new)
    BY <1>5, <1>6, ListHas, ListMade DEF IsCourses
  <1>9. IsCourses(new)
    BY <1>5, <1>6, <1>7, <1>8 DEF IsCourses
  <1> DEFINE k == [courses |-> new, lessons |-> L, modules |-> M]
  <1>10. IsKept(k) /\ k.courses = new /\ k["lessons"] = L /\ k["modules"] = M
    BY <1>5, <1>9, KeptMade
  <1>11. Written(r) = k
    BY <1>3, <1>4
  <1> HIDE DEF k
  <1>12. \A kind \in Kind : k[kind] = kept[kind]
    BY <1>2, <1>10 DEF Kind
  <1> QED
    BY <1>2, <1>5, <1>6, <1>7, <1>10, <1>11, <1>12 DEF c

\* A request of an item that has a row writes to that row.
LEMMA ItemWritten ==
    ASSUME IsKept(kept), NEW r, r.kind \in Kind, r.row # Absent, r.row \in DOMAIN kept[r.kind]
    PROVE  /\ IsKept(Written(r)) /\ Written(r).courses = kept.courses
           /\ \A kind \in Kind : DOMAIN Written(r)[kind] = DOMAIN kept[kind]
           /\ \A kind \in Kind : \A i \in DOMAIN kept[kind] :
               /\ Written(r)[kind][i].parent = kept[kind][i].parent
               /\ Written(r)[kind][i].text = IF kind = r.kind /\ i = r.row THEN r.text ELSE kept[kind][i].text
  <1>1. PICK C, L, M : kept = [courses |-> C, lessons |-> L, modules |-> M]
    BY DEF IsKept
  <1>2. kept.courses = C /\ kept["lessons"] = L /\ kept["modules"] = M
    BY <1>1
  <1>3. IsCourses(C) /\ IsRows(L) /\ IsRows(M)
    BY <1>2 DEF IsKept, Kind
  <1>4. Written(r) = [kept EXCEPT ![r.kind][r.row].text = r.text]
    BY DEF Written, HasRow, Kind
  <1>5. CASE r.kind = "lessons"
    <2> DEFINE new == Retitled(L, r.row, r.text)
               k == [courses |-> C, lessons |-> new, modules |-> M]
    <2>1. Written(r) = k
      <3>1. [kept EXCEPT !["lessons"][r.row].text = r.text] = k
        BY <1>1 DEF Retitled
      <3> QED
        BY <1>4, <1>5, <3>1
    <2>2. /\ IsRows(new) /\ DOMAIN new = DOMAIN L
          /\ \A i \in DOMAIN L : /\ new[i].parent = L[i].parent
                                 /\ new[i].text = IF i = r.row THEN r.text ELSE L[i].text
      BY <1>2, <1>3, <1>5, RowRewritten
    <2> HIDE DEF new
    <2>3. IsKept(k) /\ k.courses = C /\ k["lessons"] = new /\ k["modules"] = M
      BY <1>3, <2>2, KeptMade
    <2> HIDE DEF k
    <2> QED
      BY <1>2, <1>5, <2>1, <2>2, <2>3 DEF Kind
  <1>6. CASE r.kind = "modules"
    <2> DEFINE new == Retitled(M, r.row, r.text)
               k == [courses |-> C, lessons |-> L, modules |-> new]
    <2>1. Written(r) = k
      <3>1. [kept EXCEPT !["modules"][r.row].text = r.text] = k
        BY <1>1 DEF Retitled
      <3> QED
        BY <1>4, <1>6, <3>1
    <2>2. /\ IsRows(new) /\ DOMAIN new = DOMAIN M
          /\ \A i \in DOMAIN M : /\ new[i].parent = M[i].parent
                                 /\ new[i].text = IF i = r.row THEN r.text ELSE M[i].text
      BY <1>2, <1>3, <1>6, RowRewritten
    <2> HIDE DEF new
    <2>3. IsKept(k) /\ k.courses = C /\ k["lessons"] = L /\ k["modules"] = new
      BY <1>3, <2>2, KeptMade
    <2> HIDE DEF k
    <2> QED
      BY <1>2, <1>6, <2>1, <2>2, <2>3 DEF Kind
  <1> QED
    BY <1>5, <1>6 DEF Kind

\* A request of an item without a row makes one.
LEMMA ItemCreated ==
    ASSUME IsKept(kept), NEW r, r.kind \in Kind, r.row = Absent
    PROVE  LET n == Len(Written(r)[r.kind])
           IN  /\ IsKept(Written(r)) /\ Written(r).courses = kept.courses
               /\ \A kind \in Kind : kind # r.kind => Written(r)[kind] = kept[kind]
               /\ n \in Nat \ {0} /\ n \notin DOMAIN kept[r.kind]
               /\ DOMAIN Written(r)[r.kind] = DOMAIN kept[r.kind] \cup {n}
               /\ \A i \in DOMAIN kept[r.kind] : Written(r)[r.kind][i] = kept[r.kind][i]
               /\ Written(r)[r.kind][n].parent = r.parent
  <1>1. PICK C, L, M : kept = [courses |-> C, lessons |-> L, modules |-> M]
    BY DEF IsKept
  <1>2. kept.courses = C /\ kept["lessons"] = L /\ kept["modules"] = M
    BY <1>1
  <1>3. IsCourses(C) /\ IsRows(L) /\ IsRows(M)
    BY <1>2 DEF IsKept, Kind
  <1> DEFINE x == RowOf(r.parent, r.text)
  <1>4. Written(r) = [kept EXCEPT ![r.kind] = Append(@, x)]
    BY DEF Written, HasRow, Kind, RowOf
  <1>5. CASE r.kind = "lessons"
    <2> DEFINE new == Append(L, x)
               k == [courses |-> C, lessons |-> new, modules |-> M]
    <2>2. /\ IsRows(new) /\ Len(new) \in Nat \ {0} /\ Len(new) \notin DOMAIN L
          /\ DOMAIN new = DOMAIN L \cup {Len(new)}
          /\ \A i \in DOMAIN L : new[i] = L[i]
          /\ new[Len(new)].parent = r.parent
      BY <1>3, RowAdded
    <2>4. Written(r) = [kept EXCEPT !["lessons"] = new]
      BY <1>2, <1>4, <1>5
    <2> HIDE DEF new
    <2>1. Written(r) = k
      BY <1>1, <2>4
    <2>3. IsKept(k) /\ k.courses = C /\ k["lessons"] = new /\ k["modules"] = M
      BY <1>3, <2>2, KeptMade
    <2> HIDE DEF k
    <2> QED
      BY <1>2, <1>5, <2>1, <2>2, <2>3 DEF Kind
  <1>6. CASE r.kind = "modules"
    <2> DEFINE new == Append(M, x)
               k == [courses |-> C, lessons |-> L, modules |-> new]
    <2>2. /\ IsRows(new) /\ Len(new) \in Nat \ {0} /\ Len(new) \notin DOMAIN M
          /\ DOMAIN new = DOMAIN M \cup {Len(new)}
          /\ \A i \in DOMAIN M : new[i] = M[i]
          /\ new[Len(new)].parent = r.parent
      BY <1>3, RowAdded
    <2>4. Written(r) = [kept EXCEPT !["modules"] = new]
      BY <1>2, <1>4, <1>6
    <2> HIDE DEF new
    <2>1. Written(r) = k
      BY <1>1, <2>4
    <2>3. IsKept(k) /\ k.courses = C /\ k["lessons"] = L /\ k["modules"] = new
      BY <1>3, <2>2, KeptMade
    <2> HIDE DEF k
    <2> QED
      BY <1>2, <1>6, <2>1, <2>2, <2>3 DEF Kind
  <1> QED
    BY <1>5, <1>6 DEF Kind

LEMMA ListTail ==
    ASSUME NEW list, Listed(list), list # <<>>
    PROVE  /\ 1 \in DOMAIN list /\ Head(list) = list[1] /\ Listed(Tail(list))
           /\ \A x \in DOMAIN Tail(list) : x + 1 \in DOMAIN list /\ x + 1 # 1 /\ Tail(list)[x] = list[x + 1]
           /\ \A x, y \in DOMAIN Tail(list) : x + 1 = y + 1 => x = y
           /\ \A x \in DOMAIN list : x # 1 => x - 1 \in DOMAIN Tail(list) /\ Tail(list)[x - 1] = list[x]
  <1> DEFINE S == ToSet(list)
             rest == Tail(list)
  <1>1. list \in Seq(S)
    BY DEF Listed
  <1> HIDE DEF S
  <1>2. /\ Len(list) \in Nat /\ DOMAIN list = 1..Len(list) /\ Len(list) # 0 /\ Head(list) = list[1]
    BY <1>1, EmptySeq, HeadTailProperties
  <1>3. /\ rest \in Seq(S) /\ Len(rest) = Len(list) - 1 /\ DOMAIN rest = 1..Len(rest)
        /\ \A i \in 1..Len(rest) : rest[i] = list[i + 1]
    BY <1>1, HeadTailProperties
  <1> HIDE DEF rest
  <1>4. Listed(rest)
    <2>1. Len(rest) \in Nat /\ rest = [i \in 1..Len(rest) |-> rest[i]]
      BY <1>3
    <2> QED
      BY <2>1, ListMade
  <1>5. \A x \in DOMAIN rest : x + 1 \in DOMAIN list /\ x + 1 # 1 /\ rest[x] = list[x + 1]
    BY <1>2, <1>3
  <1>6. \A x \in DOMAIN list : x # 1 => x - 1 \in DOMAIN rest /\ rest[x - 1] = list[x]
    BY <1>2, <1>3
  <1>7. \A x, y \in DOMAIN rest : x + 1 = y + 1 => x = y
    BY <1>3
  <1>8. 1 \in DOMAIN list
    BY <1>2
  <1> QED
    BY <1>2, <1>4, <1>5, <1>6, <1>7, <1>8 DEF rest

\* A save that sent a request goes on with the others.
LEMMA SaveGoesOn ==
    ASSUME SavesAimed(wizard, kept), NEW s \in SaveSlot, saves[s] # <<>>, saves' = [saves EXCEPT ![s] = Tail(@)],
           wizard'.course = wizard.course,
           \A x \in DOMAIN saves[s] : x # 1 => Aimed(saves[s][x], wizard', kept')
    PROVE  /\ SavesAimed(wizard, kept)' /\ saves'[s] = Tail(saves[s])
           /\ \A t \in SaveSlot : t # s => saves[t] = <<>> /\ saves'[t] = <<>>
  <1> DEFINE q == saves[s]
             rest == Tail(q)
  <1>1. /\ saves = [t \in SaveSlot |-> saves[t]] /\ IsSave(q, wizard, kept)
        /\ \A t \in SaveSlot : t # s => saves[t] = <<>>
    BY DEF SavesAimed
  <1>2. /\ saves' = [t \in SaveSlot |-> saves'[t]] /\ saves'[s] = rest
        /\ \A t \in SaveSlot : t # s => saves'[t] = <<>>
    BY <1>1
  <1>3. Listed(q) /\ q # <<>>
    BY <1>1 DEF IsSave
  <1>4. /\ Listed(rest)
        /\ \A x \in DOMAIN rest : x + 1 \in DOMAIN q /\ x + 1 # 1 /\ rest[x] = q[x + 1]
        /\ \A x, y \in DOMAIN rest : x + 1 = y + 1 => x = y
    BY <1>3, ListTail
  <1> HIDE DEF q, rest
  <1>5. IsSave(rest, wizard', kept')
    <2>1. \A x \in DOMAIN rest : IsRequest(rest[x]) /\ Aimed(rest[x], wizard', kept')
      <3> SUFFICES ASSUME NEW x \in DOMAIN rest PROVE IsRequest(rest[x]) /\ Aimed(rest[x], wizard', kept')
        OBVIOUS
      <3>1. IsRequest(q[x + 1])
        BY <1>1, <1>4 DEF IsSave
      <3>2. Aimed(q[x + 1], wizard', kept')
        BY <1>4 DEF q
      <3> QED
        BY <1>4, <3>1, <3>2
    <2>2. \A x, y \in DOMAIN rest : rest[x].kind = rest[y].kind /\ rest[x].id = rest[y].id => x = y
      <3> SUFFICES ASSUME NEW x \in DOMAIN rest, NEW y \in DOMAIN rest,
                          rest[x].kind = rest[y].kind, rest[x].id = rest[y].id
                   PROVE  x = y
        OBVIOUS
      <3>1. x + 1 = y + 1
        BY <1>1, <1>4 DEF IsSave
      <3> QED
        BY <1>4, <3>1
    <2> QED
      BY <1>1, <1>3, <1>4, <2>1, <2>2 DEF IsSave
  <1>6. \A t \in SaveSlot : t # s => IsSave(<<>>, wizard', kept')
    <2>1. Listed(<<>>) /\ DOMAIN <<>> = {}
      BY DEF Listed
    <2> QED
      BY <2>1 DEF IsSave
  <1>7. \A t \in SaveSlot : IsSave(saves'[t], wizard', kept')
    BY <1>2, <1>5, <1>6
  <1>8. SavesAimed(wizard, kept)'
    <2>1. \A t, u \in SaveSlot : saves'[t] # <<>> /\ saves'[u] # <<>> => t = u
      BY <1>2
    <2> QED
      BY <1>2, <1>7, <2>1 DEF SavesAimed, IsSave, Aimed, IsRequest, Listed
  <1> QED
    BY <1>1, <1>2, <1>8 DEF q, rest

\* Only what the store says of a save has changed.
SavingOnly(w) ==
    /\ w = Fields(w.step, w.course, w.title, w.lessons, w.modules, w.nextId, w.saving)
    /\ w.course = wizard.course /\ w.title = wizard.title /\ w.lessons = wizard.lessons
    /\ w.modules = wizard.modules /\ w.nextId = wizard.nextId

LEMMA SavingSet ==
    ASSUME IsWizard(wizard), NEW a
    PROVE  SavingOnly([wizard EXCEPT !.saving = a])
  <1> DEFINE w == [wizard EXCEPT !.saving = a]
  <1>1. w = Fields(wizard.step, wizard.course, wizard.title, wizard.lessons, wizard.modules, wizard.nextId, a)
    BY WizardFields, FieldsSet
  <1> HIDE DEF w
  <1>2. SavingOnly(w)
    BY <1>1 DEF Fields, SavingOnly
  <1> QED
    BY <1>2 DEF w

LEMMA SavingFits ==
    ASSUME IsWizard(wizard), NEW w, SavingOnly(w)
    PROVE  IsWizard(w)
  BY WizardLists, WizardMade DEF SavingOnly

LEMMA DoneOnly ==
    ASSUME IsWizard(wizard), NEW s
    PROVE  SavingOnly(Done(s, wizard))
  <1> DEFINE a == wizard.saving /\ Len(saves[s]) > 1
  <1>1. Done(s, wizard) = [wizard EXCEPT !.saving = a]
    BY DEF Done
  <1> HIDE DEF a
  <1> QED
    BY <1>1, SavingSet

\* After a request that wrote to a row, what the wizard shows is still stored or about to be.
LEMMA SettledGoesOn ==
    ASSUME IsWizard(wizard), RowsFit(wizard, kept), SavesAimed(wizard, kept), Settled(wizard, kept),
           NEW s \in SaveSlot, saves[s] # <<>>,
           saves'[s] = Tail(saves[s]), \A t \in SaveSlot : t # s => saves[t] = <<>> /\ saves'[t] = <<>>,
           SavingOnly(wizard'), alarm' = alarm, NEW r, r = Head(saves[s]),
           r.kind = "course" => kept'.courses[wizard.course].title = r.text,
           r.kind # "course" => r.row # Absent /\ kept'.courses = kept.courses,
           \A kind \in Kind : \A i \in DOMAIN kept[kind] :
               kept'[kind][i].text = IF kind = r.kind /\ i = r.row THEN r.text ELSE kept[kind][i].text
    PROVE  Settled(wizard, kept)'
  <1> SUFFICES ASSUME alarm["effect"] = Absent, wizard.course # Absent
               PROVE  SentIsShown(wizard)' /\ (ShortFree(wizard)' => StoredOrSent(wizard, kept)')
    BY DEF Settled, SavingOnly
  <1> DEFINE q == saves[s]
             rest == Tail(q)
             Later(kind, id, text) ==
                 \E t \in SaveSlot : \E x \in DOMAIN saves'[t] :
                     saves'[t][x].kind = kind /\ saves'[t][x].id = id /\ saves'[t][x].text = text
  <1>1. SentIsShown(wizard) /\ (ShortFree(wizard) => StoredOrSent(wizard, kept))
    BY DEF Settled
  <1>2. Listed(q) /\ q # <<>> /\ \A x \in DOMAIN q : IsRequest(q[x]) /\ Aimed(q[x], wizard, kept)
    BY DEF SavesAimed, IsSave
  <1>3. /\ 1 \in DOMAIN q /\ r = q[1]
        /\ \A x \in DOMAIN rest : x + 1 \in DOMAIN q /\ rest[x] = q[x + 1]
        /\ \A x \in DOMAIN q : x # 1 => x - 1 \in DOMAIN rest /\ rest[x - 1] = q[x]
    BY <1>2, ListTail
  <1>4. saves'[s] = rest /\ \A t \in SaveSlot : t # s => DOMAIN saves[t] = {} /\ DOMAIN saves'[t] = {}
    <2>1. DOMAIN <<>> = {}
      OBVIOUS
    <2> HIDE DEF q, rest
    <2>2. saves'[s] = rest
      BY DEF rest, q
    <2>3. \A t \in SaveSlot : t # s => saves[t] = <<>> /\ saves'[t] = <<>>
      OBVIOUS
    <2> QED
      BY <2>1, <2>2, <2>3
  <1> HIDE DEF rest
  <1>5. \A kind \in Kind : wizard'[kind] = wizard[kind]
    BY DEF SavingOnly, Kind
  <1>6. /\ wizard'.title = wizard.title /\ wizard'.course = wizard.course /\ wizard'.lessons = wizard.lessons
        /\ wizard'.modules = wizard.modules
    BY DEF SavingOnly
  <1>7. SentIsShown(wizard)'
    <2> SUFFICES ASSUME NEW t \in SaveSlot, NEW x \in DOMAIN saves'[t]
                 PROVE  /\ saves'[t][x].kind = "course" => saves'[t][x].text = wizard.title /\ saves'[t][x].text # Short
                        /\ saves'[t][x].kind \in Kind =>
                             \E i \in DOMAIN wizard[saves'[t][x].kind] :
                                 /\ wizard[saves'[t][x].kind][i].id = saves'[t][x].id
                                 /\ wizard[saves'[t][x].kind][i].text = saves'[t][x].text
      BY <1>5, <1>6 DEF SentIsShown
    <2>1. t = s
      BY <1>4
    <2>2. x + 1 \in DOMAIN saves[s] /\ saves'[t][x] = saves[s][x + 1]
      BY <1>3, <1>4, <2>1 DEF q
    <2> QED
      BY <1>1, <2>2 DEF SentIsShown
  <1>8. ASSUME NEW kind, NEW id, NEW text, Pending(kind, id, text)
        PROVE  Later(kind, id, text) \/ (r.kind = kind /\ r.id = id /\ r.text = text)
    <2>a. PICK t \in SaveSlot : \E x \in DOMAIN saves[t] :
            saves[t][x].kind = kind /\ saves[t][x].id = id /\ saves[t][x].text = text
      BY <1>8 DEF Pending
    <2>1. PICK x \in DOMAIN saves[t] :
            saves[t][x].kind = kind /\ saves[t][x].id = id /\ saves[t][x].text = text
      BY <2>a
    <2>2. t = s
      BY <1>4
    <2>3. CASE x = 1
      BY <1>3, <2>1, <2>2, <2>3 DEF q
    <2>4. CASE x # 1
      <3>1. x - 1 \in DOMAIN saves'[s] /\ saves'[s][x - 1] = saves[s][x]
        BY <1>3, <1>4, <2>1, <2>2, <2>4 DEF q
      <3> QED
        BY <2>1, <2>2, <3>1
    <2> QED
      BY <2>3, <2>4
  <1> HIDE DEF Later
  <1>9. ASSUME ShortFree(wizard)' PROVE StoredOrSent(wizard, kept)'
    <2>1. StoredOrSent(wizard, kept)
      <3>1. ShortFree(wizard)
        BY <1>5, <1>9 DEF ShortFree
      <3> QED
        BY <1>1, <3>1
    <2>2. IsRequest(r) /\ Aimed(r, wizard, kept)
      BY <1>2, <1>3
    <2>3. ASSUME wizard.title # Short
          PROVE  kept'.courses[wizard.course].title = wizard.title \/ Later("course", Absent, wizard.title)
      <3>1. CASE r.kind = "course"
        <4>1. r.text = wizard.title
          BY <1>1, <1>3, <3>1 DEF SentIsShown, q
        <4> QED
          BY <3>1, <4>1
      <3>2. CASE r.kind # "course"
        <4>1. kept.courses[wizard.course].title = wizard.title \/ Pending("course", Absent, wizard.title)
          BY <2>1, <2>3 DEF StoredOrSent
        <4> QED
          BY <1>8, <3>2, <4>1
      <3> QED
        BY <3>1, <3>2
    <2>4. ASSUME NEW kind \in Kind, NEW i \in DOMAIN wizard[kind]
          PROVE  \/ /\ wizard[kind][i].row # Absent
                    /\ kept'[kind][wizard[kind][i].row].text = wizard[kind][i].text
                 \/ Later(kind, wizard[kind][i].id, wizard[kind][i].text)
                 \/ /\ kind = "modules"
                    /\ \E j \in DOMAIN wizard.lessons : wizard.lessons[j].id = wizard.modules[i].of /\ wizard.lessons[j].row = Absent
      <3> DEFINE m == wizard[kind][i]
      <3>1. \/ m.row # Absent /\ kept[kind][m.row].text = m.text
            \/ Pending(kind, m.id, m.text)
            \/ /\ kind = "modules"
               /\ \E j \in DOMAIN wizard.lessons : wizard.lessons[j].id = wizard.modules[i].of /\ wizard.lessons[j].row = Absent
        BY <2>1 DEF StoredOrSent
      <3>2. m.row # Absent => m.row \in DOMAIN kept[kind]
        BY DEF RowsFit
      <3>3. CASE m.row # Absent /\ kept[kind][m.row].text = m.text
        <4>1. CASE kind = r.kind /\ m.row = r.row
          <5>1. m.id = r.id
            BY <2>2, <3>3, <4>1 DEF Aimed
          <5>2. PICK j \in DOMAIN wizard[kind] : wizard[kind][j].id = r.id /\ wizard[kind][j].text = r.text
            BY <1>1, <1>3, <4>1 DEF SentIsShown, q
          <5>3. i = j
            BY <5>1, <5>2 DEF IsWizard, IsList
          <5> QED
            BY <3>2, <3>3, <4>1, <5>2, <5>3
        <4>2. CASE ~(kind = r.kind /\ m.row = r.row)
          BY <3>2, <3>3, <4>2
        <4> QED
          BY <4>1, <4>2
      <3>4. CASE Pending(kind, m.id, m.text)
        <4>1. CASE r.kind = kind /\ r.id = m.id /\ r.text = m.text
          <5>1. r.row # Absent
            BY <4>1 DEF Kind
          <5>2. m.row = r.row
            BY <2>2, <4>1 DEF Aimed
          <5> QED
            BY <3>2, <4>1, <5>1, <5>2
        <4> QED
          BY <1>8, <3>4, <4>1
      <3> QED
        BY <3>1, <3>3, <3>4
    <2> QED
      BY <1>5, <1>6, <2>3, <2>4 DEF StoredOrSent, Pending, Later
  <1> QED
    BY <1>7, <1>9

\* What the conjuncts of the invariant say of the next state.
LEMMA InvMade ==
    ASSUME IsWizard(wizard'), IsKept(kept'), RowsFit(wizard', kept'), SavesAimed(wizard, kept)', TimersBound',
           Settled(wizard, kept)'
    PROVE  WizardInv'
  <1>1. IsWizard(wizard)' /\ IsKept(kept)' /\ RowsFit(wizard, kept)'
    BY DEF IsWizard, IsList, IsItem, Listed, IsKept, IsCourses, IsRows, RowsFit
  <1> QED
    BY <1>1 DEF WizardInv

LEMMA RowSent ==
    ASSUME WizardInv, calm, NEW s \in SaveSlot, Send(s), HasRow(Head(saves[s]))
    PROVE  WizardInv'
  <1> DEFINE r == Head(saves[s])
  <1>1. /\ IsWizard(wizard) /\ IsKept(kept) /\ RowsFit(wizard, kept)
        /\ SavesAimed(wizard, kept) /\ TimersBound /\ Settled(wizard, kept)
    BY DEF WizardInv
  <1>2. /\ saves[s] # <<>> /\ kept' = Written(r) /\ wizard' = Done(s, wizard) /\ alarm' = alarm
        /\ saves' = [saves EXCEPT ![s] = Tail(@)]
    BY DEF Send
  <1>3. /\ IsSave(saves[s], wizard, kept) /\ Listed(saves[s]) /\ wizard.course # Absent
        /\ \A x \in DOMAIN saves[s] : IsRequest(saves[s][x]) /\ Aimed(saves[s][x], wizard, kept)
    BY <1>1, <1>2 DEF SavesAimed, IsSave
  <1>4. IsRequest(r) /\ Aimed(r, wizard, kept)
    <2>1. 1 \in DOMAIN saves[s] /\ r = saves[s][1]
      BY <1>2, <1>3, ListTail
    <2> QED
      BY <1>3, <2>1
  <1>5. SavingOnly(wizard') /\ IsWizard(wizard')
    BY <1>1, <1>2, DoneOnly, SavingFits
  <1>6. HasRow(r)
    OBVIOUS
  <1>7. r = Head(saves[s])
    OBVIOUS
  <1> HIDE DEF r
  <1>8. wizard.course \in DOMAIN kept.courses
    BY <1>1, <1>3 DEF RowsFit
  <1>9. /\ IsKept(kept') /\ DOMAIN kept'.courses = DOMAIN kept.courses
        /\ r.kind = "course" => kept'.courses[wizard.course].title = r.text
        /\ r.kind # "course" => r.row # Absent /\ kept'.courses = kept.courses
        /\ \A kind \in Kind : DOMAIN kept'[kind] = DOMAIN kept[kind]
        /\ \A kind \in Kind : \A i \in DOMAIN kept[kind] :
            /\ kept'[kind][i].parent = kept[kind][i].parent
            /\ kept'[kind][i].text = IF kind = r.kind /\ i = r.row THEN r.text ELSE kept[kind][i].text
    <2>1. CASE r.kind = "course"
      <3>1. r.row = wizard.course /\ r.row \in DOMAIN kept.courses
        BY <1>4, <1>8, <2>1 DEF Aimed
      <3>2. /\ IsKept(kept') /\ DOMAIN kept'.courses = DOMAIN kept.courses
            /\ kept'.courses[r.row].title = r.text
            /\ \A kind \in Kind : kept'[kind] = kept[kind]
        BY <1>1, <1>2, <2>1, <3>1, CourseWritten
      <3>3. r.kind \notin Kind
        BY <2>1 DEF Kind
      <3> QED
        BY <2>1, <3>1, <3>2, <3>3
    <2>2. CASE r.kind # "course"
      <3>1. r.kind \in Kind /\ r.row # Absent
        BY <1>4, <1>6, <2>2 DEF IsRequest, HasRow
      <3>2. r.row \in DOMAIN kept[r.kind]
        BY <1>4, <3>1 DEF Aimed
      <3> QED
        BY <1>1, <1>2, <2>2, <3>1, <3>2, ItemWritten
    <2> QED
      BY <2>1, <2>2
  <1>10. SameItems(wizard', kept')
    BY <1>5, <1>9 DEF SameItems, SavingOnly
  <1>11. RowsFit(wizard', kept') /\ \A x \in DOMAIN saves[s] : Aimed(saves[s][x], wizard', kept')
    BY <1>1, <1>3, <1>10, SameItemsFit
  <1>12. wizard'.course = wizard.course
    BY <1>5 DEF SavingOnly
  <1>13. /\ SavesAimed(wizard, kept)' /\ saves'[s] = Tail(saves[s])
         /\ \A t \in SaveSlot : t # s => saves[t] = <<>> /\ saves'[t] = <<>>
    BY <1>1, <1>2, <1>11, <1>12, SaveGoesOn
  <1>14. Settled(wizard, kept)'
    BY <1>1, <1>2, <1>5, <1>7, <1>9, <1>13, SettledGoesOn
  <1>15. TimersBound'
    BY <1>1, <1>2, <1>12 DEF TimersBound
  <1> QED
    BY <1>5, <1>9, <1>11, <1>13, <1>14, <1>15, InvMade

BoundList(list, id, n) ==
    [i \in DOMAIN list |-> IF list[i].id = id THEN [list[i] EXCEPT !.row = n] ELSE list[i]]

LEMMA ListBound ==
    ASSUME NEW list, NEW next, IsList(list, next), NEW id, NEW n \in Nat
    PROVE  LET new == BoundList(list, id, n)
           IN  /\ IsList(new, next) /\ DOMAIN new = DOMAIN list
               /\ \A i \in DOMAIN list : /\ new[i].id = list[i].id /\ new[i].of = list[i].of
                                         /\ new[i].row = IF list[i].id = id THEN n ELSE list[i].row
  <1> DEFINE new == BoundList(list, id, n)
             m(i) == [list[i] EXCEPT !.row = n]
  <1>1. /\ DOMAIN new = DOMAIN list /\ new = [i \in DOMAIN list |-> new[i]]
        /\ \A i \in DOMAIN list : new[i] = IF list[i].id = id THEN m(i) ELSE list[i]
    BY DEF BoundList
  <1>2. ASSUME NEW i \in DOMAIN list
        PROVE  IsItem(m(i), next) /\ m(i).id = list[i].id /\ m(i).of = list[i].of /\ m(i).row = n
    <2>1. IsItem(list[i], next)
      BY DEF IsList
    <2>2. PICK a, b, c, d : list[i] = [id |-> a, row |-> b, of |-> c, text |-> d]
      BY <2>1 DEF IsItem
    <2> DEFINE x == m(i)
    <2>3. x = [id |-> a, row |-> n, of |-> c, text |-> d]
      BY <2>2
    <2>4. list[i].id = a /\ list[i].of = c
      BY <2>2
    <2> HIDE DEF x
    <2>5. x.id = a /\ x.row = n /\ x.of = c /\ x = [id |-> x.id, row |-> x.row, of |-> x.of, text |-> x.text]
      BY <2>3
    <2>6. IsItem(x, next)
      BY <2>1, <2>4, <2>5 DEF IsItem
    <2> QED
      BY <2>4, <2>5, <2>6 DEF x
  <1> HIDE DEF new, m
  <1>3. Listed(new)
    BY <1>1, ListHas, ListMade DEF IsList
  <1>4. \A i \in DOMAIN list : /\ IsItem(new[i], next) /\ new[i].id = list[i].id /\ new[i].of = list[i].of
                               /\ new[i].row = IF list[i].id = id THEN n ELSE list[i].row
    BY <1>1, <1>2 DEF IsList
  <1>5. IsList(new, next)
    BY <1>1, <1>3, <1>4 DEF IsList
  <1> QED
    BY <1>1, <1>4, <1>5 DEF new

\* The row of a new item is its item's.
LEMMA ItemBound ==
    ASSUME IsWizard(wizard), NEW r, r.kind \in Kind, NEW s, NEW n \in Nat, n = Len(kept'[r.kind])
    PROVE  LET w == Done(s, Bound(wizard, r))
           IN  /\ IsWizard(w) /\ w.course = wizard.course /\ w.nextId = wizard.nextId
               /\ \A kind \in Kind :
                   /\ DOMAIN w[kind] = DOMAIN wizard[kind]
                   /\ \A i \in DOMAIN wizard[kind] :
                       /\ w[kind][i].id = wizard[kind][i].id /\ w[kind][i].of = wizard[kind][i].of
                       /\ w[kind][i].row = IF kind = r.kind /\ wizard[kind][i].id = r.id THEN n ELSE wizard[kind][i].row
  <1> DEFINE v == Bound(wizard, r)
             a == v.saving /\ Len(saves[s]) > 1
             w == Done(s, v)
  <1>1. w = [v EXCEPT !.saving = a]
    BY DEF Done
  <1>2. /\ IsList(wizard.lessons, wizard.nextId) /\ IsList(wizard.modules, wizard.nextId)
        /\ wizard.course \in Nat /\ wizard.nextId \in Nat \ {0}
        /\ \A i \in DOMAIN wizard.modules : \E j \in DOMAIN wizard.lessons : wizard.lessons[j].id = wizard.modules[i].of
    BY WizardLists
  <1>3. CASE r.kind = "lessons"
    <2> DEFINE new == BoundList(wizard.lessons, r.id, n)
    <2>1. v = [wizard EXCEPT !.lessons = new]
      BY <1>3 DEF Bound, BoundList
    <2>2. /\ IsList(new, wizard.nextId) /\ DOMAIN new = DOMAIN wizard.lessons
          /\ \A i \in DOMAIN wizard.lessons :
              /\ new[i].id = wizard.lessons[i].id /\ new[i].of = wizard.lessons[i].of
              /\ new[i].row = IF wizard.lessons[i].id = r.id THEN n ELSE wizard.lessons[i].row
      BY <1>2, ListBound
    <2> HIDE DEF new, v, a, w
    <2>3. v = Fields(wizard.step, wizard.course, wizard.title, new, wizard.modules, wizard.nextId, wizard.saving)
      BY <2>1, WizardFields, FieldsSet
    <2>4. /\ v = Fields(v.step, v.course, v.title, v.lessons, v.modules, v.nextId, v.saving)
          /\ v.step = wizard.step /\ v.course = wizard.course /\ v.title = wizard.title /\ v.lessons = new
          /\ v.modules = wizard.modules /\ v.nextId = wizard.nextId
      BY <2>3 DEF Fields
    <2>5. w = Fields(v.step, v.course, v.title, v.lessons, v.modules, v.nextId, a)
      BY <1>1, <2>4, FieldsSet
    <2>6. w = Fields(wizard.step, wizard.course, wizard.title, new, wizard.modules, wizard.nextId, a)
      BY <2>4, <2>5
    <2>7. \A i \in DOMAIN wizard.modules : \E j \in DOMAIN new : new[j].id = wizard.modules[i].of
      BY <1>2, <2>2
    <2>8. IsWizard(w)
      BY <1>2, <2>2, <2>6, <2>7, WizardMade
    <2>9. /\ w.course = wizard.course /\ w.nextId = wizard.nextId /\ w["lessons"] = new
          /\ w["modules"] = wizard.modules
      BY <2>6 DEF Fields
    <2>10. \A kind \in Kind :
             /\ DOMAIN w[kind] = DOMAIN wizard[kind]
             /\ \A i \in DOMAIN wizard[kind] :
                 /\ w[kind][i].id = wizard[kind][i].id /\ w[kind][i].of = wizard[kind][i].of
                 /\ w[kind][i].row = IF kind = r.kind /\ wizard[kind][i].id = r.id THEN n ELSE wizard[kind][i].row
      BY <1>3, <2>2, <2>9 DEF Kind
    <2> QED
      BY <2>8, <2>9, <2>10 DEF w, v
  <1>4. CASE r.kind = "modules"
    <2> DEFINE new == BoundList(wizard.modules, r.id, n)
    <2>1. v = [wizard EXCEPT !.modules = new]
      BY <1>4 DEF Bound, BoundList
    <2>2. /\ IsList(new, wizard.nextId) /\ DOMAIN new = DOMAIN wizard.modules
          /\ \A i \in DOMAIN wizard.modules :
              /\ new[i].id = wizard.modules[i].id /\ new[i].of = wizard.modules[i].of
              /\ new[i].row = IF wizard.modules[i].id = r.id THEN n ELSE wizard.modules[i].row
      BY <1>2, ListBound
    <2> HIDE DEF new, v, a, w
    <2>3. v = Fields(wizard.step, wizard.course, wizard.title, wizard.lessons, new, wizard.nextId, wizard.saving)
      BY <2>1, WizardFields, FieldsSet
    <2>4. /\ v = Fields(v.step, v.course, v.title, v.lessons, v.modules, v.nextId, v.saving)
          /\ v.step = wizard.step /\ v.course = wizard.course /\ v.title = wizard.title /\ v.modules = new
          /\ v.lessons = wizard.lessons /\ v.nextId = wizard.nextId
      BY <2>3 DEF Fields
    <2>5. w = Fields(v.step, v.course, v.title, v.lessons, v.modules, v.nextId, a)
      BY <1>1, <2>4, FieldsSet
    <2>6. w = Fields(wizard.step, wizard.course, wizard.title, wizard.lessons, new, wizard.nextId, a)
      BY <2>4, <2>5
    <2>7. \A i \in DOMAIN new : \E j \in DOMAIN wizard.lessons : wizard.lessons[j].id = new[i].of
      BY <1>2, <2>2
    <2>8. IsWizard(w)
      BY <1>2, <2>2, <2>6, <2>7, WizardMade
    <2>9. /\ w.course = wizard.course /\ w.nextId = wizard.nextId /\ w["modules"] = new
          /\ w["lessons"] = wizard.lessons
      BY <2>6 DEF Fields
    <2>10. \A kind \in Kind :
             /\ DOMAIN w[kind] = DOMAIN wizard[kind]
             /\ \A i \in DOMAIN wizard[kind] :
                 /\ w[kind][i].id = wizard[kind][i].id /\ w[kind][i].of = wizard[kind][i].of
                 /\ w[kind][i].row = IF kind = r.kind /\ wizard[kind][i].id = r.id THEN n ELSE wizard[kind][i].row
      BY <1>4, <2>2, <2>9 DEF Kind
    <2> QED
      BY <2>8, <2>9, <2>10 DEF w, v
  <1> QED
    BY <1>3, <1>4 DEF Kind

LEMMA RowCreated ==
    ASSUME WizardInv, calm, NEW s \in SaveSlot, Send(s), ~HasRow(Head(saves[s]))
    PROVE  WizardInv'
  <1> DEFINE q == saves[s]
             r == q[1]
             n == Len(Written(r)[r.kind])
             w == Done(s, Bound(wizard, r))
             k == Written(r)
  <1>1. /\ IsWizard(wizard) /\ IsKept(kept) /\ RowsFit(wizard, kept)
        /\ SavesAimed(wizard, kept) /\ TimersBound
    BY DEF WizardInv
  <1>2. /\ IsSave(q, wizard, kept) /\ Listed(q) /\ wizard.course # Absent /\ q # <<>>
        /\ \A x \in DOMAIN q : IsRequest(q[x]) /\ Aimed(q[x], wizard, kept)
        /\ \A x, y \in DOMAIN q : q[x].kind = q[y].kind /\ q[x].id = q[y].id => x = y
    BY <1>1 DEF SavesAimed, IsSave, Send
  <1>3. 1 \in DOMAIN q /\ Head(q) = r
    BY <1>2, ListTail
  <1>4. /\ kept' = k /\ Rerendered(w) /\ saves' = [saves EXCEPT ![s] = Tail(@)] /\ calm' = calm
    BY <1>3 DEF Send
  <1>5. IsRequest(r) /\ Aimed(r, wizard, kept) /\ r.kind \in Kind /\ r.row = Absent
    BY <1>2, <1>3 DEF IsRequest, HasRow
  <1> HIDE DEF r
  <1>6. /\ IsKept(k) /\ k.courses = kept.courses
        /\ \A kind \in Kind : kind # r.kind => k[kind] = kept[kind]
        /\ n \in Nat \ {0} /\ n \notin DOMAIN kept[r.kind]
        /\ DOMAIN k[r.kind] = DOMAIN kept[r.kind] \cup {n}
        /\ \A i \in DOMAIN kept[r.kind] : k[r.kind][i] = kept[r.kind][i]
        /\ k[r.kind][n].parent = r.parent
    BY <1>1, <1>5, ItemCreated
  <1>7. n = Len(kept'[r.kind]) /\ n \in Nat
    BY <1>4, <1>6
  <1> HIDE DEF n
  <1>8. /\ IsWizard(w) /\ w.course = wizard.course /\ w.nextId = wizard.nextId
        /\ \A kind \in Kind :
            /\ DOMAIN w[kind] = DOMAIN wizard[kind]
            /\ \A i \in DOMAIN wizard[kind] :
                /\ w[kind][i].id = wizard[kind][i].id /\ w[kind][i].of = wizard[kind][i].of
                /\ w[kind][i].row = IF kind = r.kind /\ wizard[kind][i].id = r.id THEN n ELSE wizard[kind][i].row
    BY <1>1, <1>5, <1>7, ItemBound
  <1> HIDE DEF w, k
  <1>9. ASSUME NEW kind \in Kind, NEW i \in DOMAIN w[kind], w[kind][i].row # Absent
        PROVE  /\ w[kind][i].row \in DOMAIN k[kind]
               /\ \A j \in DOMAIN w[kind] : w[kind][i].row = w[kind][j].row => i = j
    <2>1. \A j \in DOMAIN wizard[kind] : wizard[kind][j].row # Absent => wizard[kind][j].row \in DOMAIN kept[kind]
      BY <1>1 DEF RowsFit
    <2>2. n # Absent
      BY <1>6 DEF Absent
    <2>3. CASE kind = r.kind /\ wizard[kind][i].id = r.id
      <3>1. w[kind][i].row = n
        BY <1>8, <1>9, <2>3
      <3>2. ASSUME NEW j \in DOMAIN w[kind], w[kind][j].row = n PROVE i = j
        <4>1. wizard[kind][j].id = r.id
          <5> SUFFICES ASSUME wizard[kind][j].id # r.id PROVE FALSE
            OBVIOUS
          <5>1. wizard[kind][j].row = n
            BY <1>8, <3>2
          <5> QED
            BY <1>6, <1>8, <2>1, <2>2, <2>3, <3>2, <5>1
        <4> QED
          BY <1>1, <1>8, <1>9, <2>3, <3>2, <4>1 DEF IsWizard, IsList
      <3> QED
        BY <1>6, <2>3, <3>1, <3>2
    <2>4. CASE ~(kind = r.kind /\ wizard[kind][i].id = r.id)
      <3>1. w[kind][i].row = wizard[kind][i].row /\ wizard[kind][i].row \in DOMAIN kept[kind]
        BY <1>8, <1>9, <2>1, <2>4
      <3>2. ASSUME NEW j \in DOMAIN w[kind], w[kind][i].row = w[kind][j].row PROVE i = j
        <4>1. CASE kind = r.kind /\ wizard[kind][j].id = r.id
          <5>1. w[kind][j].row = n
            BY <1>8, <3>2, <4>1
          <5> QED
            BY <1>6, <3>1, <3>2, <4>1, <5>1
        <4>2. CASE ~(kind = r.kind /\ wizard[kind][j].id = r.id)
          <5>1. w[kind][j].row = wizard[kind][j].row
            BY <1>8, <3>2, <4>2
          <5>2. /\ i \in DOMAIN wizard[kind] /\ j \in DOMAIN wizard[kind]
                /\ wizard[kind][i].row # Absent /\ wizard[kind][i].row = wizard[kind][j].row
            BY <1>8, <1>9, <3>1, <3>2, <5>1
          <5> QED
            BY <1>1, <5>2 DEF RowsFit
        <4> QED
          BY <4>1, <4>2
      <3>3. DOMAIN kept[kind] \subseteq DOMAIN k[kind]
        BY <1>6
      <3> QED
        BY <3>1, <3>2, <3>3
    <2> QED
      BY <2>3, <2>4
  <1>10. \A kind \in Kind : \A i \in DOMAIN kept[kind] : i \in DOMAIN k[kind] /\ k[kind][i] = kept[kind][i]
    BY <1>6
  <1>11. ASSUME NEW i \in DOMAIN w.lessons, w.lessons[i].row # Absent
         PROVE  w.course # Absent /\ k.lessons[w.lessons[i].row].parent = w.course
    <2>0. "lessons" \in Kind /\ w["lessons"] = w.lessons /\ i \in DOMAIN wizard.lessons
      BY <1>8, <1>11 DEF Kind
    <2>1. CASE r.kind = "lessons" /\ wizard.lessons[i].id = r.id
      <3>1. w.lessons[i].row = n /\ k.lessons[n].parent = r.parent /\ r.parent = wizard.course
        BY <1>5, <1>6, <1>8, <2>0, <2>1 DEF Aimed
      <3> QED
        BY <1>2, <1>8, <3>1
    <2>2. CASE ~(r.kind = "lessons" /\ wizard.lessons[i].id = r.id)
      <3>1. w.lessons[i].row = wizard.lessons[i].row
        BY <1>8, <2>0, <2>2
      <3>2. wizard.lessons[i].row \in DOMAIN kept.lessons /\ kept.lessons[wizard.lessons[i].row].parent = wizard.course
        BY <1>1, <1>11, <2>0, <3>1 DEF RowsFit
      <3> QED
        BY <1>2, <1>8, <1>10, <2>0, <3>1, <3>2
    <2> QED
      BY <2>1, <2>2
  <1>12. ASSUME NEW i \in DOMAIN w.modules, NEW j \in DOMAIN w.lessons, w.lessons[j].id = w.modules[i].of,
                w.modules[i].row # Absent
         PROVE  w.lessons[j].row # Absent /\ k.modules[w.modules[i].row].parent = w.lessons[j].row
    <2>0. /\ Kind = {"lessons", "modules"} /\ i \in DOMAIN wizard.modules /\ j \in DOMAIN wizard.lessons
          /\ wizard.lessons[j].id = wizard.modules[i].of
      BY <1>8, <1>12 DEF Kind
    <2>1. CASE r.kind = "modules" /\ wizard.modules[i].id = r.id
      <3>1. w.modules[i].row = n /\ k.modules[n].parent = r.parent /\ w.lessons[j].row = wizard.lessons[j].row
        BY <1>6, <1>8, <2>0, <2>1
      <3>2. r.parent # Absent /\ wizard.lessons[j].row = r.parent
        BY <1>5, <2>0, <2>1 DEF Aimed
      <3> QED
        BY <3>1, <3>2
    <2>2. CASE ~(r.kind = "modules" /\ wizard.modules[i].id = r.id)
      <3>1. w.modules[i].row = wizard.modules[i].row
        BY <1>8, <2>0, <2>2
      <3>2. /\ wizard.modules[i].row \in DOMAIN kept.modules
            /\ wizard.lessons[j].row # Absent /\ kept.modules[wizard.modules[i].row].parent = wizard.lessons[j].row
        BY <1>1, <1>12, <2>0, <3>1 DEF RowsFit
      <3>3. ~(r.kind = "lessons" /\ wizard.lessons[j].id = r.id)
        BY <1>5, <2>0, <3>2 DEF Aimed
      <3>4. w.lessons[j].row = wizard.lessons[j].row
        BY <1>8, <2>0, <3>3
      <3>5. k.modules[wizard.modules[i].row] = kept.modules[wizard.modules[i].row]
        BY <1>10, <2>0, <3>2
      <3> QED
        BY <3>1, <3>2, <3>4, <3>5
    <2> QED
      BY <2>1, <2>2
  <1>13. RowsFit(w, k)
    <2>1. w.course # Absent => w.course \in DOMAIN k.courses
      BY <1>1, <1>6, <1>8 DEF RowsFit
    <2> QED
      BY <1>9, <1>11, <1>12, <2>1 DEF RowsFit
  <1>14. ASSUME NEW x \in DOMAIN q, x # 1 PROVE Aimed(q[x], w, k)
    <2> DEFINE p == q[x]
    <2>1. IsRequest(p) /\ Aimed(p, wizard, kept) /\ ~(p.kind = r.kind /\ p.id = r.id)
      BY <1>2, <1>3, <1>14 DEF r
    <2> HIDE DEF p
    <2>2. ASSUME p.kind \in Kind
          PROVE  /\ p.id < w.nextId /\ (p.row # Absent => p.row \in DOMAIN k[p.kind])
                 /\ \A i \in DOMAIN w[p.kind] :
                     /\ w[p.kind][i].id = p.id => w[p.kind][i].row = p.row
                     /\ p.row # Absent /\ w[p.kind][i].row = p.row => w[p.kind][i].id = p.id
      <3>1. p.id < w.nextId /\ (p.row # Absent => p.row \in DOMAIN kept[p.kind] /\ p.row \in DOMAIN k[p.kind])
        BY <1>8, <1>10, <2>1, <2>2 DEF Aimed
      <3>2. ASSUME NEW i \in DOMAIN w[p.kind], w[p.kind][i].id = p.id PROVE w[p.kind][i].row = p.row
        <4>1. wizard[p.kind][i].id = p.id /\ i \in DOMAIN wizard[p.kind]
          BY <1>8, <2>2, <3>2
        <4>2. w[p.kind][i].row = wizard[p.kind][i].row
          BY <1>8, <2>1, <2>2, <4>1
        <4> QED
          BY <2>1, <2>2, <4>1, <4>2 DEF Aimed
      <3>3. ASSUME NEW i \in DOMAIN w[p.kind], p.row # Absent, w[p.kind][i].row = p.row PROVE w[p.kind][i].id = p.id
        <4>1. i \in DOMAIN wizard[p.kind] /\ w[p.kind][i].id = wizard[p.kind][i].id
          BY <1>8, <2>2, <3>3
        <4>2. CASE p.kind = r.kind /\ wizard[p.kind][i].id = r.id
          <5>1. w[p.kind][i].row = n
            BY <1>8, <2>2, <4>1, <4>2
          <5> QED
            BY <1>6, <3>1, <3>3, <4>2, <5>1
        <4>3. CASE ~(p.kind = r.kind /\ wizard[p.kind][i].id = r.id)
          <5>1. wizard[p.kind][i].row = p.row
            BY <1>8, <2>2, <3>3, <4>1, <4>3
          <5> QED
            BY <2>1, <2>2, <3>3, <4>1, <5>1 DEF Aimed
        <4> QED
          BY <4>2, <4>3
      <3> QED
        BY <3>1, <3>2, <3>3
    <2>3. ASSUME p.kind = "modules", NEW i \in DOMAIN w.modules, NEW j \in DOMAIN w.lessons,
                 w.modules[i].id = p.id, w.lessons[j].id = w.modules[i].of
          PROVE  w.lessons[j].row = p.parent
      <3>1. /\ Kind = {"lessons", "modules"} /\ i \in DOMAIN wizard.modules /\ j \in DOMAIN wizard.lessons
            /\ wizard.modules[i].id = p.id /\ wizard.lessons[j].id = wizard.modules[i].of
        BY <1>8, <2>3 DEF Kind
      <3>2. wizard.lessons[j].row = p.parent /\ p.parent # Absent
        BY <2>1, <2>3, <3>1 DEF Aimed
      <3>3. ~(r.kind = "lessons" /\ wizard.lessons[j].id = r.id)
        BY <1>5, <3>1, <3>2 DEF Aimed
      <3> QED
        BY <1>8, <3>1, <3>2, <3>3
    <2>4. /\ p.kind = "course" => p.row = w.course
          /\ p.kind = "lessons" => p.parent = w.course
          /\ p.kind = "modules" => p.parent # Absent
      BY <1>8, <2>1 DEF Aimed
    <2>5. Aimed(p, w, k)
      BY <2>2, <2>3, <2>4 DEF Aimed
    <2> QED
      BY <2>5 DEF p
  <1>15. wizard' = w /\ kept' = k /\ alarm' = [alarm EXCEPT !["effect"] = IF w.course = Absent THEN @ ELSE w.course]
    BY <1>4 DEF Rerendered
  <1>16. SavesAimed(wizard, kept)'
    <2>1. \A x \in DOMAIN saves[s] : x # 1 => Aimed(saves[s][x], wizard', kept')
      BY <1>14, <1>15
    <2> QED
      BY <1>1, <1>2, <1>4, <1>8, <1>15, <2>1, SaveGoesOn
  <1>17. TimersBound' /\ alarm'["effect"] # Absent
    BY <1>1, <1>2, <1>8, <1>15 DEF TimersBound, Timer
  <1>18. Settled(wizard, kept)'
    BY <1>17 DEF Settled
  <1> QED
    BY <1>6, <1>8, <1>13, <1>15, <1>16, <1>17, <1>18, InvMade

\* A save ends without sending its requests.
LEMMA SaveFailed ==
    ASSUME WizardInv, NEW s \in SaveSlot, SendFails(s)
    PROVE  WizardInv'
  <1> SUFFICES ASSUME calm' PROVE WizardInv'
    BY DEF WizardInv
  <1> DEFINE q == saves[s]
             r == Head(q)
  <1>1. /\ q # <<>> /\ r.text = Short /\ kept' = kept /\ calm' = calm /\ calm
        /\ saves' = [saves EXCEPT ![s] = <<>>] /\ wizard' = [wizard EXCEPT !.saving = FALSE] /\ alarm' = alarm
    BY DEF SendFails
  <1>2. /\ IsWizard(wizard) /\ IsKept(kept) /\ RowsFit(wizard, kept)
        /\ SavesAimed(wizard, kept) /\ TimersBound /\ Settled(wizard, kept)
    BY <1>1 DEF WizardInv
  <1>3. SavingOnly(wizard')
    <2> DEFINE a == FALSE
    <2>1. wizard' = [wizard EXCEPT !.saving = a]
      BY <1>1
    <2> HIDE DEF a
    <2> QED
      BY <1>2, <2>1, SavingSet
  <1>4. IsWizard(wizard')
    BY <1>2, <1>3, SavingFits
  <1>5. RowsFit(wizard', kept')
    <2>1. SameItems(wizard', kept')
      BY <1>1, <1>3 DEF SavingOnly, SameItems
    <2> QED
      BY <1>2, <2>1, SameItemsFit
  <1>6. saves' = [t \in SaveSlot |-> saves'[t]] /\ \A t \in SaveSlot : saves'[t] = <<>>
    BY <1>1, <1>2 DEF SavesAimed
  <1>7. SavesAimed(wizard, kept)'
    <2>1. Listed(<<>>) /\ DOMAIN <<>> = {}
      BY DEF Listed
    <2>2. \A t \in SaveSlot : IsSave(saves'[t], wizard', kept')
      BY <1>6, <2>1 DEF IsSave
    <2>3. \A t, u \in SaveSlot : saves'[t] # <<>> /\ saves'[u] # <<>> => t = u
      BY <1>6
    <2> QED
      BY <1>6, <2>2, <2>3 DEF SavesAimed, IsSave, Aimed, IsRequest, Listed
  <1>8. TimersBound'
    BY <1>1, <1>2, <1>3 DEF TimersBound, SavingOnly
  <1>9. Settled(wizard, kept)'
    <2> SUFFICES ASSUME alarm["effect"] = Absent, wizard.course # Absent
                 PROVE  SentIsShown(wizard)' /\ ~ShortFree(wizard)'
      BY <1>1, <1>3 DEF Settled, SavingOnly
    <2>1. SentIsShown(wizard)
      BY <1>2 DEF Settled
    <2>2. 1 \in DOMAIN q /\ r = q[1] /\ IsRequest(q[1])
      <3>1. IsSave(q, wizard, kept)
        BY <1>2 DEF SavesAimed
      <3>2. Listed(q)
        BY <3>1 DEF IsSave
      <3> HIDE DEF q
      <3>3. 1 \in DOMAIN q /\ Head(q) = q[1]
        BY <1>1, <3>2, ListTail
      <3> QED
        BY <3>1, <3>3 DEF IsSave
    <2>3. q[1].kind # "course"
      BY <1>1, <2>1, <2>2 DEF SentIsShown
    <2>4. PICK i \in DOMAIN wizard[q[1].kind] : wizard[q[1].kind][i].text = Short
      BY <1>1, <2>1, <2>2, <2>3 DEF SentIsShown, IsRequest
    <2>5. \A kind \in Kind : wizard'[kind] = wizard[kind]
      BY <1>3 DEF SavingOnly, Kind
    <2>6. q[1].kind \in Kind
      BY <2>2, <2>3 DEF IsRequest
    <2>7. ~ShortFree(wizard)'
      BY <2>4, <2>5, <2>6 DEF ShortFree
    <2>8. SentIsShown(wizard)'
      <3>1. DOMAIN <<>> = {}
        OBVIOUS
      <3>2. \A t \in SaveSlot : DOMAIN saves'[t] = {}
        BY <1>6, <3>1
      <3> QED
        BY <3>2 DEF SentIsShown
    <2> QED
      BY <2>7, <2>8
  <1> QED
    BY <1>1, <1>2, <1>4, <1>5, <1>7, <1>8, <1>9, InvMade

\* The requests of a save.
CourseRequest(w, course) == [kind |-> "course", id |-> Absent, row |-> course, parent |-> Absent, text |-> w.title]
ItemRequest(kind, m, parent) == [kind |-> kind, id |-> m.id, row |-> m.row, parent |-> parent, text |-> m.text]

LEMMA ItemAsked ==
    ASSUME NEW kind, NEW m, NEW parent
    PROVE  /\ ItemRequest(kind, m, parent).kind = kind /\ ItemRequest(kind, m, parent).id = m.id
           /\ ItemRequest(kind, m, parent).row = m.row /\ ItemRequest(kind, m, parent).parent = parent
           /\ ItemRequest(kind, m, parent).text = m.text
  BY DEF ItemRequest

LEMMA LessonIs ==
    ASSUME NEW w, IsWizard(w), NEW j \in DOMAIN w.lessons, NEW m, w.lessons[j].id = m.of
    PROVE  LessonOf(w, m) = w.lessons[j]
  <1>1. w.lessons[j] \in ToSet(w.lessons)
    BY DEF ToSet
  <1>2. \A l \in ToSet(w.lessons) : l.id = m.of => l = w.lessons[j]
    BY DEF ToSet, IsWizard, IsList, Kind
  <1>3. LessonOf(w, m) \in ToSet(w.lessons) /\ LessonOf(w, m).id = m.of
    BY <1>1 DEF LessonOf
  <1> QED
    BY <1>2, <1>3

LEMMA ListJoined ==
    ASSUME NEW a, Listed(a), NEW b, Listed(b)
    PROVE  /\ Listed(a \o b)
           /\ \A x \in DOMAIN a : x \in DOMAIN (a \o b) /\ (a \o b)[x] = a[x]
           /\ \A y \in DOMAIN b : Len(a) + y \in DOMAIN (a \o b) /\ (a \o b)[Len(a) + y] = b[y]
           /\ \A x \in DOMAIN (a \o b) : x \in DOMAIN a \/ \E y \in DOMAIN b : x = Len(a) + y
  <1> DEFINE S == ToSet(a) \cup ToSet(b)
             ab == a \o b
  <1>1. a \in Seq(S) /\ b \in Seq(S)
    BY DEF Listed
  <1> HIDE DEF S
  <1>2. Len(a) \in Nat /\ DOMAIN a = 1..Len(a) /\ Len(b) \in Nat /\ DOMAIN b = 1..Len(b)
    BY ListHas
  <1>3. /\ ab \in Seq(S) /\ Len(ab) = Len(a) + Len(b)
        /\ \A i \in 1..Len(ab) : ab[i] = IF i <= Len(a) THEN a[i] ELSE b[i - Len(a)]
    BY <1>1, ConcatProperties
  <1> HIDE DEF ab
  <1>4. DOMAIN ab = 1..Len(ab) /\ ab = [i \in 1..Len(ab) |-> ab[i]] /\ Len(ab) \in Nat
    BY <1>3
  <1>5. Listed(ab)
    BY <1>4, ListMade
  <1>6. \A x \in DOMAIN a : x \in DOMAIN ab /\ ab[x] = a[x]
    BY <1>2, <1>3, <1>4
  <1>7. ASSUME NEW y \in DOMAIN b PROVE Len(a) + y \in DOMAIN ab /\ ab[Len(a) + y] = b[y]
    <2>1. Len(a) + y \in 1..Len(ab) /\ ~(Len(a) + y <= Len(a)) /\ (Len(a) + y) - Len(a) = y
      BY <1>2, <1>3
    <2> QED
      BY <1>3, <1>4, <2>1
  <1>8. ASSUME NEW x \in DOMAIN ab, x \notin DOMAIN a PROVE \E y \in DOMAIN b : x = Len(a) + y
    <2>1. x - Len(a) \in DOMAIN b /\ x = Len(a) + (x - Len(a))
      BY <1>2, <1>3, <1>4, <1>8
    <2> QED
      BY <2>1
  <1> QED
    BY <1>5, <1>6, <1>7, <1>8 DEF ab

Joined(ab, a, b) ==
    /\ \A x \in DOMAIN ab : (\E y \in DOMAIN a : ab[x] = a[y]) \/ (\E y \in DOMAIN b : ab[x] = b[y])
    /\ \A y \in DOMAIN a : \E x \in DOMAIN ab : ab[x] = a[y]
    /\ \A y \in DOMAIN b : \E x \in DOMAIN ab : ab[x] = b[y]

\* A joined list has what its parts have.
LEMMA JoinedHas ==
    ASSUME NEW a, Listed(a), NEW b, Listed(b)
    PROVE  Joined(a \o b, a, b)
  <1> DEFINE ab == a \o b
             n == Len(a)
  <1>1. /\ \A x \in DOMAIN a : x \in DOMAIN ab /\ ab[x] = a[x]
        /\ \A y \in DOMAIN b : n + y \in DOMAIN ab /\ ab[n + y] = b[y]
        /\ \A x \in DOMAIN ab : x \in DOMAIN a \/ \E y \in DOMAIN b : x = n + y
    BY ListJoined
  <1> HIDE DEF ab, n
  <1>2. \A x \in DOMAIN ab : (\E y \in DOMAIN a : ab[x] = a[y]) \/ (\E y \in DOMAIN b : ab[x] = b[y])
    BY <1>1
  <1>3. \A y \in DOMAIN a : \E x \in DOMAIN ab : ab[x] = a[y]
    BY <1>1
  <1>4. \A y \in DOMAIN b : \E x \in DOMAIN ab : ab[x] = b[y]
    BY <1>1
  <1> QED
    BY <1>2, <1>3, <1>4 DEF Joined, ab

\* No two requests of a list are for the same item.
Apart(q) == \A x, y \in DOMAIN q : q[x].kind = q[y].kind /\ q[x].id = q[y].id => x = y

LEMMA ApartJoined ==
    ASSUME NEW a, Listed(a), Apart(a), NEW b, Listed(b), Apart(b),
           \A x \in DOMAIN a : \A y \in DOMAIN b : a[x].kind # b[y].kind
    PROVE  Apart(a \o b)
  <1> DEFINE ab == a \o b
             n == Len(a)
  <1>1. /\ \A x \in DOMAIN a : ab[x] = a[x]
        /\ \A y \in DOMAIN b : ab[n + y] = b[y]
        /\ \A x \in DOMAIN ab : x \in DOMAIN a \/ \E y \in DOMAIN b : x = n + y
    BY ListJoined
  <1> HIDE DEF ab, n
  <1>2. ASSUME NEW x \in DOMAIN ab, NEW y \in DOMAIN ab, ab[x].kind = ab[y].kind, ab[x].id = ab[y].id PROVE x = y
    <2>1. CASE x \in DOMAIN a /\ y \in DOMAIN a
      BY <1>1, <1>2, <2>1 DEF Apart
    <2>2. CASE x \notin DOMAIN a /\ y \notin DOMAIN a
      <3>1. PICK i \in DOMAIN b : x = n + i
        BY <1>1, <2>2
      <3>2. PICK j \in DOMAIN b : y = n + j
        BY <1>1, <2>2
      <3>3. i = j
        BY <1>1, <1>2, <3>1, <3>2 DEF Apart
      <3> QED
        BY <3>1, <3>2, <3>3
    <2>3. CASE x \in DOMAIN a /\ y \notin DOMAIN a
      BY <1>1, <1>2, <2>3
    <2>4. CASE x \notin DOMAIN a /\ y \in DOMAIN a
      BY <1>1, <1>2, <2>4
    <2> QED
      BY <2>1, <2>2, <2>3, <2>4
  <1>3. Apart(ab)
    BY <1>2 DEF Apart
  <1> QED
    BY <1>3 DEF ab

LEMMA RequestsMade ==
    ASSUME NEW w, IsWizard(w), NEW course
    PROVE  LET q == Requests(w, course)
               HasRoot(i) == LessonOf(w, w.modules[i]).row # Absent
           IN  /\ Listed(q) /\ Apart(q)
               /\ \A x \in DOMAIN q :
                   \/ w.title # Short /\ q[x] = CourseRequest(w, course)
                   \/ \E i \in DOMAIN w.lessons : q[x] = ItemRequest("lessons", w.lessons[i], course)
                   \/ \E i \in DOMAIN w.modules :
                       /\ HasRoot(i)
                       /\ q[x] = ItemRequest("modules", w.modules[i], LessonOf(w, w.modules[i]).row)
               /\ w.title # Short => \E x \in DOMAIN q : q[x] = CourseRequest(w, course)
               /\ \A i \in DOMAIN w.lessons : \E x \in DOMAIN q : q[x] = ItemRequest("lessons", w.lessons[i], course)
               /\ \A i \in DOMAIN w.modules : HasRoot(i) =>
                   \E x \in DOMAIN q : q[x] = ItemRequest("modules", w.modules[i], LessonOf(w, w.modules[i]).row)
  <1> DEFINE c == CourseRequest(w, course)
             a == IF w.title = Short THEN <<>> ELSE <<c>>
             rooted == Rooted(w)
             b == Asked("lessons", w.lessons, [i \in DOMAIN w.lessons |-> course])
             d == Asked("modules", rooted, [i \in DOMAIN rooted |-> LessonOf(w, rooted[i]).row])
             at == {k \in DOMAIN w.modules : LessonOf(w, w.modules[k]).row # Absent}
             ab == a \o b
             q == Requests(w, course)
  <1>1. q = ab \o d
    BY DEF Requests, CourseRequest
  <1>2. /\ Listed(a) /\ Apart(a)
        /\ \A x \in DOMAIN a : w.title # Short /\ a[x] = c
        /\ w.title # Short => \E x \in DOMAIN a : a[x] = c
    <2>1. CASE w.title = Short
      <3>1. a = <<>> /\ Listed(<<>>) /\ DOMAIN <<>> = {}
        BY <2>1 DEF Listed
      <3> HIDE DEF a, c
      <3>2. DOMAIN a = {} /\ Listed(a)
        BY <3>1
      <3> QED
        BY <2>1, <3>2 DEF Apart
    <2>2. CASE w.title # Short
      <3> HIDE DEF c
      <3>1. a = <<c>>
        BY <2>2
      <3>2. DOMAIN <<c>> = {1} /\ <<c>>[1] = c /\ <<c>> \in Seq({c}) /\ ToSet(<<c>>) = {c}
        BY DEF ToSet
      <3>3. Listed(<<c>>)
        BY <3>2 DEF Listed
      <3> HIDE DEF a
      <3>4. Listed(a) /\ DOMAIN a = {1} /\ a[1] = c
        BY <3>1, <3>2, <3>3
      <3> QED
        BY <2>2, <3>4 DEF Apart
    <2> QED
      BY <2>1, <2>2
  <1>3. /\ IsList(w.lessons, w.nextId) /\ IsList(w.modules, w.nextId)
    BY DEF IsWizard, Kind
  <1>4. /\ Listed(b) /\ Apart(b) /\ DOMAIN b = DOMAIN w.lessons
        /\ \A i \in DOMAIN w.lessons : b[i] = ItemRequest("lessons", w.lessons[i], course)
    <2>1. DOMAIN b = DOMAIN w.lessons /\ b = [i \in DOMAIN b |-> b[i]]
      BY DEF Asked
    <2>2. \A i \in DOMAIN w.lessons : b[i] = ItemRequest("lessons", w.lessons[i], course)
      BY DEF Asked, ItemRequest
    <2> HIDE DEF b
    <2>3. Listed(b)
      BY <1>3, <2>1, ListHas, ListMade DEF IsList
    <2>4. \A i \in DOMAIN w.lessons : b[i].id = w.lessons[i].id
      BY <2>1, <2>2, ItemAsked
    <2>5. Apart(b)
      BY <1>3, <2>1, <2>4 DEF Apart, IsList
    <2> QED
      BY <2>1, <2>2, <2>3, <2>5
  <1>5. at \in SUBSET DOMAIN w.modules /\ rooted = Filtered(w.modules, at) /\ Listed(w.modules)
    BY <1>3 DEF Rooted, IsList
  <1> HIDE DEF rooted, at
  <1>6. PICK from : /\ \A k \in DOMAIN rooted : from[k] \in at /\ rooted[k] = w.modules[from[k]]
                    /\ \A j, k \in DOMAIN rooted : from[j] = from[k] => j = k
                    /\ \A j \in at : \E k \in DOMAIN rooted : from[k] = j
    BY <1>5, ListFiltered
  <1>7. Listed(rooted)
    BY <1>5, ListFiltered
  <1>8. /\ Listed(d) /\ Apart(d) /\ DOMAIN d = DOMAIN rooted
        /\ \A i \in DOMAIN rooted : d[i] = ItemRequest("modules", w.modules[from[i]], LessonOf(w, w.modules[from[i]]).row)
    <2>1. DOMAIN d = DOMAIN rooted /\ d = [i \in DOMAIN d |-> d[i]]
      BY DEF Asked
    <2>2. \A i \in DOMAIN rooted : d[i] = ItemRequest("modules", rooted[i], LessonOf(w, rooted[i]).row)
      BY DEF Asked, ItemRequest
    <2> HIDE DEF d
    <2>3. Listed(d)
      BY <1>7, <2>1, ListHas, ListMade
    <2>4. \A i \in DOMAIN rooted : d[i].id = w.modules[from[i]].id /\ from[i] \in DOMAIN w.modules
      BY <1>5, <1>6, <2>1, <2>2, ItemAsked
    <2>5. Apart(d)
      BY <1>3, <1>6, <2>1, <2>4 DEF Apart, IsList
    <2>6. \A i \in DOMAIN rooted : d[i] = ItemRequest("modules", w.modules[from[i]], LessonOf(w, w.modules[from[i]]).row)
      BY <1>6, <2>2
    <2> QED
      BY <2>1, <2>3, <2>5, <2>6
  <1> HIDE DEF a, b, d, q
  <1>9. \A x \in DOMAIN a : a[x].kind = "course"
    <2>1. c.kind = "course"
      BY DEF CourseRequest
    <2> HIDE DEF c
    <2> QED
      BY <1>2, <2>1
  <1>10. \A x \in DOMAIN b : b[x].kind = "lessons"
    BY <1>4, ItemAsked
  <1>11. \A x \in DOMAIN d : d[x].kind = "modules"
    BY <1>8, ItemAsked
  <1> HIDE DEF c
  <1>12. Listed(ab) /\ Apart(ab)
    BY <1>2, <1>4, <1>9, <1>10, ListJoined, ApartJoined
  <1>13. Joined(ab, a, b)
    BY <1>2, <1>4, JoinedHas
  <1> HIDE DEF ab
  <1>15. Listed(q) /\ Apart(q)
    <2>1. \A x \in DOMAIN ab : ab[x].kind # "modules"
      BY <1>9, <1>10, <1>13 DEF Joined
    <2> QED
      BY <1>1, <1>8, <1>11, <1>12, <2>1, ListJoined, ApartJoined
  <1>16. Joined(q, ab, d)
    BY <1>1, <1>8, <1>12, JoinedHas
  <1>18. ASSUME NEW x \in DOMAIN q
         PROVE  \/ w.title # Short /\ q[x] = c
                \/ \E i \in DOMAIN w.lessons : q[x] = ItemRequest("lessons", w.lessons[i], course)
                \/ \E i \in DOMAIN w.modules :
                    /\ LessonOf(w, w.modules[i]).row # Absent
                    /\ q[x] = ItemRequest("modules", w.modules[i], LessonOf(w, w.modules[i]).row)
    <2>1. CASE \E y \in DOMAIN a : q[x] = a[y]
      BY <1>2, <2>1
    <2>2. CASE \E y \in DOMAIN b : q[x] = b[y]
      BY <1>4, <2>2
    <2>3. CASE \E y \in DOMAIN d : q[x] = d[y]
      <3>1. PICK y \in DOMAIN rooted : q[x] = d[y]
        BY <1>8, <2>3
      <3>2. from[y] \in DOMAIN w.modules /\ LessonOf(w, w.modules[from[y]]).row # Absent
        BY <1>6 DEF at
      <3> QED
        BY <1>8, <3>1, <3>2
    <2> QED
      BY <1>13, <1>16, <2>1, <2>2, <2>3 DEF Joined
  <1>19. w.title # Short => \E x \in DOMAIN q : q[x] = c
    BY <1>2, <1>13, <1>16 DEF Joined
  <1>20. \A i \in DOMAIN w.lessons : \E x \in DOMAIN q : q[x] = ItemRequest("lessons", w.lessons[i], course)
    BY <1>4, <1>13, <1>16 DEF Joined
  <1>21. ASSUME NEW i \in DOMAIN w.modules, LessonOf(w, w.modules[i]).row # Absent
         PROVE  \E x \in DOMAIN q : q[x] = ItemRequest("modules", w.modules[i], LessonOf(w, w.modules[i]).row)
    <2>1. i \in at
      BY <1>21 DEF at
    <2>2. PICK k \in DOMAIN rooted : from[k] = i
      BY <1>6, <2>1
    <2>3. k \in DOMAIN d /\ d[k] = ItemRequest("modules", w.modules[i], LessonOf(w, w.modules[i]).row)
      BY <1>8, <2>2
    <2> QED
      BY <1>16, <2>3 DEF Joined
  <1> QED
    BY <1>15, <1>18, <1>19, <1>20, <1>21 DEF c, q

LEMMA ItemAimed ==
    ASSUME IsWizard(wizard), RowsFit(wizard, kept), NEW kind \in Kind, NEW i \in DOMAIN wizard[kind], NEW parent
    PROVE  LET r == ItemRequest(kind, wizard[kind][i], parent)
           IN  /\ IsRequest(r) /\ r.kind = kind
               /\ r.id < wizard.nextId /\ (r.row # Absent => r.row \in DOMAIN kept[kind])
               /\ \A j \in DOMAIN wizard[kind] :
                   /\ wizard[kind][j].id = r.id => j = i /\ wizard[kind][j].row = r.row
                   /\ r.row # Absent /\ wizard[kind][j].row = r.row => wizard[kind][j].id = r.id
  <1> DEFINE m == wizard[kind][i]
             r == ItemRequest(kind, m, parent)
  <1>1. IsItem(m, wizard.nextId) /\ wizard.nextId \in Nat \ {0}
    BY DEF IsWizard, IsList
  <1>2. m.id \in Nat /\ m.id < wizard.nextId
    BY <1>1 DEF IsItem
  <1>3. r.kind = kind /\ r.id = m.id /\ r.row = m.row
    BY ItemAsked
  <1>4. IsRequest(r)
    <2>1. r = [kind |-> r.kind, id |-> r.id, row |-> r.row, parent |-> r.parent, text |-> r.text]
      BY DEF ItemRequest
    <2> HIDE DEF r, m
    <2> QED
      BY <1>2, <1>3, <2>1 DEF IsRequest
  <1>5. \A j \in DOMAIN wizard[kind] : wizard[kind][j].id = m.id => j = i
    BY DEF IsWizard, IsList
  <1>6. m.row # Absent => /\ m.row \in DOMAIN kept[kind]
                          /\ \A j \in DOMAIN wizard[kind] : wizard[kind][j].row = m.row => i = j
    BY DEF RowsFit
  <1> HIDE DEF r
  <1> QED
    BY <1>2, <1>3, <1>4, <1>5, <1>6 DEF r

LEMMA RequestsAimed ==
    ASSUME IsWizard(wizard), RowsFit(wizard, kept), NEW q, q = Requests(wizard, wizard.course)
    PROVE  \A x \in DOMAIN q : IsRequest(q[x]) /\ Aimed(q[x], wizard, kept)
  <1> SUFFICES ASSUME NEW x \in DOMAIN q PROVE IsRequest(q[x]) /\ Aimed(q[x], wizard, kept)
    OBVIOUS
  <1> DEFINE r == q[x]
  <1>1. \/ wizard.title # Short /\ r = CourseRequest(wizard, wizard.course)
        \/ \E i \in DOMAIN wizard.lessons : r = ItemRequest("lessons", wizard.lessons[i], wizard.course)
        \/ \E i \in DOMAIN wizard.modules :
            /\ LessonOf(wizard, wizard.modules[i]).row # Absent
            /\ r = ItemRequest("modules", wizard.modules[i], LessonOf(wizard, wizard.modules[i]).row)
    BY RequestsMade
  <1> HIDE DEF r
  <1>2. ASSUME r = CourseRequest(wizard, wizard.course) PROVE IsRequest(r) /\ Aimed(r, wizard, kept)
    <2>1. /\ r = [kind |-> r.kind, id |-> r.id, row |-> r.row, parent |-> r.parent, text |-> r.text]
          /\ r.kind = "course" /\ r.id = 0 /\ r.row = wizard.course
      BY <1>2 DEF CourseRequest, Absent
    <2> QED
      BY <2>1 DEF IsRequest, Aimed, Kind
  <1>3. ASSUME NEW i \in DOMAIN wizard.lessons, r = ItemRequest("lessons", wizard.lessons[i], wizard.course)
        PROVE  IsRequest(r) /\ Aimed(r, wizard, kept)
    <2>1. "lessons" \in Kind /\ wizard.lessons = wizard["lessons"]
      BY DEF Kind
    <2>2. /\ IsRequest(r) /\ r.kind = "lessons"
          /\ r.id < wizard.nextId /\ (r.row # Absent => r.row \in DOMAIN kept["lessons"])
          /\ \A j \in DOMAIN wizard["lessons"] :
              /\ wizard["lessons"][j].id = r.id => wizard["lessons"][j].row = r.row
              /\ r.row # Absent /\ wizard["lessons"][j].row = r.row => wizard["lessons"][j].id = r.id
      BY <1>3, <2>1, ItemAimed
    <2>3. r.parent = wizard.course
      BY <1>3, ItemAsked
    <2> QED
      BY <2>2, <2>3 DEF Aimed
  <1>4. ASSUME NEW i \in DOMAIN wizard.modules, LessonOf(wizard, wizard.modules[i]).row # Absent,
               r = ItemRequest("modules", wizard.modules[i], LessonOf(wizard, wizard.modules[i]).row)
        PROVE  IsRequest(r) /\ Aimed(r, wizard, kept)
    <2>1. "modules" \in Kind /\ wizard.modules = wizard["modules"]
      BY DEF Kind
    <2>2. /\ IsRequest(r) /\ r.kind = "modules"
          /\ r.id < wizard.nextId /\ (r.row # Absent => r.row \in DOMAIN kept["modules"])
          /\ \A j \in DOMAIN wizard["modules"] :
              /\ wizard["modules"][j].id = r.id => j = i /\ wizard["modules"][j].row = r.row
              /\ r.row # Absent /\ wizard["modules"][j].row = r.row => wizard["modules"][j].id = r.id
      BY <1>4, <2>1, ItemAimed
    <2>3. r.parent = LessonOf(wizard, wizard.modules[i]).row
      BY <1>4, ItemAsked
    <2>4. ASSUME NEW k \in DOMAIN wizard.modules, NEW j \in DOMAIN wizard.lessons,
                 wizard.modules[k].id = r.id, wizard.lessons[j].id = wizard.modules[k].of
          PROVE  wizard.lessons[j].row = r.parent
      <3>1. k = i
        BY <2>1, <2>2, <2>4
      <3>2. LessonOf(wizard, wizard.modules[i]) = wizard.lessons[j]
        BY <2>4, <3>1, LessonIs
      <3> QED
        BY <2>3, <3>2
    <2> QED
      BY <1>4, <2>2, <2>3, <2>4 DEF Aimed
  <1>5. IsRequest(r) /\ Aimed(r, wizard, kept)
    BY <1>1, <1>2, <1>3, <1>4
  <1> QED
    BY <1>5 DEF r

\* A timer has run out: what the wizard shows is on its way.
LEMMA SaveStarted ==
    ASSUME WizardInv, NEW t \in Timer, NEW s \in SaveSlot, Fire(t, s)
    PROVE  WizardInv'
  <1> SUFFICES ASSUME calm' PROVE WizardInv'
    BY DEF WizardInv
  <1> DEFINE q == Requests(wizard, wizard.course)
             busy == saves'[s] # <<>>
  <1>1. /\ alarm[t] # Absent /\ alarm' = [alarm EXCEPT ![t] = Absent]
        /\ saves' = [saves EXCEPT ![s] = Requests(wizard, alarm[t])]
        /\ wizard' = [wizard EXCEPT !.saving = busy] /\ kept' = kept
        /\ calm /\ \A u \in SaveSlot : saves[u] = <<>>
    BY DEF Fire
  <1> HIDE DEF busy
  <1>2. /\ IsWizard(wizard) /\ IsKept(kept) /\ RowsFit(wizard, kept)
        /\ SavesAimed(wizard, kept) /\ TimersBound
    BY <1>1 DEF WizardInv
  <1>3. alarm[t] = wizard.course /\ wizard.course # Absent
    BY <1>1, <1>2 DEF TimersBound
  <1>4. /\ saves' = [u \in SaveSlot |-> saves'[u]] /\ saves'[s] = q
        /\ \A u \in SaveSlot : u # s => saves'[u] = <<>>
    BY <1>1, <1>2, <1>3 DEF SavesAimed
  <1>5. SavingOnly(wizard')
    BY <1>1, <1>2, SavingSet
  <1>6. IsWizard(wizard')
    BY <1>2, <1>5, SavingFits
  <1>7. SameItems(wizard', kept')
    BY <1>1, <1>5 DEF SavingOnly, SameItems
  <1>8. RowsFit(wizard', kept') /\ \A r : Aimed(r, wizard, kept) => Aimed(r, wizard', kept')
    BY <1>2, <1>7, SameItemsFit
  <1>9. wizard'.course = wizard.course /\ wizard'.title = wizard.title /\ wizard'.lessons = wizard.lessons
        /\ wizard'.modules = wizard.modules /\ \A kind \in Kind : wizard'[kind] = wizard[kind]
    BY <1>5 DEF SavingOnly, Kind
  <1>10. /\ Listed(q) /\ Apart(q)
         /\ \A x \in DOMAIN q :
             \/ wizard.title # Short /\ q[x] = CourseRequest(wizard, wizard.course)
             \/ \E i \in DOMAIN wizard.lessons : q[x] = ItemRequest("lessons", wizard.lessons[i], wizard.course)
             \/ \E i \in DOMAIN wizard.modules :
                 q[x] = ItemRequest("modules", wizard.modules[i], LessonOf(wizard, wizard.modules[i]).row)
         /\ wizard.title # Short => \E x \in DOMAIN q : q[x] = CourseRequest(wizard, wizard.course)
         /\ \A i \in DOMAIN wizard.lessons : \E x \in DOMAIN q : q[x] = ItemRequest("lessons", wizard.lessons[i], wizard.course)
         /\ \A i \in DOMAIN wizard.modules : LessonOf(wizard, wizard.modules[i]).row # Absent =>
             \E x \in DOMAIN q : q[x] = ItemRequest("modules", wizard.modules[i], LessonOf(wizard, wizard.modules[i]).row)
    BY <1>2, RequestsMade
  <1>11. \A x \in DOMAIN q : IsRequest(q[x]) /\ Aimed(q[x], wizard, kept)
    BY <1>2, RequestsAimed
  <1> HIDE DEF q
  <1>12. SavesAimed(wizard, kept)'
    <2>1. IsSave(q, wizard', kept')
      BY <1>3, <1>8, <1>9, <1>10, <1>11 DEF IsSave, Apart
    <2>2. Listed(<<>>) /\ DOMAIN <<>> = {}
      BY DEF Listed
    <2>3. \A u \in SaveSlot : IsSave(saves'[u], wizard', kept')
      BY <1>4, <2>1, <2>2 DEF IsSave
    <2>4. \A u, v \in SaveSlot : saves'[u] # <<>> /\ saves'[v] # <<>> => u = v
      BY <1>4
    <2> QED
      BY <1>4, <2>3, <2>4 DEF SavesAimed, IsSave, Aimed, IsRequest, Listed
  <1>13. TimersBound'
    BY <1>1, <1>2, <1>9 DEF TimersBound
  <1>14. SentIsShown(wizard)'
    <2> SUFFICES ASSUME NEW u \in SaveSlot, NEW x \in DOMAIN saves'[u]
                 PROVE  /\ saves'[u][x].kind = "course" => saves'[u][x].text = wizard.title /\ saves'[u][x].text # Short
                        /\ saves'[u][x].kind \in Kind =>
                             \E i \in DOMAIN wizard[saves'[u][x].kind] :
                                 /\ wizard[saves'[u][x].kind][i].id = saves'[u][x].id
                                 /\ wizard[saves'[u][x].kind][i].text = saves'[u][x].text
      BY <1>9 DEF SentIsShown
    <2>1. x \in DOMAIN q /\ saves'[u][x] = q[x]
      <3>1. DOMAIN <<>> = {}
        OBVIOUS
      <3> QED
        BY <1>4, <3>1
    <2>2. CASE wizard.title # Short /\ q[x] = CourseRequest(wizard, wizard.course)
      BY <2>1, <2>2 DEF CourseRequest, Kind
    <2>3. ASSUME NEW i \in DOMAIN wizard.lessons, q[x] = ItemRequest("lessons", wizard.lessons[i], wizard.course)
          PROVE  /\ q[x].kind = "lessons" /\ i \in DOMAIN wizard["lessons"]
                 /\ wizard["lessons"][i].id = q[x].id /\ wizard["lessons"][i].text = q[x].text
      BY <2>3, ItemAsked
    <2>4. ASSUME NEW i \in DOMAIN wizard.modules,
                 q[x] = ItemRequest("modules", wizard.modules[i], LessonOf(wizard, wizard.modules[i]).row)
          PROVE  /\ q[x].kind = "modules" /\ i \in DOMAIN wizard["modules"]
                 /\ wizard["modules"][i].id = q[x].id /\ wizard["modules"][i].text = q[x].text
      BY <2>4, ItemAsked
    <2>5. CASE \E i \in DOMAIN wizard.lessons : q[x] = ItemRequest("lessons", wizard.lessons[i], wizard.course)
      BY <2>1, <2>3, <2>5
    <2>6. CASE \E i \in DOMAIN wizard.modules :
                 q[x] = ItemRequest("modules", wizard.modules[i], LessonOf(wizard, wizard.modules[i]).row)
      BY <2>1, <2>4, <2>6
    <2> QED
      BY <1>10, <2>1, <2>2, <2>5, <2>6
  <1> DEFINE Later(kind, id, text) ==
               \E u \in SaveSlot : \E x \in DOMAIN saves'[u] :
                   saves'[u][x].kind = kind /\ saves'[u][x].id = id /\ saves'[u][x].text = text
  <1>15. wizard.title # Short => Later("course", Absent, wizard.title)
    <2> SUFFICES ASSUME wizard.title # Short PROVE Later("course", Absent, wizard.title)
      OBVIOUS
    <2>1. PICK x \in DOMAIN q : q[x] = CourseRequest(wizard, wizard.course)
      BY <1>10
    <2>2. q[x].kind = "course" /\ q[x].id = Absent /\ q[x].text = wizard.title
      BY <2>1 DEF CourseRequest
    <2>3. s \in SaveSlot /\ x \in DOMAIN saves'[s] /\ saves'[s][x] = q[x]
      BY <1>4
    <2> QED
      BY <2>2, <2>3
  <1>16. \A i \in DOMAIN wizard.lessons : Later("lessons", wizard.lessons[i].id, wizard.lessons[i].text)
    BY <1>4, <1>10, ItemAsked
  <1>17. \A i \in DOMAIN wizard.modules :
           \/ Later("modules", wizard.modules[i].id, wizard.modules[i].text)
           \/ \E j \in DOMAIN wizard.lessons : wizard.lessons[j].id = wizard.modules[i].of /\ wizard.lessons[j].row = Absent
    <2> SUFFICES ASSUME NEW i \in DOMAIN wizard.modules
                 PROVE  \/ Later("modules", wizard.modules[i].id, wizard.modules[i].text)
                        \/ \E j \in DOMAIN wizard.lessons : wizard.lessons[j].id = wizard.modules[i].of /\ wizard.lessons[j].row = Absent
      OBVIOUS
    <2>1. PICK j \in DOMAIN wizard.lessons : wizard.lessons[j].id = wizard.modules[i].of
      BY <1>2 DEF IsWizard
    <2>2. LessonOf(wizard, wizard.modules[i]) = wizard.lessons[j]
      BY <1>2, <2>1, LessonIs
    <2>3. CASE wizard.lessons[j].row # Absent
      <3>1. PICK x \in DOMAIN q : q[x] = ItemRequest("modules", wizard.modules[i], LessonOf(wizard, wizard.modules[i]).row)
        BY <1>10, <2>2, <2>3
      <3>2. q[x].kind = "modules" /\ q[x].id = wizard.modules[i].id /\ q[x].text = wizard.modules[i].text
        BY <3>1, ItemAsked
      <3>3. s \in SaveSlot /\ x \in DOMAIN saves'[s] /\ saves'[s][x] = q[x]
        BY <1>4
      <3> QED
        BY <3>2, <3>3
    <2> QED
      BY <2>1, <2>3
  <1> HIDE DEF Later
  <1>18. StoredOrSent(wizard, kept)'
    <2>1. \A kind \in Kind : \A i \in DOMAIN wizard[kind] :
            \/ Later(kind, wizard[kind][i].id, wizard[kind][i].text)
            \/ /\ kind = "modules"
               /\ \E j \in DOMAIN wizard.lessons : wizard.lessons[j].id = wizard.modules[i].of /\ wizard.lessons[j].row = Absent
      BY <1>16, <1>17 DEF Kind
    <2> QED
      BY <1>9, <1>15, <2>1 DEF StoredOrSent, Pending, Later
  <1>19. Settled(wizard, kept)'
    BY <1>14, <1>18 DEF Settled
  <1> QED
    BY <1>1, <1>2, <1>6, <1>8, <1>12, <1>13, <1>19, InvMade

-----------------------------------------------------------------------------
(* The wizard at rest *)

LEMMA WizardStarts == WizardInit => WizardInv
  <1> SUFFICES ASSUME WizardInit PROVE WizardInv
    OBVIOUS
  <1> DEFINE t == CHOOSE w \in Word : TRUE
             c == [slug |-> t, title |-> t]
  <1>1. Listed(<<>>) /\ DOMAIN <<>> = {}
    BY DEF Listed
  <1>2. /\ IsWizard(wizard) /\ wizard.lessons = <<>> /\ wizard.modules = <<>>
        /\ wizard.course # Absent => wizard.course = 1 /\ kept.courses = <<c>>
    <2>1. InitialState = Fields("info", 0, Short, <<>>, <<>>, 1, FALSE)
      BY DEF InitialState, Fields, Absent
    <2>2. IsList(<<>>, 1)
      BY <1>1 DEF IsList
    <2>3. CASE wizard = InitialState
      <3>1. wizard = Fields("info", 0, Short, <<>>, <<>>, 1, FALSE)
        BY <2>1, <2>3
      <3>2. IsWizard(wizard)
        <4> DEFINE e == <<>>
                   step == "info"
                   saving == FALSE
        <4>1. \A i \in DOMAIN e : FALSE
          BY <1>1
        <4>2. IsList(e, 1) /\ wizard = Fields(step, 0, Short, e, e, 1, saving)
          BY <2>2, <3>1
        <4> HIDE DEF e, step, saving
        <4>3. IsWizard(Fields(step, 0, Short, e, e, 1, saving))
          BY <4>1, <4>2, WizardMade
        <4> QED
          BY <4>2, <4>3
      <3>3. wizard.lessons = <<>> /\ wizard.modules = <<>> /\ wizard.course = Absent
        BY <3>1 DEF Fields, Absent
      <3> QED
        BY <3>2, <3>3
    <2>4. CASE wizard = [InitialState EXCEPT !.course = 1, !.step = "lessons"] /\ kept.courses = <<c>>
      <3>1. wizard = Fields("lessons", 1, Short, <<>>, <<>>, 1, FALSE)
        BY <2>4 DEF InitialState, Fields
      <3>2. IsWizard(wizard)
        <4> DEFINE e == <<>>
                   step == "lessons"
                   saving == FALSE
        <4>1. \A i \in DOMAIN e : FALSE
          BY <1>1
        <4>2. IsList(e, 1) /\ wizard = Fields(step, 1, Short, e, e, 1, saving)
          BY <2>2, <3>1
        <4> HIDE DEF e, step, saving
        <4>3. IsWizard(Fields(step, 1, Short, e, e, 1, saving))
          BY <4>1, <4>2, WizardMade
        <4> QED
          BY <4>2, <4>3
      <3>3. wizard.lessons = <<>> /\ wizard.modules = <<>> /\ wizard.course = 1
        BY <3>1 DEF Fields
      <3> QED
        BY <2>4, <3>2, <3>3
    <2> DEFINE list == <<c>>
    <2>5. \/ wizard = InitialState
          \/ /\ wizard = [InitialState EXCEPT !.course = 1, !.step = "lessons"]
             /\ kept = [courses |-> list, lessons |-> <<>>, modules |-> <<>>]
      BY DEF WizardInit
    <2>6. kept = [courses |-> list, lessons |-> <<>>, modules |-> <<>>] => kept.courses = list
      <3> HIDE DEF list
      <3> QED
        OBVIOUS
    <2> QED
      BY <2>3, <2>4, <2>5, <2>6
  <1>3. IsKept(kept)
    <2>1. IsCourses(<<>>) /\ IsRows(<<>>)
      BY <1>1 DEF IsCourses, IsRows
    <2>2. IsCourses(<<c>>)
      <3>1. c = [slug |-> c.slug, title |-> c.title]
        OBVIOUS
      <3> HIDE DEF c
      <3>2. DOMAIN <<c>> = {1} /\ <<c>>[1] = c /\ <<c>> \in Seq({c}) /\ ToSet(<<c>>) = {c}
        BY DEF ToSet
      <3>3. Listed(<<c>>)
        BY <3>2 DEF Listed
      <3> DEFINE d == <<c>>
      <3>4. Listed(d) /\ DOMAIN d = {1} /\ d[1] = c
        BY <3>2, <3>3
      <3> HIDE DEF d
      <3>5. IsCourses(d)
        BY <3>1, <3>4 DEF IsCourses
      <3> QED
        BY <3>5 DEF d
    <2>3. CASE kept = [courses |-> <<>>, lessons |-> <<>>, modules |-> <<>>]
      BY <2>1, <2>3, KeptMade
    <2>4. CASE kept = [courses |-> <<c>>, lessons |-> <<>>, modules |-> <<>>]
      BY <2>1, <2>2, <2>4, KeptMade
    <2> QED
      BY <2>3, <2>4 DEF WizardInit
  <1>4. \A kind \in Kind : DOMAIN wizard[kind] = {}
    BY <1>1, <1>2 DEF Kind
  <1>5. RowsFit(wizard, kept)
    <2>1. wizard.course # Absent => wizard.course \in DOMAIN kept.courses
      BY <1>2
    <2> QED
      BY <1>1, <1>2, <1>4, <2>1 DEF RowsFit
  <1>6. Idle
    BY DEF WizardInit, Idle
  <1>7. TimersBound
    BY DEF WizardInit, TimersBound
  <1>8. SavesAimed(wizard, kept)
    BY <1>6, IdleAimed
  <1>9. Settled(wizard, kept)
    BY DEF WizardInit, Settled, Timer
  <1> QED
    BY <1>2, <1>3, <1>5, <1>7, <1>8, <1>9 DEF WizardInv

LEMMA WizardInvHolds == WizardInv /\ [WizardNext]_wizardVars => WizardInv'
  <1> SUFFICES ASSUME WizardInv, [WizardNext]_wizardVars PROVE WizardInv'
    OBVIOUS
  <1>1. ASSUME NEW t \in Timer, NEW s \in SaveSlot, Fire(t, s) PROVE WizardInv'
    BY <1>1, SaveStarted
  <1>2. ASSUME NEW s \in SaveSlot, Send(s) PROVE WizardInv'
    <2>1. CASE ~calm
      BY <1>2, <2>1 DEF Send, WizardInv
    <2>2. CASE calm /\ HasRow(Head(saves[s]))
      BY <1>2, <2>2, RowSent
    <2>3. CASE calm /\ ~HasRow(Head(saves[s]))
      BY <1>2, <2>3, RowCreated
    <2> QED
      BY <2>1, <2>2, <2>3
  <1>3. ASSUME NEW s \in SaveSlot, SendFails(s) PROVE WizardInv'
    BY <1>3, SaveFailed
  <1>4. ASSUME NEW s, SetStep(s) PROVE WizardInv'
    BY <1>4, StepSet
  <1>5. CASE NextStep
    BY <1>4, <1>5 DEF NextStep
  <1>6. CASE AddWizardLesson
    BY <1>6, LessonAdded
  <1>7. CASE HandleSave
    BY <1>7, SaveHandled
  <1>8. CASE PublishWizard
    BY <1>8, WizardPublished
  <1>9. ASSUME NEW t, SaveAndNext(t) PROVE WizardInv'
    BY <1>9, InfoSubmitted
  <1>10. ASSUME NEW i \in DOMAIN wizard.lessons, DropLesson(i) \/ AddModule(i) \/ \E t \in Titled : UpdateLesson(i, t)
         PROVE  WizardInv'
    BY <1>10, LessonDropped, ModuleAdded, LessonRenamed
  <1>11. ASSUME NEW i \in DOMAIN wizard.modules, RemoveModule(i) \/ \E t \in Titled : UpdateModule(i, t)
         PROVE  WizardInv'
    BY <1>11, ModuleRemoved, ModuleRenamed
  <1>12. CASE UNCHANGED wizardVars
    BY <1>12, WizardStays DEF wizardVars
  <1>13. CASE Autosave
    BY <1>1, <1>2, <1>3, <1>13 DEF Autosave
  <1>14. CASE Author
    BY <1>4, <1>5, <1>6, <1>7, <1>8, <1>9, <1>10, <1>11, <1>14 DEF Author
  <1> QED
    BY <1>12, <1>13, <1>14 DEF WizardNext

LEMMA RestSaves == WizardInv => SavedAtRest
  <1> SUFFICES ASSUME WizardInv, AtRest, calm, wizard.course # Absent,
                      \A l \in ToSet(wizard.lessons) : l.text # Short,
                      \A m \in ToSet(wizard.modules) : m.text # Short
               PROVE  /\ wizard.title # Short => kept.courses[wizard.course].title = wizard.title
                      /\ \A l \in ToSet(wizard.lessons) : Holds("lessons", l, wizard.course)
                      /\ \A m \in ToSet(wizard.modules) : Holds("modules", m, LessonOf(wizard, m).row)
    BY DEF SavedAtRest
  <1>1. /\ IsWizard(wizard) /\ IsKept(kept) /\ RowsFit(wizard, kept) /\ Settled(wizard, kept)
    BY DEF WizardInv
  <1>2. alarm["effect"] = Absent /\ \A s \in SaveSlot : saves[s] = <<>>
    BY DEF AtRest, Timer
  <1>3. ShortFree(wizard)
    BY DEF ShortFree, Kind, ToSet
  <1>4. StoredOrSent(wizard, kept)
    BY <1>1, <1>2, <1>3 DEF Settled
  <1>5. \A kind, id, text : ~Pending(kind, id, text)
    <2>1. DOMAIN <<>> = {}
      OBVIOUS
    <2> QED
      BY <1>2, <2>1 DEF Pending
  <1>6. /\ wizard.title # Short => kept.courses[wizard.course].title = wizard.title
        /\ \A kind \in Kind : \A i \in DOMAIN wizard[kind] :
            \/ wizard[kind][i].row # Absent /\ kept[kind][wizard[kind][i].row].text = wizard[kind][i].text
            \/ /\ kind = "modules"
               /\ \E j \in DOMAIN wizard.lessons : wizard.lessons[j].id = wizard.modules[i].of /\ wizard.lessons[j].row = Absent
    BY <1>4, <1>5 DEF StoredOrSent
  <1>7. \A i \in DOMAIN wizard.lessons :
          wizard.lessons[i].row # Absent /\ kept.lessons[wizard.lessons[i].row].text = wizard.lessons[i].text
    BY <1>6 DEF Kind
  <1>8. \A i \in DOMAIN wizard.modules :
          wizard.modules[i].row # Absent /\ kept.modules[wizard.modules[i].row].text = wizard.modules[i].text
    BY <1>6, <1>7 DEF Kind
  <1>9. \A kind \in Kind : \A n \in DOMAIN kept[kind] : kept[kind][n] = [parent |-> kept[kind][n].parent, text |-> kept[kind][n].text]
    BY <1>1 DEF IsKept, IsRows
  <1>10. ASSUME NEW l \in ToSet(wizard.lessons) PROVE Holds("lessons", l, wizard.course)
    <2>1. PICK i \in DOMAIN wizard.lessons : l = wizard.lessons[i]
      BY DEF ToSet
    <2>2. /\ l.row # Absent /\ kept.lessons[l.row].text = l.text /\ kept.lessons[l.row].parent = wizard.course
          /\ l.row \in DOMAIN kept.lessons
      BY <1>1, <1>7, <2>1 DEF RowsFit, Kind
    <2> QED
      BY <1>9, <2>2 DEF Holds, Kind
  <1>11. ASSUME NEW m \in ToSet(wizard.modules) PROVE Holds("modules", m, LessonOf(wizard, m).row)
    <2>1. PICK i \in DOMAIN wizard.modules : m = wizard.modules[i]
      BY DEF ToSet
    <2>2. PICK j \in DOMAIN wizard.lessons : wizard.lessons[j].id = m.of
      BY <1>1, <2>1 DEF IsWizard
    <2>3. LessonOf(wizard, m) = wizard.lessons[j]
      BY <1>1, <2>2, LessonIs
    <2>4. /\ m.row # Absent /\ kept.modules[m.row].text = m.text /\ m.row \in DOMAIN kept.modules
          /\ kept.modules[m.row].parent = wizard.lessons[j].row
      BY <1>1, <1>8, <2>1, <2>2 DEF RowsFit, Kind
    <2> QED
      BY <1>9, <2>3, <2>4 DEF Holds, Kind
  <1> QED
    BY <1>6, <1>10, <1>11

\* Once the wizard rests, what it shows is what the service has, unless two
\* saves overlapped, a request was lost, or a title is still too short
\* (auto-save.ts).
THEOREM WizardSavedAtRest == WizardSpec => []SavedAtRest
  <1>1. WizardInv /\ [WizardNext]_wizardVars => WizardInv'
    BY WizardInvHolds
  <1> QED
    BY WizardStarts, <1>1, RestSaves, PTL DEF WizardSpec

=============================================================================

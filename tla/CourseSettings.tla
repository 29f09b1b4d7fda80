--------------------------- MODULE CourseSettings ---------------------------
(***************************************************************************)
(* What the header of the course builder changes besides lessons.  Title   *)
(* and description are shown by the store, with its undo history, and sent *)
(* by a PATCH of their own; the save of the lessons does not send them, but *)
(* its answer replaces what is shown.  The dialog of the competencies lists *)
(* the active ones, marks those the course is linked to, and saves all the *)
(* marks; other tabs have the same dialog open.                            *)
(***************************************************************************)
EXTENDS Integers, Sequences, FiniteSets, SequencesExt

CONSTANTS
    Text,        \* what is typed; as a description, Blank is none
    Blank, Brief,\* no text, and one too short for a title
    Competency, CourseType, Unlinked,
    Tab,         \* tabs with the dialog; 1 is that of the header
    MaxPatches, MaxPuts, MaxActs

ASSUME SettingsAssumption ==
    /\ {Blank, Brief} \subseteq Text /\ Text \ {Blank, Brief} # {}
    /\ "foundation" \in CourseType /\ Unlinked \notin CourseType
    /\ Tab \subseteq Nat /\ 1 \in Tab
    /\ MaxPatches \in Nat /\ MaxPuts \in Nat /\ MaxActs \in Nat

VARIABLES
    rows,     \* the service: texts, competencies, links
    header,   \* the store and the header
    patches,  \* the PATCH requests on their way to the service
    panes,    \* the dialog of each tab
    puts,     \* the saves of the dialogs, in the order they were pressed
    acts      \* what was done so far

settingsVars == <<rows, header, patches, panes, puts, acts>>

Field == {"title", "description"}
Put == 1..MaxPuts
NoPut == [at |-> "none"]
Mark == CourseType \cup {Unlinked}
NoMarks == [c \in Competency |-> Unlinked]

Keyed(links) == {l.key : l \in links}
Linked(links) ==
    [c \in Competency |-> IF c \in Keyed(links) THEN (CHOOSE l \in links : l.key = c).type
                          ELSE Unlinked]
Marked(marks) == {c \in Competency : marks[c] # Unlinked}

ClosedPane == [at |-> "closed", list |-> {}, links |-> {}, unread |-> {}, marks |-> NoMarks,
               offered |-> {}, put |-> 0]

\* A link may be to a competency that is hidden.
SettingsInit ==
    /\ \E known \in SUBSET Competency : \E active \in SUBSET known, linked \in SUBSET known :
          rows = [texts |-> [f \in Field |-> CHOOSE t \in Text : t \notin {Blank, Brief}],
                  known |-> known, active |-> active,
                  links |-> {[key |-> c, type |-> "foundation", by |-> 0] : c \in linked}]
    /\ header = [shown |-> rows.texts, past |-> <<>>, future |-> <<>>, dirty |-> FALSE,
                 save |-> "no", reply |-> rows.texts, editing |-> {}, drawn |-> TRUE,
                 clean |-> TRUE, crossed |-> FALSE]
    /\ patches = {}
    /\ panes = [t \in Tab |-> ClosedPane]
    /\ puts = [n \in Put |-> NoPut]
    /\ acts = 0

Act == acts < MaxActs /\ acts' = acts + 1

-----------------------------------------------------------------------------
(* Title and description *)

EditText(f) ==
    /\ header.drawn /\ f \notin header.editing /\ acts < MaxActs
    /\ header' = [header EXCEPT !.editing = @ \cup {f}]
    /\ UNCHANGED <<rows, patches, panes, puts, acts>>

Accepted(f, t) == f = "title" => t \notin {Blank, Brief}

\* The copy it replaces goes to the undo history (updateCourseMeta, and the edits of lessons).
Touched(shown) ==
    [header EXCEPT !.shown = shown, !.past = Append(@, header.shown), !.future = <<>>, !.dirty = TRUE]

\* The draft may be of any text: what was shown when the field was opened, too.
SubmitText(f) ==
    /\ f \in header.editing /\ Act
    /\ \E t \in Text :
          IF Accepted(f, t) /\ t # header.shown[f]
          THEN \E n \in 1..MaxPatches :
                  /\ \A p \in patches : p.n # n
                  /\ patches' = patches \cup {[n |-> n, field |-> f, text |-> t]}
                  /\ header' = [Touched([header.shown EXCEPT ![f] = t])
                                  EXCEPT !.editing = @ \ {f}, !.clean = FALSE]
          ELSE header' = [header EXCEPT !.editing = @ \ {f}] /\ UNCHANGED patches
    /\ UNCHANGED <<rows, panes, puts>>

CancelText(f) ==
    /\ f \in header.editing
    /\ header' = [header EXCEPT !.editing = @ \ {f}]
    /\ UNCHANGED <<rows, patches, panes, puts, acts>>

\* Requests on connections of their own are handled in any order.  The service
\* takes a description of null for one that was not sent.
ServePatch(p) ==
    /\ patches' = patches \ {p}
    /\ rows' = IF p.text = Blank THEN rows ELSE [rows EXCEPT !.texts[p.field] = p.text]
    /\ UNCHANGED <<header, panes, puts, acts>>

\* It is refused or lost: a message, and what is shown stays.
PatchFails(p) ==
    /\ patches' = patches \ {p}
    /\ UNCHANGED <<rows, header, panes, puts, acts>>

EditLessons ==
    /\ header.drawn /\ Act
    /\ header' = Touched(header.shown)
    /\ UNCHANGED <<rows, patches, panes, puts>>

\* Slip: what was undone is not saved.
UndoQuietly ==
    /\ header.past # <<>> /\ Act
    /\ header' = [header EXCEPT !.shown = Last(header.past), !.past = Front(@),
                                !.future = <<header.shown>> \o @]
    /\ UNCHANGED <<rows, patches, panes, puts>>

\* By the buttons, or by the keys while an error takes the place of the builder.
UndoTexts ==
    /\ header.past # <<>> /\ Act
    /\ header' = [header EXCEPT !.shown = Last(header.past), !.past = Front(@),
                                !.future = <<header.shown>> \o @, !.dirty = TRUE]
    /\ UNCHANGED <<rows, patches, panes, puts>>

RedoTexts ==
    /\ header.future # <<>> /\ Act
    /\ header' = [header EXCEPT !.shown = Head(header.future), !.future = Tail(@),
                                !.past = Append(@, header.shown), !.dirty = TRUE]
    /\ UNCHANGED <<rows, patches, panes, puts>>

\* By the button or the timer when there are changes; by the key in any case.
SaveLessons ==
    /\ header.save = "no"
    /\ \/ header.dirty /\ UNCHANGED acts
       \/ Act
    /\ header' = [header EXCEPT !.save = "sent"]
    /\ UNCHANGED <<rows, patches, panes, puts>>

ServeLessons ==
    /\ header.save = "sent"
    /\ header' = [header EXCEPT !.save = "served", !.reply = rows.texts, !.clean = patches = {}]
    /\ UNCHANGED <<rows, patches, panes, puts, acts>>

LessonsSaved ==
    /\ header.save = "served"
    /\ header' = [header EXCEPT !.shown = header.reply, !.dirty = FALSE, !.save = "no",
                                !.crossed = ~header.clean]
    /\ UNCHANGED <<rows, patches, panes, puts, acts>>

\* The answers to the page that was left, or whose header went, close nothing.
Left == [n \in Put |-> IF puts[n].at # "none" /\ puts[n].tab = 1
                       THEN [puts[n] EXCEPT !.left = TRUE] ELSE puts[n]]

\* The error takes the place of the builder, with its header and its dialog.
LessonsFail ==
    /\ header.save # "no"
    /\ header' = [header EXCEPT !.save = "no", !.drawn = FALSE, !.editing = {}]
    /\ panes' = [panes EXCEPT ![1] = ClosedPane]
    /\ puts' = Left
    /\ UNCHANGED <<rows, patches, acts>>

\* The page is loaded by the browser: what was on its way may still be handled.
ReloadPage ==
    /\ Act
    /\ header' = [header EXCEPT !.shown = rows.texts, !.past = <<>>, !.future = <<>>,
                                !.dirty = FALSE, !.save = "no", !.editing = {}, !.drawn = TRUE,
                                !.crossed = patches # {}]
    /\ panes' = [panes EXCEPT ![1] = ClosedPane]
    /\ puts' = Left
    /\ UNCHANGED <<rows, patches>>

-----------------------------------------------------------------------------
(* The dialog of the competencies *)

OnPane(t, pane) == panes' = [panes EXCEPT ![t] = pane]
Rendered(t) == t = 1 => header.drawn

OpenPane(t) ==
    /\ panes[t].at = "closed" /\ Rendered(t) /\ Act
    /\ OnPane(t, [ClosedPane EXCEPT !.at = "loading", !.unread = {"list", "links"}])
    /\ UNCHANGED <<rows, header, patches, puts>>

\* The two reads of load, in either order.
ReadPane(t) ==
    /\ panes[t].at = "loading"
    /\ \E what \in panes[t].unread :
          OnPane(t, [panes[t] EXCEPT !.unread = @ \ {what},
                                     !.list = IF what = "list" THEN rows.active ELSE @,
                                     !.links = IF what = "links" THEN rows.links ELSE @])
    /\ UNCHANGED <<rows, header, patches, puts, acts>>

\* Slip: only what is listed is marked.
MarkedIfListed(pane) ==
    [c \in Competency |-> IF c \in pane.list THEN Linked(pane.links)[c] ELSE Unlinked]

\* Every link is marked, to a hidden competency too.
MarksOf(pane) == Linked(pane.links)

PaneLoaded(t) ==
    /\ panes[t].at = "loading" /\ panes[t].unread = {}
    /\ OnPane(t, [panes[t] EXCEPT !.at = "ready", !.marks = MarksOf(panes[t]), !.offered = @ \cup panes[t].list])
    /\ UNCHANGED <<rows, header, patches, puts, acts>>

\* The dialog lists and marks nothing but what was added to it meanwhile, and can be saved.
PaneUnread(t) ==
    /\ panes[t].at = "loading"
    /\ OnPane(t, [panes[t] EXCEPT !.at = "ready", !.links = {}, !.unread = {}, !.list = panes[t].offered])
    /\ UNCHANGED <<rows, header, patches, puts, acts>>

Toggle(t, c) ==
    /\ panes[t].at = "ready" /\ c \in panes[t].list /\ Act
    /\ OnPane(t, [panes[t] EXCEPT !.marks[c] = IF @ = Unlinked THEN "foundation" ELSE Unlinked])
    /\ UNCHANGED <<rows, header, patches, puts>>

UpdateCourseType(t, c) ==
    /\ panes[t].at = "ready" /\ c \in panes[t].list /\ panes[t].marks[c] # Unlinked /\ Act
    /\ \E y \in CourseType : OnPane(t, [panes[t] EXCEPT !.marks[c] = y])
    /\ UNCHANGED <<rows, header, patches, puts>>

\* Titles are unique, and keys new.  While the dialog loads, the load undoes it.
AddCompetency(t) ==
    /\ panes[t].at # "closed" /\ Act
    /\ \E c \in Competency \ rows.known :
          /\ rows' = [rows EXCEPT !.known = @ \cup {c}, !.active = @ \cup {c}]
          /\ OnPane(t, [panes[t] EXCEPT !.marks[c] = "foundation", !.offered = @ \cup {c},
                                        !.list = IF panes[t].at = "ready" THEN @ \cup {c} ELSE @])
    /\ UNCHANGED <<header, patches, puts>>

\* The links stay.  The answer may be lost.
HideCompetency(t, c) ==
    /\ panes[t].at = "ready" /\ c \in panes[t].list /\ panes[t].put = 0 /\ Act
    /\ rows' = [rows EXCEPT !.active = @ \ {c}]
    /\ \/ OnPane(t, [panes[t] EXCEPT !.list = @ \ {c}, !.marks[c] = Unlinked])
       \/ UNCHANGED panes
    /\ UNCHANGED <<header, patches, puts>>

ClosePane(t) ==
    /\ panes[t].at # "closed"
    /\ OnPane(t, ClosedPane)
    /\ UNCHANGED <<rows, header, patches, puts, acts>>

PressSave(t) ==
    /\ panes[t].at = "ready" /\ panes[t].put = 0
    /\ \E n \in Put :
          /\ puts[n].at = "none" /\ \A m \in 1..(n - 1) : puts[m].at # "none"
          /\ puts' = [puts EXCEPT ![n] =
                [at |-> "sent", tab |-> t, left |-> FALSE, marks |-> panes[t].marks, seen |-> {},
                 links |-> Keyed(panes[t].links), offered |-> panes[t].offered]]
          /\ OnPane(t, [panes[t] EXCEPT !.put = n])
    /\ UNCHANGED <<rows, header, patches, acts>>

\* replace_course_competencies checks the marks and lists the links it will delete ...
CheckPut(n) ==
    /\ puts[n].at = "sent"
    /\ puts' = [puts EXCEPT ![n].at = IF Marked(puts[n].marks) \subseteq rows.active THEN "checked"
                                      ELSE "refused",
                            ![n].seen = rows.links]
    /\ UNCHANGED <<rows, header, patches, panes, acts>>

\* ... and deletes those, no other: what another save put there meanwhile stays,
\* or is in the way.
WritePut(n) ==
    LET others == rows.links \ puts[n].seen
        new == {[key |-> c, type |-> puts[n].marks[c], by |-> n] : c \in Marked(puts[n].marks)}
    IN /\ puts[n].at = "checked"
       /\ IF Keyed(others) \cap Keyed(new) = {}
          THEN /\ rows' = [rows EXCEPT !.links = others \cup new]
               /\ puts' = [puts EXCEPT ![n].at = "written"]
          ELSE /\ puts' = [puts EXCEPT ![n].at = "refused"]
               /\ UNCHANGED rows
       /\ UNCHANGED <<header, patches, panes, acts>>

\* The answer closes the dialog that is open, be it another than the one that asked.
PutAnswered(n) ==
    /\ puts[n].at = "written"
    /\ puts' = [puts EXCEPT ![n].at = "over"]
    /\ IF puts[n].left THEN UNCHANGED panes ELSE OnPane(puts[n].tab, ClosedPane)
    /\ UNCHANGED <<rows, header, patches, acts>>

\* Refused, or lost on either way.
PutFails(n) ==
    /\ puts[n].at \in {"sent", "refused", "written"}
    /\ puts' = [puts EXCEPT ![n].at = "over"]
    /\ IF panes[puts[n].tab].put = n THEN OnPane(puts[n].tab, [panes[puts[n].tab] EXCEPT !.put = 0])
       ELSE UNCHANGED panes
    /\ UNCHANGED <<rows, header, patches, acts>>

-----------------------------------------------------------------------------
TextsNext ==
    \/ \E f \in Field : EditText(f) \/ SubmitText(f) \/ CancelText(f)
    \/ \E p \in patches : ServePatch(p) \/ PatchFails(p)
    \/ EditLessons \/ UndoTexts \/ RedoTexts \/ ServeLessons \/ LessonsSaved

PanesNext ==
    \/ \E t \in Tab :
          \/ OpenPane(t) \/ ReadPane(t) \/ PaneLoaded(t) \/ PaneUnread(t)
          \/ AddCompetency(t) \/ ClosePane(t) \/ PressSave(t)
          \/ \E c \in Competency : Toggle(t, c) \/ UpdateCourseType(t, c) \/ HideCompetency(t, c)
    \/ \E n \in Put : CheckPut(n) \/ WritePut(n) \/ PutAnswered(n) \/ PutFails(n)

\* What the two share: the page.
PageNext == SaveLessons \/ LessonsFail \/ ReloadPage

SettingsNext == TextsNext \/ PanesNext \/ PageNext

SettingsSpec == SettingsInit /\ [][SettingsNext]_settingsVars

-----------------------------------------------------------------------------
(* Properties *)

\* "Saved" in the header is true of the title and the description, although a
\* save does not send them and an undo sends nothing: whatever is undone, refused
\* or lost, a header without changes shows what is stored, unless the last save
\* that was answered overlapped a PATCH.
SavedTextsAreStored ==
    ~header.dirty /\ header.save = "no" /\ ~header.crossed /\ patches = {}
    => header.shown = rows.texts

\* A link that the dialog was told of and never listed, as that to a hidden
\* competency, survives its saves, whoever else changes competencies and links:
\* its mark is sent, and refused while the competency is hidden.
UnlistedLinkStays ==
    [][\A n \in Put : puts[n].at = "checked" /\ puts'[n].at = "written" =>
          (Keyed(rows.links) \cap puts[n].links) \ puts[n].offered \subseteq Keyed(rows'.links)]_settingsVars
=============================================================================

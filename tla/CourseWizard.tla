---------------------------- MODULE CourseWizard ----------------------------
(***************************************************************************)
(* The four-step wizard that makes a course: its store, its steps, and the *)
(* autosave that follows every change after a second and a half.  A save   *)
(* works on the store as it was when its timer fired, and sends one        *)
(* request after the other; nothing keeps two saves apart.                 *)
(***************************************************************************)
EXTENDS Naturals, FiniteSets, Sequences, SequencesExt

CONSTANTS
    Word,        \* titles that every check accepts
    Short,       \* a title the service refuses, such as that of a new lesson
    SaveSlot,    \* the saves that may be under way at once
    MaxLessons,  \* lessons, and modules, in the wizard
    MaxCourses,  \* courses made
    MaxChanges   \* what the author does

ASSUME WizardAssumption ==
    /\ Short \notin Word
    /\ MaxLessons \in Nat /\ MaxCourses \in Nat /\ MaxChanges \in Nat

VARIABLES
    wizard,   \* the store
    alarm,    \* the two debounce timers, and the course each will save
    saves,    \* of each save under way, the requests it has still to send
    kept,     \* what the service has: courses, lessons, modules
    calm,     \* no two saves overlapped and no request was lost so far
    changes   \* how often the author did something

wizardVars == <<wizard, alarm, saves, kept, calm, changes>>

Steps == <<"info", "lessons", "modules", "publish">>
Timer == {"effect", "button"}
Absent == 0
Course == 1..MaxCourses
Titled == Word \cup {Short}

InitialState ==
    [step |-> "info", course |-> Absent, title |-> Short,
     lessons |-> <<>>, modules |-> <<>>, nextId |-> 1, saving |-> FALSE]

\* The items at these places, in their order (filter).
Filtered(list, at) ==
    [k \in 1..Cardinality(at) |-> list[CHOOSE i \in at : Cardinality({j \in at : j <= i}) = k]]

StepIndex(s) == CHOOSE i \in 1..4 : Steps[i] = s

----------------------------------------------------------------------------
(* Every render of the steps makes a new debounceSave, on which the effect *)
(* depends: it starts the timer again, whatever the render was for.        *)
\* Slip: the effect looks at the number of items.
RerenderedByNumber(w) ==
    /\ wizard' = w
    /\ alarm' = [alarm EXCEPT !["effect"] =
          IF Len(w.lessons) = Len(wizard.lessons) /\ Len(w.modules) = Len(wizard.modules)
          THEN @ ELSE w.course]
Rerendered(w) ==
    /\ wizard' = w
    /\ alarm' = [alarm EXCEPT !["effect"] = IF w.course = Absent THEN @ ELSE w.course]

Change(w) ==
    /\ changes < MaxChanges /\ changes' = changes + 1
    /\ Rerendered(w)
    /\ UNCHANGED <<saves, kept, calm>>

SetStep(s) == s # wizard.step /\ Change([wizard EXCEPT !.step = s])

CanProceed == wizard.lessons # <<>> /\ \A i \in DOMAIN wizard.lessons : wizard.lessons[i].text # Short

\* The tabs lead anywhere; the lessons are left forwards once all have a title.
NextStep ==
    /\ wizard.step \in {"lessons", "modules"}
    /\ wizard.step = "lessons" => CanProceed
    /\ SetStep(Steps[StepIndex(wizard.step) + 1])

NewItem(of) == [id |-> wizard.nextId, row |-> Absent, of |-> of, text |-> Short]

AddWizardLesson ==
    /\ wizard.step = "lessons" /\ Len(wizard.lessons) < MaxLessons
    /\ Change([wizard EXCEPT !.lessons = Append(@, NewItem(Absent)), !.nextId = @ + 1])

UpdateLesson(i, t) ==
    /\ wizard.step = "lessons" /\ t # wizard.lessons[i].text
    /\ Change([wizard EXCEPT !.lessons[i].text = t])

\* The wizard forgets the lesson and its modules; the service is not told.
DropLesson(i) ==
    /\ wizard.step = "lessons"
    /\ Change([wizard EXCEPT !.lessons = RemoveAt(@, i),
                             !.modules = Filtered(@, {k \in DOMAIN @ : @[k].of # wizard.lessons[i].id})])

AddModule(i) ==
    /\ wizard.step = "modules" /\ Len(wizard.modules) < MaxLessons
    /\ Change([wizard EXCEPT !.modules = Append(@, NewItem(wizard.lessons[i].id)), !.nextId = @ + 1])

\* The title, or any part of the payload that the editor of its type offers.
UpdateModule(i, t) ==
    /\ wizard.step = "modules" /\ t # wizard.modules[i].text
    /\ Change([wizard EXCEPT !.modules[i].text = t])

RemoveModule(i) ==
    wizard.step = "modules" /\ Change([wizard EXCEPT !.modules = RemoveAt(@, i)])

\* The button is off while the store says that a save is under way.
HandleSave ==
    /\ wizard.step = "modules" /\ ~wizard.saving /\ changes < MaxChanges
    /\ alarm' = [alarm EXCEPT !["button"] = wizard.course]
    /\ changes' = changes + 1
    /\ UNCHANGED <<wizard, saves, kept, calm>>

----------------------------------------------------------------------------
(* The first step: it creates the course, or renames it.                   *)
SlugTaken(t) == \E c \in DOMAIN kept.courses : kept.courses[c].slug = t

\* The save it asks for was bound to the course the step was drawn with.
InfoSaved(course, t) ==
    /\ wizard' = [wizard EXCEPT !.course = course, !.title = t, !.step = "lessons", !.saving = FALSE]
    /\ alarm' = [effect |-> course, button |-> wizard.course]

InfoRefused(t) == Rerendered([wizard EXCEPT !.title = t, !.saving = FALSE])

Stored(t) ==
    IF wizard.course = Absent
    THEN [kept EXCEPT !.courses = Append(@, [slug |-> t, title |-> t])]
    ELSE [kept EXCEPT !.courses[wizard.course].title = t]

SaveAndNext(t) ==
    /\ wizard.step = "info" /\ changes < MaxChanges /\ changes' = changes + 1
    /\ UNCHANGED saves
    /\ IF wizard.course = Absent /\ SlugTaken(t)
       THEN InfoRefused(t) /\ UNCHANGED <<kept, calm>>
       ELSE /\ wizard.course = Absent => Len(kept.courses) < MaxCourses
            /\ \/ /\ kept' = Stored(t)
                  /\ InfoSaved(IF wizard.course = Absent THEN Len(kept'.courses) ELSE wizard.course, t)
                  /\ UNCHANGED calm
               \/ InfoRefused(t) /\ kept' \in {kept, Stored(t)} /\ calm' = FALSE

----------------------------------------------------------------------------
(* The autosave.                                                           *)
LessonOf(w, m) == CHOOSE l \in ToSet(w.lessons) : l.id = m.of

\* A module is sent once its lesson has a row in the copy that the save works on.
Rooted(w) ==
    Filtered(w.modules, {k \in DOMAIN w.modules : LessonOf(w, w.modules[k]).row # Absent})

Asked(kind, items, parents) ==
    [i \in DOMAIN items |->
        [kind |-> kind, id |-> items[i].id, row |-> items[i].row,
         parent |-> parents[i], text |-> items[i].text]]

Requests(w, course) ==
    (IF w.title = Short THEN <<>>
     ELSE <<[kind |-> "course", id |-> Absent, row |-> course, parent |-> Absent, text |-> w.title]>>)
    \o Asked("lessons", w.lessons, [i \in DOMAIN w.lessons |-> course])
    \o Asked("modules", Rooted(w), [i \in DOMAIN Rooted(w) |-> LessonOf(w, Rooted(w)[i]).row])

AtRest == \A t \in Timer : alarm[t] = Absent /\ \A s \in SaveSlot : saves[s] = <<>>

Fire(t, s) ==
    /\ alarm[t] # Absent /\ saves[s] = <<>>
    /\ alarm' = [alarm EXCEPT ![t] = Absent]
    /\ saves' = [saves EXCEPT ![s] = Requests(wizard, alarm[t])]
    /\ wizard' = [wizard EXCEPT !.saving = saves'[s] # <<>>]
    /\ calm' = (calm /\ \A other \in SaveSlot : saves[other] = <<>>)
    /\ UNCHANGED <<kept, changes>>

HasRow(r) == r.kind = "course" \/ r.row # Absent

Written(r) ==
    CASE r.kind = "course" -> [kept EXCEPT !.courses[r.row].title = r.text]
      [] r.kind # "course" /\ HasRow(r) -> [kept EXCEPT ![r.kind][r.row].text = r.text]
      [] OTHER -> [kept EXCEPT ![r.kind] = Append(@, [parent |-> r.parent, text |-> r.text])]

\* The item of that number gets the row, if it is still there.
Bound(w, r) ==
    [w EXCEPT ![r.kind] = [i \in DOMAIN @ |->
        IF @[i].id = r.id THEN [@[i] EXCEPT !.row = Len(kept'[r.kind])] ELSE @[i]]]

Done(s, w) == [w EXCEPT !.saving = @ /\ Len(saves[s]) > 1]

\* Slip: the steps are drawn again after every request.
SendDrawn(s) ==
    /\ saves[s] # <<>> /\ Head(saves[s]).text # Short
    /\ LET r == Head(saves[s]) IN
        /\ kept' = Written(r)
        /\ Rerendered(Done(s, IF HasRow(r) THEN wizard ELSE Bound(wizard, r)))
    /\ saves' = [saves EXCEPT ![s] = Tail(@)]
    /\ UNCHANGED <<calm, changes>>

Send(s) ==
    /\ saves[s] # <<>> /\ Head(saves[s]).text # Short
    /\ LET r == Head(saves[s]) IN
        /\ kept' = Written(r)
        /\ IF HasRow(r) THEN wizard' = Done(s, wizard) /\ UNCHANGED alarm
                       ELSE Rerendered(Done(s, Bound(wizard, r)))
    /\ saves' = [saves EXCEPT ![s] = Tail(@)]
    /\ UNCHANGED <<calm, changes>>

\* The service refuses a short title; a request or its answer may get lost.
SendFails(s) ==
    /\ saves[s] # <<>>
    /\ LET r == Head(saves[s]) IN
        \/ r.text = Short /\ UNCHANGED <<kept, calm>>
        \/ /\ r.text # Short /\ calm
           /\ kept' \in {kept, Written(r)} /\ calm' = FALSE
    /\ saves' = [saves EXCEPT ![s] = <<>>]
    /\ wizard' = [wizard EXCEPT !.saving = FALSE]
    /\ UNCHANGED <<alarm, changes>>

\* Publishing empties the store, the numbers of its items included; timers
\* and saves go on.
PublishWizard ==
    /\ wizard.step = "publish" /\ wizard.course # Absent
    /\ changes < MaxChanges /\ changes' = changes + 1
    /\ wizard' = InitialState
    /\ calm' = (calm /\ AtRest)
    /\ UNCHANGED <<alarm, saves, kept>>

----------------------------------------------------------------------------
\* The wizard is opened for a new course, or for one that has no lessons yet.
WizardInit ==
    /\ \/ wizard = InitialState /\ kept = [courses |-> <<>>, lessons |-> <<>>, modules |-> <<>>]
       \/ /\ wizard = [InitialState EXCEPT !.course = 1, !.step = "lessons"]
          /\ LET t == CHOOSE w \in Word : TRUE
             IN  kept = [courses |-> <<[slug |-> t, title |-> t]>>, lessons |-> <<>>, modules |-> <<>>]
    /\ alarm = [t \in Timer |-> IF t = "effect" THEN wizard.course ELSE Absent]
    /\ saves = [s \in SaveSlot |-> <<>>]
    /\ calm = TRUE /\ changes = 0

Autosave ==
    \/ \E t \in Timer, s \in SaveSlot : Fire(t, s)
    \/ \E s \in SaveSlot : Send(s) \/ SendFails(s)

Author ==
    \/ \E s \in ToSet(Steps) : SetStep(s)
    \/ NextStep \/ AddWizardLesson \/ HandleSave \/ PublishWizard
    \/ \E t \in Word : SaveAndNext(t)
    \/ \E i \in DOMAIN wizard.lessons :
          DropLesson(i) \/ AddModule(i) \/ \E t \in Titled : UpdateLesson(i, t)
    \/ \E i \in DOMAIN wizard.modules :
          RemoveModule(i) \/ \E t \in Titled : UpdateModule(i, t)

WizardNext == Autosave \/ Author

WizardSpec == WizardInit /\ [][WizardNext]_wizardVars /\ WF_wizardVars(Autosave)

----------------------------------------------------------------------------
WizardTypeOK ==
    /\ wizard.step \in ToSet(Steps) /\ wizard.course \in Course \cup {Absent}
    /\ wizard.title \in Titled /\ wizard.saving \in BOOLEAN
    /\ \A i \in DOMAIN wizard.lessons : wizard.lessons[i].text \in Titled
    /\ alarm \in [Timer -> Course \cup {Absent}]
    /\ calm \in BOOLEAN /\ changes \in 0..MaxChanges

\* Whatever the author did and however the changes fell between the saves,
\* once the wizard rests, what it shows is what the service has, unless two
\* saves overlapped, a request was lost, or a title is still too short: the
\* debounced save of the effect makes up for what a running save missed
\* (auto-save.ts).
Holds(kind, item, parent) ==
    item.row # Absent /\ kept[kind][item.row] = [parent |-> parent, text |-> item.text]

SavedAtRest ==
    AtRest /\ calm /\ wizard.course # Absent
    /\ (\A l \in ToSet(wizard.lessons) : l.text # Short)
    /\ (\A m \in ToSet(wizard.modules) : m.text # Short) =>
        /\ wizard.title # Short => kept.courses[wizard.course].title = wizard.title
        /\ \A l \in ToSet(wizard.lessons) : Holds("lessons", l, wizard.course)
        /\ \A m \in ToSet(wizard.modules) : Holds("modules", m, LessonOf(wizard, m).row)

\* The saves that saves ask for come to an end: when the author stops, so
\* does the wizard (useAutoSaveEffect runs on every render).
AutosaveSettles == []<>AtRest

=============================================================================

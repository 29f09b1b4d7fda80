---------------------------- MODULE MCAuthoring -----------------------------
(***************************************************************************)
(* The ways to author a course in the web admin: the builder with its      *)
(* lessons and the tasks of a lesson, the dialog that submits what it      *)
(* saved, the header with the texts and the dialog of the competencies,    *)
(* and the wizard.  A behaviour is about one of them, its focus, while the *)
(* others stay at an initial state.                                        *)
(***************************************************************************)
EXTENDS CourseEditor, CourseWizard, CourseSubmission, CourseSettings, LessonTasks

CONSTANTS e1, w1, w2, fine, lacking, refused, c1, c2

VARIABLE focus

authoringVars == <<focus, vars, wizardVars, submissionVars, settingsVars, tasksVars>>

AuthoringInit ==
    /\ focus \in {"builder", "wizard", "submission", "texts", "competencies", "tasks"}
    /\ Init /\ (focus = "builder" \/ row = [i \in LessonId |-> NoRow])
    /\ WizardInit /\ (focus = "wizard" \/ wizard = InitialState)
    /\ SubmissionInit /\ (focus = "submission" \/ onServer = fine)
    /\ SettingsInit /\ rows.known = (IF focus = "competencies" THEN {c1} ELSE {})
    /\ TasksInit /\ (focus = "tasks" \/ Rows(taskRow) = {})

Builder(step) ==
    /\ focus = "builder" /\ step
    /\ UNCHANGED <<focus, wizardVars, submissionVars, settingsVars, tasksVars>>
Wizard(step) ==
    /\ focus = "wizard" /\ step
    /\ UNCHANGED <<focus, vars, submissionVars, settingsVars, tasksVars>>
Submission(step) ==
    /\ focus = "submission" /\ step
    /\ UNCHANGED <<focus, vars, wizardVars, settingsVars, tasksVars>>
Settings(step) ==
    step /\ UNCHANGED <<focus, vars, wizardVars, submissionVars, tasksVars>>
Tasks(step) ==
    /\ focus = "tasks" /\ step
    /\ UNCHANGED <<focus, vars, wizardVars, submissionVars, settingsVars>>

AuthoringNext ==
    \/ Builder(Next) \/ Wizard(WizardNext) \/ Submission(SubmissionNext)
    \/ focus = "texts" /\ Settings(TextsNext \/ PageNext)
    \/ focus = "competencies" /\ Settings(PanesNext \/ PageNext)
    \/ Tasks(TasksNext)

\* The timers fire once the author pauses, and a fetch is settled one way or
\* the other.  Nothing is assumed of the service.
AuthoringSpec ==
    /\ AuthoringInit /\ [][AuthoringNext]_authoringVars
    /\ \A e \in Editor :
          /\ WF_authoringVars(Builder(Save(e)))
          /\ WF_authoringVars(Builder(Saved(e) \/ SaveFailed(e)))
    /\ WF_authoringVars(Wizard(Autosave))
=============================================================================

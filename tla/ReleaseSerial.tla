--------------------------- MODULE ReleaseSerial ----------------------------
(***************************************************************************)
(* ReleaseLifecycle with requests that do not overlap (a single Client)    *)
(* implements ReleaseWorkflow.                                             *)
(***************************************************************************)
EXTENDS ReleaseLifecycle

statusBar == [v \in Version |-> IF Exists(v) THEN release[v].status ELSE "none"]

Workflow == INSTANCE ReleaseWorkflow WITH
    status <- statusBar,
    closed <- (course = "deleted")

\* Every request moves a release along the status graph of the workflow, or
\* leaves it where it is: the checks of the moderation and catalog services
\* are enough when no other request runs between a check and its commit.
ImplementsWorkflow == Workflow!WFSpec
=============================================================================

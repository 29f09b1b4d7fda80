------------------------------- MODULE MCTasks -------------------------------
(***************************************************************************)
(* The tasks of one lesson alone, with room for two of them, a copy and a  *)
(* new one.                                                                *)
(***************************************************************************)
EXTENDS LessonTasks

\* Keys tell only by their order: the room is four of them.
MCKeys == 1..4
=============================================================================

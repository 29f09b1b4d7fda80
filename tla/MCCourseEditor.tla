-------------------------- MODULE MCCourseEditor ----------------------------
EXTENDS CourseEditor

CONSTANTS e1
=============================================================================

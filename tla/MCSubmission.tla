---------------------------- MODULE MCSubmission ----------------------------
EXTENDS CourseSubmission
CONSTANTS fine, lacking, refused
=============================================================================

------------------------------- MODULE MCAuth -------------------------------
EXTENDS AuthSessions

CONSTANTS c1, c2, rival
=============================================================================

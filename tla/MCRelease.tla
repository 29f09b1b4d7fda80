----------------------------- MODULE MCRelease ------------------------------
EXTENDS ReleaseSerial

CONSTANTS v1, v2, c1, c2

\* Versions and handlers are interchangeable.
Symmetry == Permutations({v1, v2}) \cup Permutations({c1, c2})
=============================================================================

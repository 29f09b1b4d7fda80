---- MODULE MCGroups ----
EXTENDS GroupsWorkspace
====

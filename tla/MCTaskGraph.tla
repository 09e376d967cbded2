---- MODULE MCTaskGraph ----
EXTENDS TaskGraph
====

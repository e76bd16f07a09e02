---------------------------- MODULE MCTaskManager ----------------------------
(* Instantiates TaskManager for TLC: task objects are model values, and     *)
(* get_name() is a fixed function chosen per run.                           *)
EXTENDS TaskManager

CONSTANTS t1, t2, t3

\* Two tasks with distinct names.
DistinctNames == [t \in {t1, t2} |-> IF t = t1 THEN "A" ELSE "B"]

\* A third task object that shares t1's name.
SharedName == [t \in {t1, t2, t3} |-> IF t = t2 THEN "B" ELSE "A"]

=============================================================================

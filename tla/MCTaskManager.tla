--------------------------- MODULE MCTaskManager ---------------------------
(* A small instance of TaskManager: a check of all hosts is started twice, *)
(* and one of the two hosts is deleted in between.                         *)
EXTENDS TaskManager

CONSTANT check

TwoHostsThenOne == <<2, 1>>

=============================================================================

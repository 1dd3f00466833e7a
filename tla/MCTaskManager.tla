---------------------------- MODULE MCTaskManager ----------------------------
(* A small instance of TaskManager for TLC. *)
EXTENDS TaskManager

(* Each task is the sub-task of the one before it; every task on its own. *)
MCChain == [t \in Tasks |-> t - 1]
MCAlone == [t \in Tasks |-> 0]
=============================================================================

---------------------------- MODULE MCWorkerTasks ----------------------------
(* A small instance of WorkerTasks: two tasks, one tool of each kind. *)
EXTENDS WorkerTasks

CONSTANTS t1, t2, read, write

TwoTasks == {t1, t2}
OneRead == {read}
OneWrite == {write}
AllOrReads == {Registry, ReadTools}
=============================================================================

---------------------------- MODULE MCTaskQueue ----------------------------
(* Small instances of TaskQueue for TLC. *)
EXTENDS TaskQueue, TLC

CONSTANTS t1, t2, c1, c2, p1, p2

MCTasks == {t1, t2}
MCConsumers == {c1, c2}
MCProcesses == {p1, p2}
MCHost == c1 :> p1 @@ c2 :> p2
MCBackoff == <<1>>
=============================================================================

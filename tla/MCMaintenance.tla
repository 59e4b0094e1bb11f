----------------------------- MODULE MCMaintenance -----------------------------
(* Maintenance with three threads and one tool, for TLC. *)
EXTENDS Maintenance

CONSTANTS t1, t2, t3, sync

ThreeThreads == {t1, t2, t3}
OneTool      == {sync}
Partial      == {1}

===============================================================================

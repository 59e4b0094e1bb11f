---------------------------- MODULE MCModuleRuntime ----------------------------
(* ModuleRuntime with two toggles, requests and workers, for TLC. *)
EXTENDS ModuleRuntime

CONSTANTS t1, t2, r1, r2, w1, w2

TwoToggles  == {t1, t2}
TwoRequests == {r1, r2}
TwoWorkers  == {w1, w2}

===============================================================================

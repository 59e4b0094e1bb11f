---------------------------- MODULE MCDatabaseGate ----------------------------
(* DatabaseGate with a request and two backup threads, for TLC.  A backup      *)
(* thread outside its window is a request as well.                             *)
EXTENDS DatabaseGate

CONSTANTS r1, w1, w2

AllThreads == {r1, w1, w2}
TwoWriters == {w1, w2}

===============================================================================

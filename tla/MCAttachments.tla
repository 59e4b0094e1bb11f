---------------------------- MODULE MCAttachments ----------------------------
(* Attachments with two requests at a time, for TLC. *)
EXTENDS Attachments, TLC

CONSTANTS t1, t2, home, folder, file, dir

TwoThreads == {t1, t2}
TwoSubjects == {file, dir}
OneName == {"jpg"}
OneDigest == [n \in OneName |-> "md5"]
OneFolder == {folder}
MCSymmetry == Permutations(TwoThreads) \cup Permutations(TwoSubjects)
===============================================================================

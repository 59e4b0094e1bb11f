-------------------------- MODULE MCAutomaticBackups --------------------------
(* AutomaticBackups with four bundles, two locations and retentions 1 and 2.   *)
EXTENDS AutomaticBackups

CONSTANTS d1, d2

TwoDirectories == {d1, d2}
SmallRetentions == {1, 2}

===============================================================================

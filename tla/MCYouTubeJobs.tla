----------------------------- MODULE MCYouTubeJobs -----------------------------
(* YouTubeJobs with three jobs, for TLC. *)
EXTENDS YouTubeJobs

CONSTANTS j1, j2, j3, u1

ThreeJobs == {j1, j2, j3}
OneUser   == {u1}
\* j1 and j2 ask for the same video.
Duplicates == {<<j1, j2>>, <<j2, j1>>}

===============================================================================

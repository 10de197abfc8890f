---------------------------- MODULE MCPatchFetch -----------------------------
(* A finite instance of PatchFetch.                                          *)
EXTENDS PatchFetch

CONSTANTS f1, f2, f3, f4, f5

\* From no file to two full pages.
PullRequests == {SubSeq(<<f1, f2, f3, f4>>, 1, n) : n \in 0 .. 4}
=============================================================================

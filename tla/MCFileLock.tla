----------------------------- MODULE MCFileLock -----------------------------
(* Three takers: one steady, one that may crash, fail or be stopped, one   *)
(* in a hurry.                                                             *)
EXTENDS FileLock

CONSTANTS steady, frail, hasty
Procs == {steady, frail, hasty}
=============================================================================

--------------------------- MODULE WindowsClaims ---------------------------
(***************************************************************************)
(* What the documentation and a comment say of the Windows display lease   *)
(* and the code does not do.                                               *)
(***************************************************************************)
EXTENDS WindowsLease

\* "Final cleanup restores that step before disabling the VDD"
\* (docs/WINDOWS_DISPLAY_SERVICE.md:109): after a lease in which nothing failed
\* the user's own step is back.
CleanupRestoresStep == guard = NoGuard /\ ~device /\ ~disturbed => step = Preference

\* "Holding the lease mutex proves no lease is active"
\* (host/windows/display-recovery.cpp:384): nobody else changes the display.
MutexProvesIdle == guard # NoGuard => \A w \in workers : w.lease = guard.lease
=============================================================================

--------------------------- MODULE DisplayClaims ---------------------------
(***************************************************************************)
(* What the documentation and comments say of the shared display and the   *)
(* code does not keep.  Each is refuted by one run.                        *)
(***************************************************************************)
EXTENDS HostDisplay

\* "late helper acknowledgments cannot complete newer requests", and a queued
\* controller is started when the restoration ahead of it ends
\* (hostmanager.cpp:142): a queued request is started or refused.
QueuedIsStarted ==
    \A l \in Links : (displayLink = l /\ linkSequence[l] # 0) ~>
                        (displayLink # l \/ linkSequence[l] = 0)

\* "Restore promptly on actual disconnect" (hostmanager-display.cpp:180).
RestoredOnDisconnect ==
    (displayLink = NoLink /\ hostState = "up") ~>
        (workspace = Physical \/ displayLink # NoLink \/ hostState # "up")

\* Binding a second client while the first has an active stream must preserve
\* that stream (docs/SESSION_TAKEOVER.md:49): a running host drops no controller
\* because of a trust update.
BindingKeepsController ==
    [][ \A l \in Links : (link[l] = "open" /\ link'[l] = "dropped") => hostState # "up" ]_vars
=============================================================================

---------------------------- MODULE ViewerClaims ----------------------------
(***************************************************************************)
(* What the documentation says of the continuity of a viewer and its code  *)
(* does not do.  Each is checked by a run of its own, which refutes it.    *)
(***************************************************************************)
EXTENDS MCViewerContinuity

\* "Close/Escape cancels the continuation" (docs/ROADMAP.md:3562).  The key only
\* sets the cancelled() of the retained window.  When the admission of a recovery
\* fails afterwards, initializeAdaptiveDisplay schedules the next attempt without
\* reading it, and execInternal disposes of the window and with it of the key
\* (session-adaptive.cpp:286, session.cpp:2047).
EscapeIsFinal ==
    [][session.stage = "admit" /\ session.escaped /\ session'.stage = "stopping"
        => ~adaptiveRestartPending(session')]_vars

\* "Admission loss, intentional disconnect, revocation and takeover are terminal"
\* (docs/SESSION_LIFECYCLE.md:33).  A takeover that the controller learns of after
\* a recovery was scheduled, and before the next Session is made, only makes
\* continuationSession forget this controller: the chain goes on with a new one
\* (session-continuity.cpp:60, :98).
TakeoverIsTerminal ==
    [][session.stage = "stopping" /\ session.retry /\ control.takenOver
        => session'.stage # "delay"]_vars
=============================================================================

---------------------------- MODULE SessionClaims ----------------------------
(* What the documents, comments and tests of the repository say of session *)
(* admission and the code does not do.  Each property is refuted by one    *)
(* run; the README tells the behaviour TLC finds.                          *)
EXTENDS SessionAdmission

\* docs/SESSION_LIFECYCLE.md: "Recoverable desktop transport loss retains host
\* ownership for 15 seconds."  The session of a device that negotiated recovery
\* is one that transportLost keeps.
SessionIsRecoverable ==
    (sessionLink # NoLink /\ Owner[sessionLink] \in LifecycleClients) => sessionLink \in lifecycle

\* peermanager.cpp:90: "a retry must acquire the idle replacement normally, never
\* inherit a stale lease": a link is admitted by the host process that granted
\* its lease.
AdmittedByGrantingHost ==
    [][ (sessionLink = NoLink /\ sessionLink' # NoLink) => op.run = hostRun ]_vars

\* peermanager-session.cpp:196: "Do not hand a new client the clipboard while the
\* previous delayed-rendering process can still write": a session is admitted
\* only when no other device's helper runs.
AdmittedAfterHelpers ==
    [][ (sessionLink = NoLink /\ sessionLink' # NoLink) =>
            \A k \in helpers : Owner[k] = Owner[sessionLink'] ]_vars

\* docs/CLIPBOARD.md: "host stop, access removal and disconnect revoke its
\* channel": no helper serves a device whose access has been removed.
RemovedDeviceSharesNothing ==
    clipboardLink \in helpers => Owner[clipboardLink] \in granted

\* docs/SESSION_TAKEOVER.md: "Explicit revocation retains its existing restart
\* behavior": a removed device is left with no running stream.
RemovedDeviceStreamsNothing ==
    \A s \in streams : s.client \in granted \cup trusted

\* peermanager.cpp:581: links that own a session "have owner pointers and lease
\* cleanup that must go through fail()": an owner pointer refers to a live link.
OwnersEndThroughFail == \A k \in Holders : Alive(k)
=============================================================================

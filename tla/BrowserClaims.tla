--------------------------- MODULE BrowserClaims ---------------------------
(***************************************************************************)
(* What comments say of browser sessions and the code does not keep.       *)
(***************************************************************************)
EXTENDS BrowserHost

\* "The browser supervisor ends it and restores the display first"
\* (peermanager-session.cpp:117): a native takeover of a browser session ends.
TakeoverEnds == takeover ~> ~takeover

\* "Never restore their display" (browserhost.cpp:340): the end of a browser
\* session asks for the physical layout only while no viewer holds the host.
NeverRestoresTheirDisplay ==
    [][ (browser.phase = "stop" /\ browser'.phase = "settle") => holder # Viewers ]_sharedVars

\* "Ends the browser session, display restoration included, so a native client
\* can take over" (browserhost.h:48), when the helper does what it is asked.
TakeoverRestoresDisplay ==
    [][ (takeover /\ ~takeover' /\ browser.phase = "release" /\ hostState = "up") =>
            workspace # Browser ]_sharedVars
=============================================================================

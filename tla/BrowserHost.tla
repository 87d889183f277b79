---------------------------- MODULE BrowserHost ----------------------------
(***************************************************************************)
(* A browser session (app/backend/browserhost.cpp) on the display that it  *)
(* shares with native viewers, with the reservation that the host keeps    *)
(* for it (host/browser/browser.cpp).                                      *)
(*                                                                         *)
(* browser.phase is what the nested callbacks wait for; m_Id,              *)
(* m_Operation and m_Ending follow from it.  A callback of an earlier      *)
(* m_Epoch does nothing, so only those of the current one are kept.  A     *)
(* viewer is only seen here as the holder of the host and by what it does  *)
(* to the display (HostDisplay).                                           *)
(***************************************************************************)
EXTENDS HostDisplay

CONSTANTS
    Browser,            \* the owner of a browser's workspace
    MaxSessions,        \* bound: browser sessions
    MaxBrowserResizes,  \* bound: display requests of browsers
    MaxLost,            \* bound: management requests that are lost
    LostReplies         \* the actions whose requests or replies may be lost

ASSUME BrowserConstants ==
    /\ Browser \notin Links \cup {NoLink, Physical, Disturbed}
    /\ MaxSessions \in Nat /\ MaxBrowserResizes \in Nat /\ MaxLost \in Nat
    /\ LostReplies \subseteq {"reserve", "start", "stop", "release"}

VARIABLES
    browser,        \* BrowserHost: its phase and its flags
    takeover,       \* a native takeover waits for the end of the session
    late,           \* requests given up on that the host may still serve
    lost,           \* number of requests and replies lost
    holder,         \* who holds the host: Nobody, Viewers or a session
    media           \* the holding session: reserved, running or stopped

browserVars == <<browser, takeover, late, lost, holder, media>>
sharedVars  == <<vars, browserVars>>

Nobody   == 0
Viewers  == -1
Sessions == 1..MaxSessions

Operating == {"reserve", "resize", "start"}        \* m_Operation
Ending    == {"stop", "settle", "release"}         \* m_Ending
Calling   == {"reserve", "start", "stop", "release"}

\* A session that nobody has asked anything of: id counts the sessions, number
\* the display requests (m_Sequence), awaited is the one a callback waits for,
\* live a live resize (m_Resizing) and waits a newer one behind it (m_Resize).
Idle(id, number) ==
    [phase |-> "idle", id |-> id, cancelled |-> FALSE, owned |-> FALSE,
     number |-> number, awaited |-> 0, live |-> "none", waits |-> FALSE, reply |-> "none"]

BrowserTypeOK ==
    /\ browser \in [phase : {"idle", "active", "retry", "wait"} \cup Operating \cup Ending,
                    id : 0..MaxSessions, cancelled : BOOLEAN, owned : BOOLEAN,
                    number : 0..MaxBrowserResizes,
                    awaited : {0} \cup MaxResizes + 1..MaxResizes + MaxBrowserResizes,
                    live : {"none", "display", "media", "stale"}, waits : BOOLEAN,
                    reply : {"none", "ok", "refused", "gone", "unavailable"}]
    /\ takeover \in BOOLEAN
    /\ late \subseteq Calling \X Sessions
    /\ lost \in 0..MaxLost
    /\ holder \in {Nobody, Viewers} \cup Sessions
    /\ media \in {"none", "reserved", "running", "stopped"}

SharedInit ==
    /\ Init
    /\ browser = Idle(0, 0) /\ takeover = FALSE
    /\ late = {} /\ lost = 0
    /\ holder = Nobody /\ media = "none"

-----------------------------------------------------------------------------
(* The host's side: request() and the watchdog of browser.cpp              *)

Hosted == holder \in Sessions

\* Mutant: a stopped session may be started.
StartableAgain == media \in {"reserved", "stopped"}

Startable == media = "reserved"

\* Serves a request of session s; `answer' is what the reply will say.
Serve(action, s, answer) ==
    \/ /\ action = "reserve" /\ holder \notin {Nobody, s}
       /\ answer = "refused" /\ UNCHANGED <<holder, media>>
    \/ /\ action = "reserve" /\ holder \in {Nobody, s}
       /\ answer = "ok"
       /\ holder' = s /\ media' = IF holder = s THEN media ELSE "reserved"
    \/ /\ action = "start" /\ holder = s
       /\ \/ Startable /\ answer = "ok" /\ media' = "running"
          \/ Startable /\ answer = "refused" /\ media' = "stopped"
          \/ ~Startable /\ answer = "refused" /\ UNCHANGED media
       /\ UNCHANGED holder
    \/ /\ action # "reserve" /\ holder # s
       /\ answer = IF Hosted \/ action = "start" THEN "gone" ELSE "ok"
       /\ UNCHANGED <<holder, media>>
    \/ /\ action = "stop" /\ holder = s
       /\ answer = "ok" /\ media' = "stopped" /\ UNCHANGED holder
    \/ /\ action = "release" /\ holder = s
       /\ answer = "ok" /\ media' = "none" /\ holder' = Nobody

HostServes ==
    /\ hostState # "down"
    /\ browser.phase \in Calling /\ browser.reply = "none"
    /\ \E answer \in {"ok", "refused", "gone"} :
          /\ Serve(browser.phase, browser.id, answer)
          /\ browser' = [browser EXCEPT !.reply = answer]
    /\ UNCHANGED <<vars, takeover, late, lost>>

\* The request times out before the host has served it, or its reply is lost.
RequestLost ==
    /\ browser.phase \in LostReplies /\ browser.reply # "unavailable" /\ lost < MaxLost
    /\ browser' = [browser EXCEPT !.reply = "unavailable"]
    /\ lost' = lost + 1
    /\ late' = IF browser.reply = "none" THEN late \cup {<<browser.phase, browser.id>>} ELSE late
    /\ UNCHANGED <<vars, takeover, holder, media>>

LateServed ==
    /\ hostState # "down"
    /\ \E r \in late, answer \in {"ok", "refused", "gone"} :
          late' = late \ {r} /\ Serve(r[1], r[2], answer)
    /\ UNCHANGED <<vars, browser, takeover, lost>>

\* Mutant: only a session with a stream is watched.
WatchedRunning == media = "running"

Watched == media # "stopped"

\* The stream fails, or is inactive for 30 s.
MediaStops ==
    /\ Hosted /\ Watched
    /\ media' = "stopped"
    /\ UNCHANGED <<vars, browser, takeover, late, lost, holder>>

\* "Bound an orphaned reservation": 15 s after the stop, which a restoration may
\* exceed, and so may a cleanup of which two requests are lost.
WatchdogReleases ==
    /\ Hosted /\ media = "stopped"
    /\ holder # browser.id \/ browser.phase \in {"idle", "settle"} \/ lost > 1
    /\ holder' = Nobody /\ media' = "none"
    /\ UNCHANGED <<vars, browser, takeover, late, lost>>

\* A viewer is admitted; the last one leaves and its lease is released.
ViewerAcquires ==
    /\ hostState = "up"
    /\ holder = Nobody /\ ~takeover
    /\ holder' = Viewers
    /\ UNCHANGED <<vars, browser, takeover, late, lost, media>>

ViewerReleases ==
    /\ holder = Viewers /\ displayLink = NoLink
    /\ holder' = Nobody
    /\ UNCHANGED <<vars, browser, takeover, late, lost, media>>

-----------------------------------------------------------------------------
(* BrowserHost                                                             *)

hostedVars == <<late, lost, holder, media>>

busy == browser.phase # "idle"

Call(b, action) == [b EXCEPT !.phase = action, !.reply = "none"]

\* end() of b, while neither an operation nor an end is under way.  ++m_Epoch
\* outdates a live resize on its way, which stays noted.
EndNow(b) ==
    IF hostState = "up"
    THEN [Call(b, "stop") EXCEPT !.live = IF b.live = "none" THEN "none" ELSE "stale"]
    ELSE [b EXCEPT !.phase = "wait", !.cancelled = TRUE]

\* Mutant: an end during an operation is forgotten.
NotCancelled == browser

Cancelled == [browser EXCEPT !.cancelled = TRUE]

\* end(), at any time.
End ==
    browser' = CASE browser.phase \in Operating -> Cancelled
                 [] browser.phase \in Ending -> browser
                 [] OTHER -> EndNow(browser)

\* The session is forgotten, and who waited for its end is told.
Forget == browser' = Idle(browser.id, browser.number) /\ takeover' = FALSE

\* The end failed: ownership is kept, and it begins again in 1.5 s.
Retry == browser' = Call(browser, "retry") /\ takeover' = FALSE

\* Mutant: the numbers of browsers are also used by clients.
SequenceCollides == MaxResizes + browser.number

\* m_Sequence starts at 1000000, above the numbers of clients.
NextSequence == MaxResizes + browser.number + 1

\* resizeDisplay for the browser: b is what it becomes if that is not rejected.
ResizeDisplay(b, rejected) ==
    IF Rejected(NextSequence)
    THEN browser' = rejected /\ UNCHANGED vars
    ELSE /\ browser' = [b EXCEPT !.number = b.number + 1, !.awaited = NextSequence]
         /\ IF sequence # 0
            THEN /\ queued' = [link |-> Browser, seq |-> NextSequence]
                 /\ UNCHANGED <<sequence, wire, restoreArmed, toHelper>>
            ELSE Transmit(NextSequence, Browser) /\ UNCHANGED queued
         /\ UNCHANGED <<linkVars, fromHelper, workspace, barrier, hostVars>>

\* A page starts a session.
Begin ==
    /\ ~busy
    /\ hostState = "up" /\ ~trustBusy
    /\ browser.id < MaxSessions /\ browser.number < MaxBrowserResizes
    /\ browser' = Call([browser EXCEPT !.id = browser.id + 1], "reserve")
    /\ UNCHANGED <<vars, takeover, hostedVars>>

\* The reply to the reservation.
Reserved ==
    /\ browser.phase = "reserve" /\ browser.reply # "none"
    /\ IF browser.reply \in {"refused", "gone"}
       THEN Forget /\ UNCHANGED vars
       ELSE /\ UNCHANGED takeover
            /\ CASE browser.reply = "unavailable" \/ browser.cancelled ->
                        browser' = EndNow(browser) /\ UNCHANGED vars
                 [] browser.reply = "ok" /\ ~browser.cancelled /\ ~Available ->
                        browser' = Call(browser, "start") /\ UNCHANGED vars
                 [] OTHER ->
                        LET owner == [browser EXCEPT !.owned = TRUE, !.phase = "resize"]
                        IN  ResizeDisplay(owner, EndNow(owner))
    /\ UNCHANGED hostedVars

\* The reply to the start of the media.
Started ==
    /\ browser.phase = "start" /\ browser.reply # "none"
    /\ browser' = IF browser.reply = "ok" /\ ~browser.cancelled
                  THEN Call(browser, "active")
                  ELSE EndNow(browser)
    /\ UNCHANGED <<vars, takeover, hostedVars>>

\* A live resize b goes to the display first, then to the media.
ToDisplay(b) ==
    /\ browser.number < MaxBrowserResizes
    /\ IF browser.owned /\ Available
       THEN ResizeDisplay([b EXCEPT !.live = "display"], [b EXCEPT !.live = "none"])
       ELSE browser' = [b EXCEPT !.live = "media"] /\ UNCHANGED vars

LiveResize ==
    /\ browser.phase \in {"active", "retry", "wait"}
    /\ IF browser.live = "none"
       THEN ToDisplay(browser)
       ELSE browser' = [browser EXCEPT !.waits = TRUE] /\ UNCHANGED vars
    /\ UNCHANGED <<takeover, hostedVars>>

\* The media have been resized, or refuse; a newer resize follows.
LiveResized ==
    /\ browser.live = "media"
    /\ IF browser.waits /\ browser.phase \notin Ending /\ browser.number < MaxBrowserResizes
       THEN ToDisplay([browser EXCEPT !.waits = FALSE])
       ELSE browser' = [browser EXCEPT !.live = "none"] /\ UNCHANGED vars
    /\ UNCHANGED <<takeover, hostedVars>>

\* The page stops the session or leaves, or a viewer takes over (endForTakeover).
PageStops == busy /\ End /\ UNCHANGED <<vars, takeover, hostedVars>>

TakeoverRequested ==
    /\ busy /\ ~takeover /\ barrier = "none"
    /\ takeover' = TRUE
    /\ End
    /\ UNCHANGED <<vars, hostedVars>>

\* poll() finds that the session has ended.
PollEnds ==
    /\ browser.phase \in {"active", "retry", "wait"} /\ hostState = "up"
    /\ holder # browser.id \/ media # "running"
    /\ browser' = EndNow(browser)
    /\ UNCHANGED <<vars, takeover, hostedVars>>

\* Mutant: the display is restored although the stop failed.
StopUnproven == browser.reply # "gone"

StopProven == browser.reply = "ok"

\* The reply to the stop.
Stopped ==
    /\ browser.phase = "stop" /\ browser.reply # "none"
    /\ CASE browser.reply = "gone" -> Forget /\ UNCHANGED vars
         [] browser.reply # "gone" /\ ~StopProven -> Retry /\ UNCHANGED vars
         [] StopProven /\ browser.owned /\ Available ->
              /\ browser' = Call(browser, "settle")
              /\ RestoreDisplay
              /\ UNCHANGED <<takeover, linkVars, sequence, wire, helperVars, barrier, hostVars>>
         [] OTHER -> /\ browser' = [Call(browser, "release") EXCEPT !.owned = FALSE]
                     /\ UNCHANGED <<vars, takeover>>
    /\ UNCHANGED hostedVars

\* The restoration takes too long; the reservation is released all the same.
BrowserSettleTimeout ==
    /\ browser.phase = "settle"
    /\ browser' = Call(browser, "release")
    /\ UNCHANGED <<vars, takeover, hostedVars>>

\* The reply to the release.
Released ==
    /\ browser.phase = "release" /\ browser.reply # "none"
    /\ IF browser.reply \in {"ok", "gone"} THEN Forget ELSE Retry
    /\ UNCHANGED <<vars, hostedVars>>

\* 1.5 s after a failure, or 1 s after the management access was gone.
EndAgain ==
    /\ browser.phase \in {"retry", "wait"}
    /\ browser' = EndNow(browser)
    /\ UNCHANGED <<vars, takeover, hostedVars>>

\* The callback of the display request it waits for.
DisplayAnswered(okay) ==
    LET b == [browser EXCEPT !.awaited = 0]
    IN  CASE b.phase = "resize" -> IF okay /\ ~b.cancelled THEN Call(b, "start") ELSE EndNow(b)
          [] b.phase # "resize" /\ b.live = "display" ->
                 [b EXCEPT !.live = IF okay THEN "media" ELSE "none"]
          [] OTHER -> b

\* displayResized for the outstanding request, and for one queued behind it
\* that could not be started.
BrowserHears(okay) ==
    /\ browser' =
          IF browser.awaited # 0 /\ browser.awaited = sequence THEN DisplayAnswered(okay)
          ELSE IF browser.awaited # 0 /\ StartsQueued /\ ~Available /\ browser.awaited = queued.seq
               THEN DisplayAnswered(FALSE)
          ELSE IF browser.phase = "settle" /\ sequence < 0
               THEN [Call(browser, "release") EXCEPT !.owned = ~okay]
          ELSE browser
    /\ UNCHANGED <<takeover, hostedVars>>

-----------------------------------------------------------------------------
(* Composition                                                             *)

SharedAck ==
    /\ HelperAck
    /\ IF AckMatches(Head(fromHelper))
       THEN BrowserHears(Head(fromHelper).okay)
       ELSE UNCHANGED browserVars

SharedTimeout == ResizeTimeout /\ BrowserHears(FALSE)

\* m_Generation moves on: a reply on its way is no longer valid.
SharedStop ==
    /\ HostStop
    /\ browser' = IF browser.phase \in Calling
                  THEN [browser EXCEPT !.reply = "unavailable"] ELSE browser
    /\ UNCHANGED <<takeover, hostedVars>>

\* The processes are gone, with the host's reservation.
SharedDown ==
    /\ HostDown
    /\ Forget
    /\ holder' = Nobody /\ media' = "none" /\ late' = {}
    /\ UNCHANGED lost

Viewer ==
    /\ \/ \E l \in Links : (holder = Viewers /\ Resize(l)) \/ ResumeController(l)
       \/ ControllerEnds \/ ControllerDropped
       \/ ~takeover /\ TakeOver
       \/ AdmissionEnds
    /\ UNCHANGED browserVars

DisplayStep ==
    /\ RestoreTimer \/ SettleTimeout \/ Helper \/ TrustBegins \/ TrustEnds \/ HostStart
    /\ UNCHANGED browserVars

Callback == Reserved \/ Started \/ Stopped \/ Released

SharedNext ==
    \/ Viewer \/ ViewerAcquires \/ ViewerReleases
    \/ DisplayStep \/ SharedAck \/ SharedTimeout \/ SharedStop \/ SharedDown
    \/ Begin \/ Callback \/ LiveResize \/ LiveResized
    \/ PageStops \/ PollEnds \/ TakeoverRequested
    \/ BrowserSettleTimeout \/ EndAgain
    \/ HostServes \/ RequestLost \/ LateServed \/ MediaStops \/ WatchdogReleases

SharedSpec == SharedInit /\ [][SharedNext]_sharedVars

\* Nobody keeps a session alive that BrowserHost has forgotten.
OrphanStops == MediaStops /\ (~busy \/ holder # browser.id)

\* The timers and pipes of HostDisplay, the callbacks and timers of BrowserHost,
\* and a living host that serves its requests and runs its watchdog.
SharedFairness ==
    /\ WF_sharedVars(Helper /\ UNCHANGED browserVars) /\ WF_sharedVars(SharedAck)
    /\ WF_sharedVars(SharedTimeout)
    /\ WF_sharedVars(RestoreTimer /\ UNCHANGED browserVars)
    /\ WF_sharedVars(TrustEnds /\ UNCHANGED browserVars)
    /\ WF_sharedVars(SharedDown)
    /\ WF_sharedVars(HostServes) /\ WF_sharedVars(Callback)
    /\ WF_sharedVars(BrowserSettleTimeout) /\ WF_sharedVars(EndAgain)
    /\ WF_sharedVars(PollEnds)
    /\ WF_sharedVars(OrphanStops) /\ WF_sharedVars(WatchdogReleases)

FairSharedSpec == SharedSpec /\ SharedFairness

-----------------------------------------------------------------------------
(* Properties                                                              *)

\* Whoever was told that the display shows its workspace sees it: a browser
\* session while its media start and run, a viewer once its resize succeeded.  No
\* late acknowledgment or restoration of one reaches the display of the other.
\* (With a helper that does not fail.)
WorkspaceIsTheirs ==
    /\ WorkspaceIsControllers
    /\ (browser.phase \in {"start", "active"} /\ browser.owned /\ hostState = "up") =>
           workspace = Browser

\* "Do not restore a display while media might still be using it"
\* (browserhost.cpp:343): also not media that a lost request starts late.
MediaStopsFirst ==
    browser.phase \in {"settle", "release"} => (holder = browser.id => media # "running")

\* A reservation does not outlive its session for ever: also one made by a
\* request whose reply was lost.
ReservationReturned ==
    \A s \in Sessions : (holder = s /\ (~busy \/ browser.id # s)) ~> holder # s

\* A display request that was dropped from the queue: nobody will answer it.
Dropped == browser.phase = "resize" /\ browser.awaited \notin {sequence, queued.seq}

\* A native takeover gets an answer from BrowserHost.
TakeoverAnswered == takeover ~> (~takeover \/ Dropped)

\* When neither a viewer nor a browser uses the display, it becomes physical.
SharedLayoutComesBack ==
    (displayLink = NoLink /\ ~busy /\ hostState = "up") ~>
        (workspace = Physical \/ displayLink # NoLink \/ busy \/ hostState # "up")
=============================================================================

-------------------------- MODULE ViewerContinuity --------------------------
(***************************************************************************)
(* The viewer of one desktop across interruptions: the chain of Sessions   *)
(* (app/streaming/session.cpp, session-continuity.cpp, session-adaptive    *)
(* .cpp), each of which ends before the next one continues, the            *)
(* AdaptiveDisplay controller that they hand on (app/backend/              *)
(* adaptivedisplay.cpp), and what the host makes of its connections.       *)
(*                                                                         *)
(* Four threads touch a Session: the one that runs it, the worker of its   *)
(* controller, the detached callback of a media connection that ended,     *)
(* which nobody joins, and the user interface that cancels it.             *)
(***************************************************************************)
EXTENDS Integers

CONSTANTS
    Attempts,       \* retries of one interruption (5 in the code)
    Sizes,          \* sizes of the remote desktop that a viewer may ask for
    Physical,       \* the display without a controller
    Leases,         \* leases of the host, random and so always new in the code
    NoLease,
    OthersCome,     \* whether another device connects and takes over
    HostFaults,     \* whether the host ends sessions, restarts or refuses
    MediaFaults,    \* whether media may end while its session stands
    LinkFaults,     \* whether the control connection may be lost
    Hides           \* whether the user hides the viewer

ASSUME ViewerConstants ==
    /\ Attempts \in Nat /\ Physical \notin Sizes /\ NoLease \notin Leases
    /\ {OthersCome, HostFaults, MediaFaults, LinkFaults, Hides} \subseteq BOOLEAN

\* More than a viewer and its connections remember, so that a new one can be made.
ASSUME LeasesSuffice == Leases # {} /\ \A a, b, c \in Leases : Leases \ {a, b, c} # {}

VARIABLES
    session,    \* the Session of the chain that exists now
    callback,   \* clConnectionTerminated for the media of this Session
    stale,      \* whether that of an earlier Session still waits
    control,    \* m_AdaptiveDisplay
    link,       \* its connection
    late,       \* the last connection closed by a viewer that releases it
    host,       \* the session that the host serves
    retries     \* of the chain since it was last started, reconnected or resized
                \* or a stream lasted, up to Attempts + 1: for RetriesBounded only

vars == <<session, callback, stale, control, link, late, host, retries>>

-----------------------------------------------------------------------------
\* age: of the stream (m_StreamStartedAt), "long" after 10 seconds; ended:
\* DeskPortTransportEnded is queued; window: the retained window exists and
\* escaped is its cancelled().
NewSession ==
    [stage |-> "delay", attempt |-> 0, deadline |-> "none", token |-> NoLease,
     cancelled |-> FALSE, retry |-> FALSE, manual |-> FALSE, resized |-> FALSE,
     window |-> FALSE, escaped |-> FALSE, age |-> "none",
     picture |-> FALSE, reported |-> FALSE, ended |-> FALSE]
Over == [NewSession EXCEPT !.stage = "over"]

NoCallback == [pc |-> "none", error |-> "none"]

\* sent: the video state that the host acknowledged; wants: m_VideoPaused.
NoController ==
    [pc |-> "none", failed |-> FALSE, retryable |-> TRUE, takenOver |-> FALSE,
     token |-> NoLease, sent |-> "running", wants |-> "running", answer |-> "none",
     pending |-> FALSE, complete |-> FALSE, target |-> Physical]

StateAtStart(token) == IF token = NoLease THEN "running" ELSE "unknown"
Controller(token) ==
    [NoController EXCEPT !.pc = "connect", !.token = token, !.sent = StateAtStart(token)]

\* One request is outstanding at a time; ended is the last message of the host.
NoLink == [state |-> "none", request |-> "none", reply |-> "none", ended |-> "none",
           lease |-> NoLease]
NotLate == [open |-> FALSE, request |-> "none", token |-> NoLease, held |-> FALSE]

\* session: the connection whose session it is; "lost" is one without a live
\* transport.  challenged: connections whose challenge still holds.
IdleHost == [session |-> "none", lease |-> NoLease, challenged |-> {},
             size |-> Physical, paused |-> FALSE]
Mine == {"this", "late", "lost"}

TypeOK ==
    /\ session.stage \in {"delay", "admit", "launch", "stream", "stopping", "cleaning", "over"}
    /\ session.attempt \in 0..Attempts
    /\ session.deadline \in {"none", "running", "passed"}
    /\ session.retry => session.deadline # "none"
    /\ session.token \in Leases \cup {NoLease}
    /\ session.age \in {"none", "short", "long"}
    /\ callback.pc \in {"none", "waiting", "scheduling", "done"}
    /\ callback.error \in {"none", "network", "graceful", "fatal"}
    /\ {stale, late.open, late.held} \subseteq BOOLEAN
    /\ late.held => stale \/ callback.pc = "waiting"
    /\ control.pc \in {"none", "connect", "status", "confirm", "takeover", "idle",
                       "resize", "video", "ended"}
    /\ control.pc = "none" <=> control = NoController
    /\ control.pc \in {"none", "connect", "ended"} <=> link = NoLink
    /\ link.state \in {"none", "up", "closed", "lost"}
    /\ control.token \in Leases \cup {NoLease}
    /\ host.session \in Mine \cup {"none", "other"}
    /\ host.session = "this" => link.state = "up"
    /\ host.session = "late" => late.open
    /\ host.session \in {"none", "other"} => host.lease = NoLease
    /\ host.size \in Sizes \cup {Physical}
    /\ session.stage = "over" => control = NoController

Init ==
    /\ session = Over /\ callback = NoCallback /\ stale = FALSE
    /\ control = NoController /\ link = NoLink /\ late = NotLate
    /\ host = IdleHost /\ retries = 0

-----------------------------------------------------------------------------
(* The host (PeerManager), as one viewer sees it                           *)

\* Sessions of the host that start or end make every challenge stale.
\* "this" also ends as a connection, after a message or without one.
HostDrops(new, told) ==
    /\ host' = new
    /\ link' = IF host.session = "this"
               THEN [link EXCEPT !.state = "closed", !.request = "none", !.ended = told]
               ELSE link

\* A lease that nobody remembers.
NewLease == CHOOSE n \in Leases : n \notin {session.token, control.token, late.token, link.lease}

\* The takeover request names no sessionLifecycle: its session has no resume token
\* and does not outlive its connection.
Owned(me, lease) == [IdleHost EXCEPT !.session = me, !.lease = lease]

\* The host's record when a connection of the viewer turns into another kind.
RenamedIn(h, from, to) ==
    [h EXCEPT !.session = IF @ = from THEN to ELSE @,
              !.challenged = {IF c = from THEN to ELSE c : c \in @} \ {"lost"}]
Renamed(from, to) == RenamedIn(host, from, to)

Replied(reply, lease) ==
    [link EXCEPT !.request = "none", !.reply = reply, !.lease = lease]

Resumes(me, token) ==
    host.session \in Mine \ {me} /\ token # NoLease /\ token = host.lease

Refusal == HostFaults /\ link' = Replied("refused", NoLease) /\ UNCHANGED host
Unavailable == HostFaults /\ link' = Replied("unavailable", NoLease) /\ UNCHANGED host

\* sessionRequestVerified: resume, claim an idle host or issue a challenge.
ServeStatus ==
    /\ link.state = "up" /\ link.request = "status"
    /\ \/ Refusal
       \/ Unavailable
       \/ /\ Resumes("this", control.token)
          /\ host' = [host EXCEPT !.session = "this", !.challenged = {}]
          /\ link' = Replied("admitted", host.lease)
       \/ /\ host.session = "none"
          /\ host' = Owned("this", NewLease)
          /\ link' = Replied("admitted", NewLease)
       \/ /\ ~Resumes("this", control.token) /\ host.session # "none"
          /\ host' = [host EXCEPT !.challenged = @ \cup {"this"}]
          /\ link' = Replied("busy", NoLease)
    /\ UNCHANGED <<session, callback, stale, control, late, retries>>

\* A failure after the claim releases it again.
ServeTakeover ==
    /\ link.state = "up" /\ link.request = "takeover"
    /\ \/ /\ "this" \in host.challenged
          /\ host' = Owned("this", NoLease)
          /\ link' = Replied("admitted", NoLease)
       \/ /\ "this" \notin host.challenged
          /\ host' = host
          /\ link' = Replied("refused", NoLease)
       \/ /\ HostFaults
          /\ host' \in {IdleHost, host}
          /\ link' = Replied("unavailable", NoLease)
    /\ UNCHANGED <<session, callback, stale, control, late, retries>>

\* The display request; the legacy refusal says busy or invalid.
ServeResize ==
    /\ host.session = "this" /\ link.request = "resize"
    /\ \/ /\ host' = [host EXCEPT !.size = control.target]
          /\ link' = Replied("resized", NoLease)
       \/ /\ HostFaults
          /\ \E reply \in {"display-busy", "display-failed"} : link' = Replied(reply, NoLease)
          /\ UNCHANGED host
    /\ UNCHANGED <<session, callback, stale, control, late, retries>>

\* A state that is reported as failed may have been applied.
ServeVideo ==
    /\ host.session = "this" /\ link.request \in {"pause", "run"}
    /\ \/ /\ host' = [host EXCEPT !.paused = (link.request = "pause")]
          /\ link' = Replied(IF link.request = "pause" THEN "paused" ELSE "running", NoLease)
       \/ /\ HostFaults
          /\ \E p \in BOOLEAN : host' = [host EXCEPT !.paused = p]
          /\ link' = Replied("video-failed", NoLease)
    /\ UNCHANGED <<session, callback, stale, control, late, retries>>

\* A closed connection's last request is served after the viewer left, and
\* then its release, or the end of the connection.
ServeLate ==
    /\ late.open
    /\ \/ /\ late.request = "status" /\ host.session = "none"
          /\ host' = Owned("late", NewLease)
          /\ UNCHANGED link
       \/ /\ late.request = "status" /\ Resumes("late", late.token)
          /\ HostDrops([host EXCEPT !.session = "late", !.challenged = {}], "ended")
       \/ /\ late.request = "takeover" /\ "late" \in host.challenged
          /\ HostDrops(Owned("late", NoLease), "taken-over")
       \/ late.request # "none" /\ UNCHANGED <<host, link>>
    /\ late' = [late EXCEPT !.request = "none", !.token = NoLease]
    /\ UNCHANGED <<session, callback, stale, control, retries>>

\* Mutant: a release gives up the challenge only.
ChallengeForgotten == [host EXCEPT !.challenged = @ \ {"late"}]

Released ==
    IF host.session = "late" THEN IdleHost ELSE [host EXCEPT !.challenged = @ \ {"late"}]

ServeRelease ==
    /\ late.open /\ late.request = "none" /\ ~late.held
    /\ late' = NotLate
    /\ \/ host' = Released
       \/ LinkFaults /\ host' = Renamed("late", "lost")
    /\ UNCHANGED <<session, callback, stale, control, link, retries>>

\* transportLost holds a session with a token for 15 seconds and ends another at
\* once; the watchdog ends one whose connection still seems to live after 20.
OwnershipExpires ==
    /\ host.session = "lost"
    /\ host' = IdleHost
    /\ UNCHANGED <<session, callback, stale, control, link, late, retries>>

\* Revocation, an illegal message, the end of sharing, of which fail() tells only
\* a session with a token; or a host process that is replaced and says nothing.
HostEnds ==
    /\ HostFaults /\ host.session \in Mine
    /\ \E told \in {"none"} \cup (IF host.lease = NoLease THEN {} ELSE {"ended"}) :
          HostDrops(IdleHost, told)
    /\ UNCHANGED <<session, callback, stale, control, late, retries>>

OtherConnects ==
    /\ OthersCome /\ host.session # "other"
    /\ HostDrops([IdleHost EXCEPT !.session = "other"], "taken-over")
    /\ UNCHANGED <<session, callback, stale, control, late, retries>>

OtherLeaves ==
    /\ host.session = "other"
    /\ host' = IdleHost
    /\ UNCHANGED <<session, callback, stale, control, link, late, retries>>

LinkLost ==
    /\ LinkFaults /\ link.state \in {"up", "closed"}
    /\ link' = [NoLink EXCEPT !.state = "lost"]
    /\ host' = Renamed("this", "lost")
    /\ UNCHANGED <<session, callback, stale, control, late, retries>>

-----------------------------------------------------------------------------
(* The controller's worker (AdaptiveDisplay::run)                          *)

\* The end of run(), or of the object: a live connection is released, but only
\* when a callback that still refers to the object is done.
Disconnected(held) ==
    /\ link' = NoLink
    /\ IF link.state = "up"
       THEN /\ late' = [open |-> TRUE, held |-> held,
                        token |-> IF link.request = "status" THEN control.token ELSE NoLease,
                        request |-> IF link.request \in {"status", "takeover"}
                                    THEN link.request ELSE "none"]
            /\ host' = RenamedIn(Renamed("late", "lost"), "this", "late")
       ELSE UNCHANGED <<late, host>>

\* Of a worker that ended only this is read again.
WorkerEnds(c) ==
    /\ control' = [NoController EXCEPT !.pc = "ended", !.failed = TRUE, !.token = c.token,
                      !.retryable = c.retryable, !.takenOver = c.takenOver, !.complete = c.complete]
    /\ Disconnected(FALSE)

Working(pc) == control.pc = pc /\ ~control.failed
Sends(pc, request) ==
    /\ control' = [control EXCEPT !.pc = pc]
    /\ link' = [link EXCEPT !.request = request]
    /\ UNCHANGED <<late, host>>
Takes(c) ==
    /\ control' = c
    /\ link' = [link EXCEPT !.reply = "none", !.lease = NoLease]
    /\ UNCHANGED <<late, host>>

\* connectBlocking, the hello and the first request.
Connects ==
    /\ Working("connect")
    /\ \/ /\ control' = [control EXCEPT !.pc = "status"]
          /\ link' = [NoLink EXCEPT !.state = "up", !.request = "status"]
          /\ UNCHANGED <<late, host>>
       \/ LinkFaults /\ WorkerEnds(control)

Final(c) == [c EXCEPT !.retryable = FALSE]

\* receive() returns the end of the session, which is remembered.
Told == [Final(control) EXCEPT !.takenOver = (link.ended = "taken-over")]
ReadsEnd ==
    /\ control.pc \in {"status", "takeover", "idle", "resize", "video"} /\ ~control.failed
    /\ link.reply = "none" /\ link.ended # "none"
    /\ WorkerEnds(Told)

\* receive() returns nothing: the connection is gone.  An unacknowledged video
\* state is final.
Silent ==
    /\ control.pc \in {"status", "takeover", "idle", "resize", "video"} /\ ~control.failed
    /\ link.reply = "none" /\ link.ended = "none"

GivesUp == WorkerEnds(IF control.pc = "video" THEN Final(control) ELSE control)

ReadsNothing == Silent /\ link.state # "up" /\ GivesUp

\* It may also take too long, even for a request that is served.
TimesOut ==
    /\ LinkFaults /\ Silent /\ link.state = "up"
    /\ GivesUp
    /\ UNCHANGED <<session, callback, stale, retries>>

\* An authenticated "unavailable" is transient for one who has a token.
ReadsAdmission ==
    /\ control.pc \in {"status", "takeover"} /\ ~control.failed
    /\ \/ /\ link.reply = "admitted"
          /\ Takes([control EXCEPT !.pc = "idle", !.token = link.lease, !.answer = "none"])
       \/ link.reply = "busy" /\ Takes([control EXCEPT !.pc = "confirm"])
       \/ link.reply = "refused" /\ WorkerEnds(Final(control))
       \/ /\ link.reply = "unavailable"
          /\ WorkerEnds(IF control.token = NoLease THEN Final(control) ELSE control)

\* The answer, or none within DP_SESSION_CONFIRMATION_TTL_MS.
Confirms ==
    /\ Working("confirm")
    /\ \/ control.answer = "yes" /\ Sends("takeover", "takeover")
       \/ WorkerEnds(Final(control))

AsksResize == Working("idle") /\ control.pending /\ Sends("resize", "resize")

\* Mutant: a busy refusal counts as done.
SizeTaken(reply) == reply \in {"resized", "display-busy"}

SizeSet(reply) == reply = "resized"

\* A busy refusal is tried again for 3 seconds.
ReadsResize ==
    /\ Working("resize") /\ link.reply # "none"
    /\ \/ /\ SizeSet(link.reply)
          /\ Takes([control EXCEPT !.pc = "idle", !.pending = FALSE, !.complete = TRUE])
       \/ ~SizeSet(link.reply) /\ link.reply = "display-busy" /\ Takes([control EXCEPT !.pc = "idle"])
       \/ /\ ~SizeSet(link.reply)
          /\ WorkerEnds(Final(control))

AsksVideo ==
    /\ Working("idle") /\ ~control.pending /\ control.sent # control.wants
    /\ Sends("video", IF control.wants = "paused" THEN "pause" ELSE "run")

ReadsVideo ==
    /\ Working("video")
    /\ \/ link.reply \in {"paused", "running"} /\ Takes([control EXCEPT !.pc = "idle", !.sent = link.reply])
       \/ link.reply = "video-failed" /\ WorkerEnds(Final(control))

Worker ==
    /\ \/ Connects \/ ReadsEnd \/ ReadsNothing \/ ReadsAdmission \/ Confirms
       \/ AsksResize \/ ReadsResize \/ AsksVideo \/ ReadsVideo
    /\ UNCHANGED <<session, callback, stale, retries>>

-----------------------------------------------------------------------------
(* Continuation                                                            *)

\* Mutant: a cancelled session continues as well.
PendingThoughCancelled(s) == s.retry \/ s.manual \/ s.resized

adaptiveRestartPending(s) == ~s.cancelled /\ (s.retry \/ s.manual \/ s.resized)

\* scheduleNetworkRecovery: a stream that lasted begins a new interruption.
Attempted(s) == IF s.age = "long" THEN 0 ELSE s.attempt
Deadline(s)  == IF s.age = "long" THEN "none" ELSE s.deadline

Schedulable(s) ==
    /\ ~s.cancelled
    /\ control # NoController /\ control.retryable /\ ~control.takenOver
    /\ Deadline(s) # "passed"
    /\ Attempted(s) < Attempts

Scheduled(s) ==
    [s EXCEPT !.attempt = Attempted(s),
              !.deadline = IF Deadline(s) = "none" THEN "running" ELSE @,
              !.token = IF control.token # NoLease THEN control.token ELSE @,
              !.retry = TRUE]

ScheduledIfPossible(s) == IF Schedulable(s) THEN Scheduled(s) ELSE s

\* Mutant: the attempt is not counted.
AttemptKept(attempt) == attempt

NextAttempt(attempt) == attempt + 1

\* continuationSession: what the next Session is given.
Continued(s) ==
    IF s.retry
    THEN [NewSession EXCEPT !.attempt = NextAttempt(s.attempt), !.deadline = s.deadline,
                            !.token = s.token, !.window = s.window, !.escaped = s.escaped]
    ELSE IF s.manual THEN NewSession
    ELSE [NewSession EXCEPT !.resized = TRUE, !.window = s.window, !.escaped = s.escaped]

Dropped ==
    /\ control' = NoController
    /\ Disconnected(~control.failed /\ (stale \/ callback.pc = "waiting"))
Retained == UNCHANGED <<control, link, late, host>>

InExec == UNCHANGED <<callback, stale, retries>>

\* DeferredSessionCleanupTask reads adaptiveRestartPending and, when nothing is
\* pending, drops the controller with s_ActiveSessionLock, which a callback that
\* reports holds: that may schedule a retry after the decision.  Without one left
\* nothing comes between the two.
NothingPending ==
    /\ session.stage = "stopping" /\ ~adaptiveRestartPending(session)
    /\ session' = [session EXCEPT !.stage = "cleaning"]
    /\ IF callback.pc \in {"waiting", "scheduling"} THEN Retained ELSE Dropped
    /\ InExec

DropsController ==
    /\ session.stage = "cleaning" /\ control # NoController
    /\ callback.pc # "scheduling"
    /\ Dropped
    /\ UNCHANGED session
    /\ InExec

\* s_ActiveSession is nobody's from here: a callback that still waits has lost its
\* Session.  SessionWorker reads adaptiveRestartPending again.  A Session disconnected
\* since its task kept the controller drops it when deleted, as DropsController does.
CleanedUp ==
    /\ \/ session.stage = "stopping" /\ adaptiveRestartPending(session)
       \/ session.stage = "cleaning" /\ control = NoController
    /\ callback.pc # "scheduling"
    /\ stale' = (stale \/ callback.pc = "waiting")
    /\ callback' = NoCallback
    /\ IF adaptiveRestartPending(session)
       THEN /\ session' = Continued(session)
            /\ IF session.retry /\ control.failed THEN Dropped ELSE Retained
            /\ retries' = IF ~session.retry THEN 0
                          ELSE IF retries <= Attempts THEN retries + 1 ELSE retries
       ELSE /\ session' = Over
            /\ Retained
            /\ UNCHANGED retries

-----------------------------------------------------------------------------
(* The Session                                                             *)

Leaves == session' = Over /\ Dropped

\* Mutant: a retained controller keeps what an earlier stream wanted.
Wanted(c) == c

Restarted(c) == [c EXCEPT !.wants = "running"]

Expired == session.deadline = "passed"

\* exec and initializeAdaptiveDisplay up to resize(), which refuses at once when
\* the controller that was handed on has failed.
Enter(size) ==
    /\ session.stage = "delay"
    /\ IF session.cancelled \/ Expired \/ session.escaped
       THEN Leaves
       ELSE /\ session' = [session EXCEPT !.stage = "admit", !.resized = FALSE, !.window = TRUE,
                                         !.token = NoLease]
            /\ LET c == Restarted(IF control = NoController THEN Controller(session.token)
                                  ELSE control)
               IN  control' = [c EXCEPT !.target = size, !.pending = ~c.failed, !.answer = "none",
                                        !.complete = FALSE]
            /\ UNCHANGED <<link, late, host>>
    /\ InExec

\* Mutant: a recovery asks too.
AsksWhenever == ~session.cancelled

MayAsk == session.deadline = "none" /\ ~session.cancelled

\* The question to the user; every other case answers no.
Answer(yes) ==
    /\ session.stage = "admit" /\ control.pc = "confirm" /\ control.answer = "none"
    /\ yes => MayAsk
    /\ control' = [control EXCEPT !.answer = IF yes THEN "yes" ELSE "no"]
    /\ UNCHANGED <<session, link, late, host>>
    /\ InExec

\* AdaptiveDisplay::cancel, by the progress callback of resize().
CancelsAdmission ==
    /\ session.stage = "admit" /\ ~control.failed
    /\ session.cancelled \/ Expired
    /\ control' = [Final(control) EXCEPT !.failed = TRUE]
    /\ UNCHANGED <<session, link, late, host>>
    /\ InExec

\* resize() waits 25 seconds, not counting the question.
ResizeTimesOut ==
    /\ session.stage = "admit" /\ control.pending /\ ~control.failed
    /\ control.pc # "confirm"
    /\ LinkFaults \/ HostFaults
    /\ control' = [control EXCEPT !.failed = TRUE]
    /\ UNCHANGED <<session, link, late, host>>
    /\ InExec

Admitted ==
    /\ session.stage = "admit" /\ control.complete
    /\ IF session.escaped
       THEN Leaves
       ELSE /\ session' = [session EXCEPT !.stage = "launch"]
            /\ control' = [control EXCEPT !.complete = FALSE]
            /\ UNCHANGED <<link, late, host>>
    /\ InExec

\* The window goes with the Session that failed.
Stops(s) == session' = [s EXCEPT !.stage = "stopping", !.window = FALSE, !.escaped = FALSE]

NotAdmitted ==
    /\ session.stage = "admit" /\ control.failed /\ ~control.complete
    /\ Stops(IF session.deadline # "none" THEN ScheduledIfPossible(session) ELSE session)
    /\ Dropped
    /\ InExec

\* The launch is admitted for the device, not for its connection.
Launched ==
    /\ session.stage = "launch"
    /\ ~session.cancelled /\ ~session.escaped /\ ~Expired
    /\ host.session \in Mine
    /\ session' = [session EXCEPT !.stage = "stream", !.age = "short", !.window = FALSE]
    /\ Retained
    /\ InExec

\* startConnectionAsync and clStageFailed; an error of the host is final.
LaunchFails ==
    /\ session.stage = "launch"
    /\ MediaFaults \/ host.session \notin Mine
    /\ \/ Stops(IF session.deadline # "none" THEN ScheduledIfPossible(session) ELSE session)
       \/ Stops(session)
    /\ Retained
    /\ InExec

LaunchInterrupted ==
    /\ session.stage = "launch"
    /\ session.cancelled \/ session.escaped \/ Expired
    /\ Stops([session EXCEPT !.cancelled = TRUE])
    /\ Retained
    /\ InExec

\* The loop of the stream ends; a Session that will continue keeps its window.
Ends(s) == session' = [s EXCEPT !.stage = "stopping", !.picture = FALSE,
                                !.window = adaptiveRestartPending(s) /\ ~s.manual]

\* Mutant: a loop that waits for the end that the disconnect announced.
LeavesAtEnd == session.ended

LeavesAtOnce == session.cancelled

StreamStops ==
    /\ session.stage = "stream"
    /\ \/ /\ LeavesAtOnce
          /\ Ends([session EXCEPT !.retry = FALSE])
       \/ /\ ~session.cancelled /\ control.failed
          /\ Ends([ScheduledIfPossible(session) EXCEPT !.reported = TRUE])
       \/ session.ended /\ Ends(session)
    /\ Retained
    /\ InExec

\* m_UnexpectedTermination: every end that was reported, but a graceful one.
Unexpected == callback.pc = "done"
              /\ (callback.error # "graceful" \/ control.takenOver \/ session.retry)

Undisturbed == session.stage = "stream" /\ ~session.cancelled /\ ~control.failed
               /\ ~Unexpected /\ ~session.retry

\* DeskPortReconnect, for a command, a setting or a bitrate that asks for it.
Reconnect ==
    /\ Undisturbed
    /\ Ends([session EXCEPT !.manual = TRUE])
    /\ Retained
    /\ InExec

\* ResumeWatchdog: hidden for 5 seconds and again without a picture for 8.
ResumeFails ==
    /\ Hides /\ session.picture /\ control.wants = "running"
    /\ session.age = "long"
    /\ Reconnect

\* checkAdaptiveResize, once the window has another size.
WindowResized ==
    /\ Undisturbed
    /\ Ends([session EXCEPT !.resized = TRUE])
    /\ Retained
    /\ InExec

\* The loop looks whether the user has hidden the viewer for 5 seconds, once a
\* picture has been received.
SetsVideoPaused ==
    /\ Hides /\ session.stage = "stream" /\ session.picture /\ ~control.failed
    /\ control' = [control EXCEPT !.wants = IF @ = "paused" THEN "running" ELSE "paused"]
    /\ UNCHANGED <<session, link, late, host>>
    /\ InExec

Picture ==
    /\ session.stage = "stream" /\ ~session.picture
    /\ host.session \in Mine /\ ~host.paused
    /\ session' = [session EXCEPT !.picture = TRUE]
    /\ Retained
    /\ InExec

\* Ten seconds; the bound of an interruption.
StreamLasts ==
    /\ session.stage = "stream" /\ session.age = "short"
    /\ session' = [session EXCEPT !.age = "long"]
    /\ retries' = 0
    /\ Retained
    /\ UNCHANGED <<callback, stale>>

DeadlinePasses ==
    /\ session.deadline = "running"
    /\ session' = [session EXCEPT !.deadline = "passed"]
    /\ Retained
    /\ InExec

-----------------------------------------------------------------------------
(* The detached callback (clConnectionTerminated)                          *)

MediaEnds(error) ==
    /\ session.stage = "stream" /\ callback.pc = "none"
    /\ MediaFaults \/ host.session \notin Mine
    /\ callback' = [pc |-> "waiting", error |-> error]
    /\ Retained
    /\ UNCHANGED <<session, stale, retries>>

Recoverable ==
    /\ ~control.takenOver
    /\ callback.error = "network" \/ (callback.error = "graceful" /\ control.failed /\ control.retryable)

\* Of an end that was reported only this is read again.
Done == [pc |-> "done", error |-> IF callback.error = "graceful" THEN "graceful" ELSE "fatal"]

\* After wasTakenOver(3000), with s_ActiveSessionLock.
CallbackReports ==
    /\ callback.pc = "waiting" /\ session.stage \in {"stream", "stopping", "cleaning"}
    /\ IF session.reported
       THEN callback' = Done /\ UNCHANGED session
       ELSE IF Recoverable /\ Schedulable(session)
       THEN callback' = [callback EXCEPT !.pc = "scheduling"]
            /\ session' = [session EXCEPT !.reported = TRUE]
       ELSE callback' = Done
            /\ session' = [session EXCEPT !.reported = TRUE, !.ended = TRUE]
    /\ late' = [late EXCEPT !.held = @ /\ stale]
    /\ UNCHANGED <<stale, control, link, host, retries>>

\* scheduleNetworkRecovery past its conditions: a cancellation may have come.
CallbackSchedules ==
    /\ callback.pc = "scheduling"
    /\ session' = [Scheduled(session) EXCEPT !.ended = TRUE]
    /\ callback' = Done
    /\ Retained
    /\ UNCHANGED <<stale, retries>>

\* Mutant: the callback of an earlier Session ends the stream of this one.
EndsAnyStream == [session EXCEPT !.ended = TRUE]

StaleEffect == session

StaleReports ==
    /\ stale /\ stale' = FALSE
    /\ session' = StaleEffect
    /\ late' = [late EXCEPT !.held = @ /\ callback.pc = "waiting"]
    /\ UNCHANGED <<callback, control, link, host, retries>>

-----------------------------------------------------------------------------
(* The user                                                                *)

Connect ==
    /\ session.stage = "over" /\ session' = NewSession
    /\ retries' = 0
    /\ Retained
    /\ UNCHANGED <<callback, stale>>

\* cancelRecovery and DeskPortEndSession.
Disconnect ==
    /\ session.stage # "over" /\ ~session.cancelled
    /\ session' = [session EXCEPT !.cancelled = TRUE, !.retry = FALSE]
    /\ Retained
    /\ UNCHANGED <<callback, stale, retries>>

\* SessionWorker has no Session during the delay and when the chain is over: its
\* process ends, and with it the connections it has not released.
Quits ==
    /\ session.stage = "delay" \/ (session.stage = "over" /\ stale)
    /\ session' = Over /\ stale' = FALSE
    /\ control' = NoController /\ link' = NoLink
    /\ late' = IF late.held THEN NotLate ELSE late
    /\ host' = RenamedIn(IF late.held THEN Renamed("late", "lost") ELSE host, "this", "lost")
    /\ UNCHANGED <<callback, retries>>

\* In the retained or the connecting window; a question takes the key instead.
Escape ==
    /\ session.window /\ ~session.escaped /\ session.stage # "stream"
    /\ session.stage = "admit" => control.pc # "confirm"
    /\ session' = [session EXCEPT !.escaped = TRUE]
    /\ Retained
    /\ UNCHANGED <<callback, stale, retries>>

-----------------------------------------------------------------------------
User == Connect \/ Disconnect \/ Quits \/ Escape \/ SetsVideoPaused
        \/ Reconnect \/ WindowResized \/ Answer(TRUE)

Host == ServeStatus \/ ServeTakeover \/ ServeResize \/ ServeVideo
        \/ ServeLate \/ ServeRelease \/ OwnershipExpires

Environment == HostEnds \/ OtherConnects \/ OtherLeaves \/ LinkLost
               \/ TimesOut \/ ResizeTimesOut
               \/ StreamLasts \/ DeadlinePasses \/ ResumeFails
               \/ \E error \in {"network", "graceful", "fatal"} : MediaEnds(error)

Exec == (\E size \in Sizes : Enter(size)) \/ Answer(FALSE) \/ CancelsAdmission
        \/ Admitted \/ NotAdmitted \/ LaunchInterrupted \/ StreamStops
        \/ NothingPending \/ DropsController \/ CleanedUp

Launch == Launched \/ LaunchFails
Callback == CallbackReports \/ CallbackSchedules

Next == User \/ Host \/ Environment \/ Worker \/ Exec \/ Launch \/ Picture
        \/ Callback \/ StaleReports

Spec == Init /\ [][Next]_vars

\* The threads run; the host serves what it received and its timers fire.
\* Nothing is assumed of clocks, of the user, of faults or of pictures.
Fairness ==
    /\ WF_vars(Worker) /\ WF_vars(Exec) /\ WF_vars(Launch) /\ WF_vars(Callback)
    /\ WF_vars(StaleReports)
    /\ WF_vars(ServeStatus) /\ WF_vars(ServeTakeover) /\ WF_vars(ServeResize)
    /\ WF_vars(ServeVideo)
    /\ WF_vars(ServeLate \/ ServeRelease) /\ WF_vars(OwnershipExpires)
FairSpec == Spec /\ Fairness

-----------------------------------------------------------------------------
(* Properties                                                              *)

\* Whenever the viewer launches or shows a stream over a live control connection
\* without a message that its session ended, the host serves this connection,
\* with the display in the size that was negotiated; no other device, earlier
\* connection or late release of this viewer comes between (resize,
\* sessionRequestVerified, continuationSession).
StreamMatchesDisplay ==
    session.stage \in {"launch", "stream"} /\ link.state = "up" =>
        host.session = "this" /\ host.size = control.target

\* One interruption is retried at most Attempts times, however its retries end
\* and whoever schedules them: callback, main loop, launch or admission
\* (docs/SESSION_LIFECYCLE.md:32).
RetriesBounded == retries <= Attempts

\* Another device is displaced only when the user has agreed, and never by a
\* recovery (docs/SESSION_LIFECYCLE.md:34).  A confirmation that was sent before
\* the viewer left is still served.
TakeoverIsAsked ==
    [][host.session = "other" /\ host'.session = "this"
        => control.answer = "yes" /\ session.deadline = "none"]_vars

\* After the user disconnected, no further Session continues the chain, whatever
\* was scheduled meanwhile (cancelRecovery, scheduleNetworkRecovery).
CancelIsFinal == [][session.cancelled => session'.cancelled \/ session'.stage = "over"]_vars

\* A stream ends for a cause of its own: its user, its controller or its own
\* media, not those of a Session it replaced (s_ConnectionGeneration).
StreamEndsForCause ==
    [][session.stage = "stream" /\ session'.stage = "stopping"
        => session'.cancelled \/ session'.manual \/ session'.resized
           \/ control.failed \/ callback.error # "none"]_vars

\* An interrupted chain comes to a stream again or ends; no wait of the threads
\* for each other or for the host lasts for ever, whatever the clock does.
ChainSettles ==
    session.stage \notin {"stream", "over"} ~> session.stage \in {"stream", "over"}

\* A disconnect ends the chain, at any point of a recovery.
DisconnectEnds == session.cancelled ~> session.stage = "over"

\* A stream does not wait for its first picture behind the pause that a hidden
\* viewer of an earlier Session ordered (initializeAdaptiveDisplay).
PauseLifted ==
    session.stage = "stream" /\ ~session.picture /\ host.paused
        ~> ~host.paused \/ session.stage # "stream"

\* When the chain is over the host comes free for others: released, or after it
\* noticed the loss.
OwnershipReturned ==
    session.stage = "over" /\ host.session \in Mine
        ~> session.stage # "over" \/ host.session \notin Mine
=============================================================================

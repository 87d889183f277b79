---------------------------- MODULE HostDisplay ----------------------------
(***************************************************************************)
(* The shared display of a DeskPort host: HostManager's resize and restore *)
(* operations (app/backend/hostmanager-display.cpp and the display parts   *)
(* of hostmanager.cpp), the display-control part of PeerManager that calls *)
(* them, and the pipe to the display helper process.                       *)
(*                                                                         *)
(* One request is outstanding at the helper's end of the pipe for all      *)
(* HostManager knows (m_DisplaySequence), but a request that timed out is  *)
(* still there; m_DisplayWireSequence tells them apart.  Timers capture    *)
(* m_DisplayGeneration and do nothing once it has moved on: only those of  *)
(* the current generation are kept here.  That is the deadline of the      *)
(* outstanding request, if there is one, and `restoreArmed'.               *)
(*                                                                         *)
(* SessionAdmission sees this module only through DisplaySettles.          *)
(***************************************************************************)
EXTENDS Integers, Sequences, FiniteSets

CONSTANTS
    Links,          \* display-control connections; each is used once
    NoLink,         \* the null Link pointer
    WireMax,        \* numeric_limits<int>::max(), where the wire sequence wraps
    MaxBacklog,     \* bound: requests the helper has not answered
    MaxResizes,     \* bound: resize requests of one connection
    MaxStops,       \* bound: times the host stops
    HelperMayFail,  \* whether the helper may answer with an error
    TrustUpdates    \* whether devices are bound or removed meanwhile

ASSUME DisplayConstants ==
    /\ NoLink \notin Links
    /\ MaxBacklog \in Nat \ {0}
    /\ WireMax \in Nat /\ WireMax > MaxBacklog
    /\ MaxResizes \in Nat
    /\ MaxStops \in Nat
    /\ HelperMayFail \in BOOLEAN
    /\ TrustUpdates \in BOOLEAN

VARIABLES
    link,           \* life of a connection: open, ended, or dropped because the
                    \* display was unavailable
    displayLink,    \* m_DisplayLink
    linkSequence,   \* displaySequence of each link: its unanswered request, or 0
    sent,           \* requests a client has sent; the last one is its sequence number
    told,           \* history: the answer to the link's last accepted request
    sequence,       \* m_DisplaySequence: 0, -1 for a restoration, or a client's
    wire,           \* m_DisplayWireSequence
    queued,         \* m_QueuedDisplayRequest
    restoreArmed,   \* a 250 ms timer of restoreDisplay runs for this generation
    toHelper, fromHelper,   \* the pipes to and from the helper
    workspace,      \* whose layout the helper applied last
    barrier,        \* settleSessionDisplay of a takeover in progress
    trustBusy,      \* m_TrustBusy
    hostState,      \* up, stopping (m_Stopping) or down
    stops           \* number of stops so far

linkVars   == <<link, displayLink, linkSequence, sent, told>>
resizeVars == <<sequence, wire, queued, restoreArmed>>
helperVars == <<toHelper, fromHelper, workspace>>
hostVars   == <<trustBusy, hostState, stops>>
vars == <<linkVars, resizeVars, helperVars, barrier, hostVars>>

-----------------------------------------------------------------------------
Physical  == "physical"     \* the restored layout of the physical screens
Disturbed == "disturbed"    \* what a failed request leaves behind
Restore   == -1             \* the sequence number of a restoration

NoRequest == [link |-> NoLink, seq |-> 0]
Requests  == [link : Links, seq : 1..MaxResizes]

TypeOK ==
    /\ link \in [Links -> {"open", "ended", "dropped"}]
    /\ displayLink \in Links \cup {NoLink}
    /\ displayLink # NoLink => link[displayLink] = "open"
    /\ linkSequence \in [Links -> 0..MaxResizes]
    /\ sent \in [Links -> 0..MaxResizes]
    /\ told \in [Links -> {"nothing", "ok", "error"}]
    /\ sequence \in Restore..MaxResizes
    /\ wire \in 0..WireMax
    /\ queued \in Requests \cup {NoRequest}
    /\ restoreArmed \in BOOLEAN
    /\ toHelper \in Seq([wire : 1..WireMax, owner : Links \cup {Physical}])
    /\ fromHelper \in Seq([wire : 1..WireMax, okay : BOOLEAN])
    /\ workspace \in Links \cup {Physical, Disturbed}
    /\ barrier \in {"none", "waiting", "restored", "failed"}
    /\ trustBusy \in BOOLEAN
    /\ hostState \in {"up", "stopping", "down"}
    /\ stops \in 0..MaxStops

Init ==
    /\ link = [l \in Links |-> "open"]
    /\ displayLink = NoLink
    /\ linkSequence = [l \in Links |-> 0]
    /\ sent = [l \in Links |-> 0]
    /\ told = [l \in Links |-> "nothing"]
    /\ sequence = 0
    /\ wire = 0
    /\ queued = NoRequest
    /\ restoreArmed = FALSE
    /\ toHelper = <<>>
    /\ fromHelper = <<>>
    /\ workspace = Physical
    /\ barrier = "none"
    /\ trustBusy = FALSE
    /\ hostState = "up"
    /\ stops = 0

-----------------------------------------------------------------------------
(* HostManager::resizeDisplay                                              *)

\* adaptiveDisplayAvailable: running and not changing(), which a trust update is.
Available == hostState = "up" /\ ~trustBusy

\* displayResizeRejection, for a request whose size and policy are valid.
Rejected(seq) ==
    \/ ~Available
    \/ queued # NoRequest
    \/ sequence # 0 /\ (sequence > 0 \/ seq < 0)

\* Mutant: the wire sequence does not wrap.
WireUnwrapped == wire + 1

NextWire == IF wire = WireMax THEN 1 ELSE wire + 1

\* Mutant: the generation does not move on.
TimerSurvives == restoreArmed

\* ++m_DisplayGeneration: a timer armed before does nothing any more.
TimerOutdated == FALSE

Transmit(seq, owner) ==
    /\ Len(toHelper) + Len(fromHelper) < MaxBacklog
    /\ sequence' = seq
    /\ wire' = NextWire
    /\ restoreArmed' = TimerOutdated
    /\ toHelper' = Append(toHelper, [wire |-> NextWire, owner |-> owner])

\* Mutant: a disconnected controller's request stays queued.
QueueKept == queued

QueueForgotten == NoRequest

\* restoreDisplay: forgets the queued request and arms a timer.
RestoreDisplay ==
    /\ queued' = QueueForgotten
    /\ restoreArmed' = TRUE

\* fail() of the display controller, for the given reason.
FailController(reason) ==
    /\ displayLink # NoLink
    /\ link' = [link EXCEPT ![displayLink] = reason]
    /\ displayLink' = NoLink
    /\ RestoreDisplay
    /\ UNCHANGED <<linkSequence, sent, told>>

-----------------------------------------------------------------------------
(* PeerManager's display control                                           *)

\* display-resize: answered with an error without any effect, queued behind the
\* restoration of the previous session's layout, or sent to the helper.
Resize(l) ==
    /\ link[l] = "open"
    /\ Available
    /\ displayLink \in {NoLink, l}
    /\ barrier = "none"
    /\ sent[l] < MaxResizes
    /\ sent' = [sent EXCEPT ![l] = sent[l] + 1]
    /\ IF linkSequence[l] # 0 \/ Rejected(sent[l] + 1)
       THEN UNCHANGED <<link, displayLink, linkSequence, told, resizeVars, toHelper>>
       ELSE /\ displayLink' = l
            /\ linkSequence' = [linkSequence EXCEPT ![l] = sent[l] + 1]
            /\ told' = [told EXCEPT ![l] = "nothing"]
            /\ IF sequence # 0
               THEN /\ queued' = [link |-> l, seq |-> sent[l] + 1]
                    /\ UNCHANGED <<sequence, wire, restoreArmed, toHelper>>
               ELSE Transmit(sent[l] + 1, l) /\ UNCHANGED queued
            /\ UNCHANGED link
    /\ UNCHANGED <<fromHelper, workspace, barrier, hostVars>>

\* The controller leaves, its transport is lost for good or it fails a check.
ControllerEnds ==
    /\ FailController("ended")
    /\ UNCHANGED <<sequence, wire, helperVars, barrier, hostVars>>

\* The 2 s watchdog, or a display-ping or display-resize, finds the display
\* unavailable and fails the controller.
ControllerDropped ==
    /\ ~Available
    /\ FailController("dropped")
    /\ UNCHANGED <<sequence, wire, helperVars, barrier, hostVars>>

\* session-status with a resume token: the display moves to the new transport,
\* the unanswered request of the old one does not.
ResumeController(l) ==
    /\ link[l] = "open"
    /\ displayLink \notin {NoLink, l}
    /\ barrier = "none"
    /\ displayLink' = l
    /\ link' = [link EXCEPT ![displayLink] = "ended"]
    /\ UNCHANGED <<linkSequence, sent, told, resizeVars, helperVars, barrier, hostVars>>

\* A granted takeover fails the old controller and asks to settle the display.
TakeOver ==
    /\ barrier = "none"
    /\ hostState = "up"
    /\ FailController("ended")
    /\ barrier' = "waiting"
    /\ UNCHANGED <<sequence, wire, helperVars, hostVars>>

SettleTimeout ==
    /\ barrier = "waiting"
    /\ barrier' = "failed"
    /\ UNCHANGED <<linkVars, resizeVars, helperVars, hostVars>>

AdmissionEnds ==
    /\ barrier \in {"restored", "failed"}
    /\ barrier' = "none"
    /\ UNCHANGED <<linkVars, resizeVars, helperVars, hostVars>>

-----------------------------------------------------------------------------
(* Completion of a request: displayResized and its listeners, in order     *)

\* PeerManager answers the controller when the sequence number is its own.
Answer(seq, result) ==
    IF displayLink # NoLink /\ linkSequence[displayLink] = seq
    THEN /\ linkSequence' = [linkSequence EXCEPT ![displayLink] = 0]
         /\ told' = [told EXCEPT ![displayLink] = result]
    ELSE UNCHANGED <<linkSequence, told>>

\* Mutant: settleSessionDisplay takes any completion for the restoration's.
SettledByAny(okay) ==
    barrier' = IF barrier # "waiting" THEN barrier
               ELSE IF okay THEN "restored" ELSE "failed"

Settled(okay) ==
    barrier' = IF barrier # "waiting" \/ sequence > 0 THEN barrier
               ELSE IF okay THEN "restored" ELSE "failed"

\* Mutant: the queue is drained by a resize.
StartsAfterResize == sequence > 0 /\ queued # NoRequest

StartsQueued == sequence < 0 /\ queued # NoRequest

\* The end of a restoration starts the request queued behind it; when the
\* display has become unavailable, its controller is told so.
Completed(okay) ==
    /\ IF StartsQueued /\ Available
       THEN /\ Transmit(queued.seq, queued.link)
            /\ UNCHANGED <<linkSequence, told>>
       ELSE /\ sequence' = 0
            /\ IF StartsQueued
               THEN Answer(queued.seq, "error")
               ELSE Answer(sequence, IF okay THEN "ok" ELSE "error")
            /\ UNCHANGED <<wire, restoreArmed, toHelper>>
    /\ queued' = IF StartsQueued THEN NoRequest ELSE queued
    /\ Settled(okay)
    /\ UNCHANGED <<link, displayLink, sent>>

\* Mutant: an acknowledgment is taken for the outstanding request's.
AckOfAny(ack) == sequence # 0

AckMatches(ack) == ack.wire = wire /\ sequence # 0

\* One line of the helper's output; a line read while stopping is ignored.
HelperAck ==
    /\ fromHelper # <<>>
    /\ hostState = "up"
    /\ fromHelper' = Tail(fromHelper)
    /\ IF AckMatches(Head(fromHelper))
       THEN Completed(Head(fromHelper).okay)
       ELSE UNCHANGED <<linkVars, resizeVars, toHelper, barrier>>
    /\ UNCHANGED <<workspace, hostVars>>

\* 5 s (20 s where the layout is rebuilt) without an acknowledgment.
ResizeTimeout ==
    /\ sequence # 0
    /\ Completed(FALSE)
    /\ UNCHANGED <<fromHelper, workspace, hostVars>>

\* Mutant: a timer that finds a request outstanding gives up.
GivenUp == FALSE

\* A timer that finds a request outstanding starts restoreDisplay again.
Rearmed == TRUE

\* The timer of restoreDisplay.  The restoration is not asked for when the
\* display is unavailable at that moment.
RestoreTimer ==
    /\ restoreArmed
    /\ IF sequence # 0
       THEN /\ queued' = QueueForgotten
            /\ restoreArmed' = Rearmed
            /\ UNCHANGED <<sequence, wire, toHelper>>
       ELSE /\ UNCHANGED queued
            /\ IF ~Rejected(Restore)
               THEN Transmit(Restore, Physical)
               ELSE restoreArmed' = FALSE /\ UNCHANGED <<sequence, wire, toHelper>>
    /\ UNCHANGED <<linkVars, fromHelper, workspace, barrier, hostVars>>

-----------------------------------------------------------------------------
(* The helper process                                                      *)

\* It serves one line at a time and answers each of them.
HelperServes(okay) ==
    /\ toHelper # <<>>
    /\ hostState # "down"
    /\ okay \/ HelperMayFail
    /\ toHelper' = Tail(toHelper)
    /\ workspace' = IF okay THEN Head(toHelper).owner ELSE Disturbed
    /\ fromHelper' = Append(fromHelper, [wire |-> Head(toHelper).wire, okay |-> okay])
    /\ UNCHANGED <<linkVars, resizeVars, barrier, hostVars>>

-----------------------------------------------------------------------------
(* Trust updates, and the host's stop and start                            *)

\* updatePeerTrust for a device that is being bound, or for one being removed
\* that may be the controller's.
TrustBegins ==
    /\ TrustUpdates
    /\ hostState = "up"
    /\ ~trustBusy
    /\ trustBusy' = TRUE
    /\ \/ UNCHANGED <<linkVars, queued, restoreArmed>>
       \/ FailController("ended")
    /\ UNCHANGED <<sequence, wire, helperVars, barrier, hostState, stops>>

TrustEnds ==
    /\ trustBusy
    /\ trustBusy' = FALSE
    /\ UNCHANGED <<linkVars, resizeVars, helperVars, barrier, hostState, stops>>

\* beginStop, with sessionHostStopping: the user stops sharing, or a process of
\* the host has ended.
HostStop ==
    /\ hostState = "up"
    /\ stops < MaxStops
    /\ hostState' = "stopping"
    /\ stops' = stops + 1
    /\ sequence' = 0
    /\ IF displayLink # NoLink
       THEN FailController("ended")
       ELSE queued' = NoRequest /\ restoreArmed' = FALSE /\ UNCHANGED linkVars
    /\ UNCHANGED <<wire, helperVars, barrier, trustBusy>>

\* finishStop: the helper's input was closed and it has restored the layout.
HostDown ==
    /\ hostState = "stopping"
    /\ hostState' = "down"
    /\ toHelper' = <<>>
    /\ fromHelper' = <<>>
    /\ workspace' = Physical
    /\ UNCHANGED <<linkVars, resizeVars, barrier, trustBusy, stops>>

HostStart ==
    /\ hostState = "down"
    /\ ~trustBusy
    /\ hostState' = "up"
    /\ UNCHANGED <<linkVars, resizeVars, helperVars, barrier, trustBusy, stops>>

-----------------------------------------------------------------------------
Helper == \E okay \in BOOLEAN : HelperServes(okay)

Next ==
    \/ \E l \in Links : Resize(l) \/ ResumeController(l)
    \/ ControllerEnds \/ ControllerDropped
    \/ TakeOver \/ SettleTimeout \/ AdmissionEnds
    \/ Helper \/ HelperAck
    \/ ResizeTimeout \/ RestoreTimer
    \/ TrustBegins \/ TrustEnds
    \/ HostStop \/ HostDown \/ HostStart

Spec == Init /\ [][Next]_vars

\* Qt's timers fire and the pipes are read; a helper answers every line, a trust
\* update and a stop come to an end.  Nothing is assumed of the clients.
Fairness ==
    /\ WF_vars(Helper) /\ WF_vars(HelperAck)
    /\ WF_vars(ResizeTimeout) /\ WF_vars(RestoreTimer)
    /\ WF_vars(SettleTimeout) /\ WF_vars(AdmissionEnds)
    /\ WF_vars(TrustEnds) /\ WF_vars(HostDown)

FairSpec == Spec /\ Fairness

-----------------------------------------------------------------------------
(* Properties                                                              *)

\* A controller that was told its resize succeeded, and waits for no other,
\* looks at its own workspace: no late acknowledgment of an earlier request
\* and no late restoration of an earlier session can say otherwise.
WorkspaceIsControllers ==
    (displayLink # NoLink /\ told[displayLink] = "ok" /\ linkSequence[displayLink] = 0) =>
        workspace = displayLink

\* "A disconnected queued controller must never take over later"
\* (hostmanager-display.cpp:178): a request waits only behind a restoration
\* and only while there is a controller for it.
QueuedHasController ==
    queued # NoRequest => sequence = Restore /\ displayLink # NoLink

\* When a takeover is told that the old layout is back, it is: the physical
\* layout is shown and no request of the old controller can still change it.
SettledMeansRestored ==
    [][ (barrier = "waiting" /\ barrier' = "restored") =>
            workspace = Physical /\ toHelper = <<>> ]_vars

\* A queued request does not wait for ever, and a request that is on its way to
\* the helper is answered while its controller stays, whatever the helper does.
\* (One that is dropped from the queue is not: DisplayClaims.)
RequestsAnswered ==
    /\ queued # NoRequest ~> queued = NoRequest
    /\ \A l \in Links : (displayLink = l /\ sequence > 0) ~>
                            (displayLink # l \/ linkSequence[l] = 0)
=============================================================================

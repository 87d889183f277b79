# A verification project for DeskPort

DeskPort is a remote desktop: a viewer (a fork of Moonlight), a host (a patched
Sunshine process) and, between them, a layer of its own that pairs devices,
decides who may use a host, controls the host's virtual display and shares the
clipboard. This directory holds TLA+ models of that layer, the TLC
configurations that check them on small instances, and TLAPS proofs of the
properties that matter most for instances of any size. Paths are relative to
the repository; `backend/` is `app/backend/`.

## The system

| Component | State it keeps | Operations | Talks to |
|---|---|---|---|
| Admission gate in Sunshine (`host/overlays/patch-host-session-takeover.py`, `host/browser/browser.cpp`) | certificate, lease, generation; streams; browser reservation; enabled devices | acquire, release, trust update; launch, resume, cancel, RTSP ANNOUNCE; browser reserve and release | PeerManager by loopback HTTP, clients by GameStream |
| Session supervisor, `PeerManager` (`backend/peermanager*.cpp`) | links; `m_SessionLink`, `m_DisplayLink`, `m_ClipboardLink`; `m_SessionEpoch`, `m_SessionOperation`; challenges, leases; `m_Revoking` | session-status, session-takeover, resume, display-resize, clipboard-start, endpoint-query, `fail()`, transport loss | clients by TLS, the gate by HTTP, HostManager by calls and signals |
| Host display, `HostManager` (`backend/hostmanager-display.cpp`, `hostmanager.cpp`) | outstanding sequence, wire sequence, generation, queued request, timers | resize, restore, settle, acknowledgment, timeout, stop | display helper by pipes, PeerManager by signals |
| Display helpers (`host/linux`, `host/windows`, `host/macos`) | the layout | serve one line; restore when the input closes | compositor or OS |
| Session chains, `SessionGraph` (`backend/sessiongraph.h`) | outgoing edges, revision | reserve, check, probe | the same component of other desktops |
| Host lifecycle and trust (`backend/hostmanager-startup.cpp`, `-trust.cpp`) | processes, `m_Generation`, `m_TrustBusy` | start, stop, recover, update trust | Sunshine, helpers |
| Binding (`backend/peermanager*.cpp`, `peerstore.h`, `pairinginvite.h`) | saved peers, grants, invitations | request, approve, provision, commit, remove | the other device, the gate's trust |
| Viewer continuity (`backend/adaptivedisplay.cpp`, `app/streaming/session-*.cpp`) | control connection, resume token, retries | connect, status, takeover, resize, resume | PeerManager of the host |
| Browser access (`backend/browsergateway.cpp`, `browserhost.cpp`) | tickets, browser session, display policy | pair, start, resize, end | gate, HostManager |
| Windows display lease (`host/windows/display-helper.cpp`, `display-recovery.cpp`) | snapshots and DPI journals on disk, a mutex, one shared request record | acquire, capture, resize, set, restore, recover | HostManager by the helper's pipes, Windows |
| Clipboard (`backend/clipboardchannel.cpp`, `app/clipboard/agent.cpp`) | offers, transfers, helper process | offer, request, transfer | PeerManager, OS |
| Traffic (`backend/trafficbudget.cpp`, `host/common/*.h`) | accounts, rates | charge, grant, adapt | streams |
| Workers and windows (`backend/multisessions.cpp`, `sessionworker.cpp`, `singleinstance.h`) | worker pool, windows | open, close, switch | the viewer |

PeerManager and HostManager run on one Qt event loop; nothing there runs in
parallel, and what is hard is what happens *between* callbacks. A takeover, for
instance, asks the host who is there, tells the user, waits for a confirmation,
claims the host, waits for the old streams to be joined, for the old clipboard
helper to exit and for the old display layout to be restored. Links end,
devices are removed, other devices connect, the host process is replaced and
replies are lost at any of those points. In Sunshine one mutex serialises the
claim with the GameStream handlers, but an RTSP negotiation spans several
requests. No lock spans two desktops.

What makes each component correct, in short: one session per host, and every
pointer to its owner accurate; nobody evicted whom the user was not asked
about; the gate and the supervisor of one mind; no stream from before a claim;
removed devices without a session; every operation, request and check ends; an
acknowledgment taken for the request it answers; the physical layout back when
the controller has gone, also for a browser; two devices that agree on what they
have bound, and trust that is never ahead of the list a user can revoke; the
physical layout of a Windows desktop kept on disk until it is back; no cycle of
desktops that view each other; a viewer that shows a stream only over the session
it owns, and whose recovery is bounded, displaces nobody and ends when the user
ends it.

## Modules

| Module | What it is |
|---|---|
| `SunshineAdmission` | the gate; the specification `GateSpec` drives it by an arbitrary supervisor |
| `SessionAdmission` | PeerManager composed with the gate (it EXTENDS `SunshineAdmission`) and with asynchronous management requests |
| `ExclusiveSession` | the abstract session that `SessionAdmission` implements |
| `SessionClaims` | what documents and comments say of admission and the code does not do |
| `HostDisplay`, `DisplayClaims` | the display control with its helper, and the claims about it that fail |
| `BrowserHost`, `BrowserClaims` | a browser session and its reservation at the host, composed with `HostDisplay` (it EXTENDS it), and the claims about it that fail |
| `PeerBinding` | request, approval or invitation, trust, commit and removal between devices |
| `WindowsLease`, `WindowsClaims` | helper, guardian, workers and journals of the Windows display lease, and the claims about it that fail |
| `SessionGraph` | the distributed cycle check |
| `ViewerContinuity`, `ViewerClaims` | a viewer's chain of Sessions across interruptions, its control connection and the host it talks to, and the claims about it that fail |
| `SessionAdmission_proofs` (with those of the gate), `SessionRefinement_proofs`, `HostDisplay_proofs`, `BrowserHost_proofs` (over those of `HostDisplay`), `PeerBinding_proofs`, `WindowsLease_proofs`, `SessionGraph_proofs`, `ViewerContinuity_proofs` | the proofs |
| `MCSessionAdmission`, `MCHostDisplay`, `MCBrowserHost`, `MCPeerBinding`, `MCWindowsLease`, `MCSessionGraph`, `MCViewerContinuity` | instances for TLC |

Operators named as mutants are small defects next to the definition they
replace (a dropped guard, a pointer that is not cleared). They are used by no
action; putting one in the place of its definition must break a property, which
shows that the property depends on that line of the code.

### SunshineAdmission

`certificate`, `lease` and `generation` are the globals of `deskport_admission`;
`negotiations` and `streams` are the launch sessions and running streams, each
with the client and the generation it was negotiated in; `browser` is the
reservation of `browser.cpp`; `trusted` the enabled devices. Every handler takes
the one mutex, so each is one action: `Launch` (launch and resume), `Cancel`,
`RtspAnnounce`, `Acquire`, `ReleaseLease`, `RemoveTrust`, `BrowserReserve`,
`BrowserRelease`. `ProcessExit` is the loss of the process with its globals.
`claimedAt` is history: the generation at which the lease was last set.

### SessionAdmission

Every action is one callback of PeerManager or one received message. A request
(`SessionRequest`) first waits for its topology check (`pending`); when that
succeeds, `sessionRequestVerified` is one of `VerifiedNothingToDo`,
`ResumeTransport`, `QueryHost`, `TakeoverStale`, `TakeoverClaims` and
`TakeoverEndsBrowser`, whose guards are its branches in order. `op` is what the
nested lambdas capture: the kind says which callback comes next, `run` the host
generation that `managementRequest` compares, `answer` the reply on its way,
`helper` and `display` what the barrier waits for. `posted` is the set of
acquires and releases the host has not served: it may serve them in any order,
also after the supervisor has given up on them. `Fail(F)` is `fail()` for the
links one callback fails: pointers, epoch, and the release of the lease. The
host is `up`, `stopping`, `exited` (the process is gone, HostManager does not
know yet) or `down`.

Two fields are history and not in the code: `against` (the holders when the user
was asked) in a challenge and in `op`. Two things are abstracted: the outcome of
the topology check (any; `SessionGraph` models it) and clocks (a timer may fire
any time it is armed).

### ExclusiveSession

What a host promises about its desktop, in seven actions: a claim begins, is
given up or wins; the owner leaves or replaces its connection; a device is denied
or allowed. The refinement mapping (`Exclusive` in `SessionAdmission`) takes the
session link for the owner, the lease its end would release for the lease held,
the operation in progress for the claim, and the granted devices without the one
being removed for the allowed ones. A takeover is thus three abstract steps: the
claim begins when it is sent or when its query is, the old owner leaves when the
acquire is answered, the claim wins when the barrier ends. A removal denies the
device in the step that starts it; one that fails allows it again.

### HostDisplay

`sequence`, `wire`, `queued` are `m_DisplaySequence`, `m_DisplayWireSequence` and
`m_QueuedDisplayRequest`; `restoreArmed` says that a 250 ms timer of the current
`m_DisplayGeneration` runs; the pipes to and from the helper are sequences.
`Completed` is `displayResized` with all its listeners in the order they are
connected: the one that starts the queued request, PeerManager's answer, and the
one of `settleSessionDisplay`. The connections' part (`displayLink`,
`linkSequence`) repeats the few steps of PeerManager that touch the display;
`barrier` is a takeover that settles the display.

### BrowserHost

`browser.phase` names the callback that the nested lambdas of `browserhost.cpp`
wait for; `m_Id`, `m_Operation` and `m_Ending` follow from it, and `cancelled` is
an end asked for during an operation. `Begin`, `Reserved`, `DisplayAnswered` and
`Started` bring a session up, `LiveResize` and `LiveResized` change it, `EndNow`,
`Stopped`, `BrowserHears`, `Released` take it down and `EndAgain` is the retry
timer. `holder` and `media` are the reservation and the media of
`host/browser/browser.cpp`: `Serve` is its request handler, `Watched` and
`MediaStops` its watchdog. Every request of the supervisor may be lost before it is
served or its reply after; what was given up on may still be served (`late`).
The display is not abstracted: the browser's requests go through the same
sequence, queue, timers and pipes of `HostDisplay` as a viewer's, and each shared
callback (`SharedAck`, `SharedTimeout`, `SharedStop`) runs the listeners of both.
A viewer is only the holder of the host and what it does to the display.

### PeerBinding

A connection is used once. Each end keeps one record (`PeerManager::Link`), each
direction has a queue, and it may be lost between any two messages. `store` is
`m_Peers`, `disk` is `peers.json`; a save that fails leaves the old file. `task`
is the one trust update under way: `TrustServed` is what the host does with it,
and what timed out before that is in `late`: the host may serve it at any later time
(`LateServed`), or end before, but serves nothing that came after it first (`InOrder`).
`Approve` compares the request that is pending with
the one the user was shown (`dialog`), because it may have been replaced while
the dialog was open. `Restart` loses everything but the disk, the host's
certificates and the issued invitations' history. `approved`, `invited` and
`withdrawn` are history.

### WindowsLease

`device`, `layout`, `mode`, `step` and `offered` are Windows; `snapshot` and
`journal` are the files of each lease. `guard.pc` follows `productionLease` from
top to bottom: recover an orphaned snapshot, check that the device is disabled,
save, enable, serve commands, restore, recover. `workers` are the processes it
starts; a worker checks and acts in two steps, so the guardian may be killed
between them. The helper's handlers are written as the list of commands they go
through (`SessionOps`, `EndOps`); a command is answered over `channel`, and one
that timed out may be answered later. DPI is an index relative to what Windows
recommends for a mode, as in the API; `Recommended` says what that is and `Highest`
what the mode offers. A step above it can be neither set nor read (`Settable`,
`Observable`), and a session that is refused 200% goes on with 100% (`Fallback`).
Two variables are history. `accepted` are the steps that count as the user's: the one
he chose, and what `RestoreDpi` makes of such a step in a mode with another
recommendation, since it sets the percentage. `disturbed` says that a recovery failed,
or that a guardian was terminated while it waited for a worker or recovered.

### SessionGraph

A viewer reserves its edge at its own desktop and asks the host. A check is named
by the chain of viewers that led to it. `Check` gives a verdict or probes all
outgoing edges of a desktop; `BranchDone` is the callback of one probe, with the
revision test and the early end; `Decide` and `Admit` are the host's. The
library's `dp_session_path_check` is external: it is used as the test whether the
desktop is on the path, with a limit on the path's length.

### ViewerContinuity

The other end of `SessionAdmission`. A viewer's `Session` object never reconnects: it
ends, and `continuationSession` makes the next one. `session` is the one that
exists now: its stage (the delay before `exec`, admission, launch, stream,
and the clean-up before and after it has found that nothing is pending), and its flags `m_NetworkRetry`, `m_ManualReconnect`,
`m_AdaptiveNextSize`, `m_RecoveryCancelled`, with the attempt, deadline
and resume token that are handed on. Four threads touch it, and each has its
actions: `Exec` is the thread that runs it (`Enter`, `Answer`, `Admitted`,
`NotAdmitted`, `LaunchInterrupted`, `StreamStops`, `NothingPending`, `DropsController`, `CleanedUp`); `Worker` the loop of
`AdaptiveDisplay::run`, whose place is `control.pc`; `CallbackReports` and
`CallbackSchedules` the two halves of the detached callback of a media connection
that ended, between which a cancellation may come, and `StaleReports` that of an
earlier Session, which still holds a reference to the controller; `User` what a
window or the worker process's parent asks for. `ResumeFails` is the watchdog that
reconnects when a stream shows nothing after a pause. The clean-up reads
`adaptiveRestartPending` twice, and a callback may schedule a recovery after the first
time: the next Session then begins without the controller.

`link` is the connection of the controller; `late` the previous one, whose last
request and release the host may serve after the viewer has gone on to the next.
`host` is what `PeerManager` makes of them: the session is that of this connection,
of the late one, of one that is lost and held for its 15 or 20 seconds, of another
device, or nobody's. A session won by a takeover has no token (`NoLease`): it cannot
be resumed, and its loss is not announced. The host ends it as soon as it notices the
loss of the connection, which the model leaves open like every clock (`OwnershipExpires`).
Leases that nobody remembers any more are used again.
`retries` is history: the retries of the chain since it was started, reconnected or
resized, by the user or the watchdog, or a stream lasted ten seconds.

## What is checked

| Run | Instance | Shows |
|---|---|---|
| `MCTakeover` | devices A (2 connections), B (1); 3 requests; 1 replaced host; clipboard; fences met | one owner and accurate pointers; confirmed evictions; agreement with the gate; sound hand-over |
| `MCStreams` | 2 devices, 3 requests, generation 2 | with launches, RTSP, cancels and browser sessions at the host: fencing, one stream, claim and lease together |
| `MCFaults` | 2 devices, 3 requests, 1 replaced host, removals, lost replies, missed fences | removed devices hold nothing, and the implementation of `ExclusiveSession`, under faults |
| `MCLive` | 1 device with 2 connections, 2 requests, generation 1 (a browser may hold the host), 1 replaced host, removals, lost replies, missed fences | exchanges with the host end, no lease the supervisor was told of outlives its session |
| `MCDisplay` | 3 connections, 2 resizes each, failing helper, stop, trust updates, wire sequence 1..3 | a controller is never shown another's workspace; the queue always has a controller; a settled display is the physical one |
| `MCBrowser` | 2 connections, 2 browser sessions with 2 resizes, takeover, stop | a browser and a viewer are never shown each other's workspace, whatever acknowledgment or timer comes late |
| `MCBrowserLive` | 1 connection, 1 browser session, one lost request or reply of any kind | media stop before the display is restored; requests and takeovers are answered; reservation and layout come back |
| `MCBinding` | 2 devices, 2 connections in any direction, 1 invitation each, 1 restart, failing saves, trust updates that fail or are served late | a complete binding is mutual; who is trusted is listed and was approved |
| `MCLease` | 2 leases, 2 modes (one listed) with different recommended and highest scales, 2 requests, 2 kills, every step may fail, workers may outlive | layout and DPI step are on disk until they are back; a new lease starts from the user's own; leases end |
| `MCGraph` | 3 desktops, 3 viewers, path limit 2, failing probes | no cycle, also of viewers not admitted yet; checks end |
| `MCViewer` | 2 sizes, 1 attempt, another device, failing host, media and connections | a stream is shown over the session that the viewer owns; retries are bounded; takeovers are asked for; a disconnect is final; no stream is ended by its predecessor |
| `MCViewerLive` | 1 attempt, failing media and connections | an interrupted chain streams again or ends; a disconnect ends it; the host comes free |

The type invariants of `SunshineAdmission`, `SessionAdmission`, `HostDisplay`,
`SessionGraph` and `WindowsLease` are in no run because they are proved; those of
`BrowserHost`, `PeerBinding` and `ViewerContinuity` are checked.

*Bounds.* Takeover needs three requests (one that owns, one that learns of it,
one that confirms); what more of them could do is left to the proofs. Three
connections are an owner, its replacement and a rival. `MaxGeneration` bounds
only launches, cancels and reservations; two of them give a negotiation before
and one after a claim. One replaced host separates a reply, a barrier and a
challenge from the process they were for. The wire sequence wraps at 3 instead
of 2^31-1, with at most two lines in the pipes, which keeps an old line distinct
from a new one as the real range does. Three desktops close a cycle of two and
of three edges, and the path limit of 2 is exceeded. Two browser sessions let
a late answer of the first meet the second. Two connections let a binding in one
direction cross one in the other, or repeat it after a removal. Two leases are an
orphan and the one that recovers it; a mode that the driver does not list needs
the resize worker, one that it lists does not; the one offers up to 175%, the other
200%, so a session of 200% falls back in the one and runs in the other. One restart of
either device falls between any two steps of a binding; restarts one after another are
left to the theorems, which allow any number. Two connections of one device let
`MCLive` resume a session and take one over, also from a browser. One attempt of a viewer is a
recovery that fails or succeeds, and another follows when the stream has lasted; the
theorems speak of any number. At most four leases are remembered at
once (by the Session and its controller, the late connection, the reply on its way
and the host's new one), and one late connection suffices because an earlier one
is then lost to the host in the same way. In `MCViewerLive` a second
attempt would repeat the waits of the first. Connections of one device are
interchangeable, so are leases of the viewer, its sizes, and two devices with one connection each and the same
abilities; the safety runs use these symmetries, the liveness runs none. Deadlock is not checked:
with bounded requests a system in which nobody asks for anything more stops.

*Fairness.* Callbacks and timers of the Qt loop fire (`ExchangeStep`,
`RecoveryTimeout`, `HelperExits`, `ResizeTimeout`, ...), a living host serves
what reached it, a guardian runs and waits at most 20 seconds for a worker, and a process that is told to stop exits, since it is killed
after 2.5 s. A probe ends at its 4.5 s deadline. The threads of a viewer run, and
a detached callback is eventually scheduled. Nothing is assumed of clients,
users, compositors, of what happens at the gate, nor of the viewer's clocks: its
deadline may pass or not. A transfer times out after 10 s, but only a process that is
gone is certain not to answer: `ReplyLost` is fair then, and may happen at any other
time. Nothing is assumed either of the browser's supervisor, whose end a takeover
waits for: `MCClaimBrowserTakeover` shows that it may never be reported. So
`OperationCompletes` is about the exchanges with the host, also those that follow such
a wait, and leaves out the wait itself (`AwaitsHost`), on which `TakeoverAnswered` of
`BrowserHost` says what holds.

*Exceptions and assumptions of single runs.* `NoOrphanedLease` is about leases of which
the supervisor was told (`Told`). One that the host granted although the reply was lost
or the fence was missed does outlive its operation, and the
code means it to (the next viewer is asked for a takeover). `AdmittedOwnsHost` allows
for what `MCClaimHost` shows, an admission on a lease of a host that was replaced
meanwhile, and says that the new host then knows no other device. `TrustedIsListed`
and `ReadyIsMutual` rest on the order in which Sunshine's management server takes its
requests (`InOrder`): a removal served before an earlier update that timed out would be
undone by it. `OnlyApproved` counts the uses of invitations, so it would not notice
that one is used for the first time after it was revoked. `MCBrowser` loses no
management requests: with a lost release the host's watchdog frees the
reservation, a viewer is admitted, and the browser that still retries its end may
resize the display once more. `MCBrowserLive` has a helper that succeeds and no
trust updates; `TakeoverAnswered` leaves out the request that the display control
drops (`MCClaimBrowserTakeover`). `PreferenceIsKept` and `BaselineIsUsers` let
`RestoreDpi` replace the user's step by one of the same percentage (`accepted`), which
is what `MCClaimDpi` shows without any failure; nothing else may. `MCViewerLive` has
no failing host and no other device, which
would add states to every wait but none of the waits' causes.
`EndpointQueryOnSession` is off except in the configuration about it.
`MCViewerPause.cfg` (`MCViewerContinuity`) passes too and can be run by hand: a pause
ordered by a hidden viewer does not outlive it (`PauseLifted`).

## What is proved

For any sets of clients, links and leases, any bounds and any of the switches:

- `GateTyped`, `GateFences`, `GateRunsOneStream`, `GateClaimConsistent`: the gate
  under a supervisor that may present any certificate, lease and snapshot. Their
  invariant `GateInv` adds to the three safety properties that generations never
  lie in the future and that no claim is ahead of the current one; RTSP
  admission is safe because a stream takes the current generation.
- `AdmissionTyped` and `SessionFences`: types, and the same fencing, of the
  composed system. PeerManager reaches the gate only in a few actions, and what
  it presents there is well-typed; so `GateInv` carries over whatever the
  supervisor does.
- `SessionHasOneOwner` and `SessionHandOver`. `SoleAdmission` is not inductive:
  the end of the barrier makes its link the session without looking at the
  pointer it overwrites. It is sound because the reply to the acquire cleared
  that pointer and nothing sets it during an operation (`BarrierExclusive`), and
  because a link never has the display and the clipboard at once (`RolesApart`),
  so that failing a device's clipboard does not end the link of its display.
  `SoleInv` is the conjunction of the three.
- `RemovalEndsSessions`: it holds since the barrier looks at the grant and at
  `m_Revoking` again, and removal fails the links that hold something.
- `TakeoverIsConfirmed`. The strengthening says what the epoch is for
  (`ChallengeCurrent`: while the epoch of a challenge stands, every holder is one
  the user was asked about) and what the serialised operation is for
  (`ClaimConfirmed`: nobody becomes a holder on the way from the confirmation to
  the claim). This proof needs no assumption about clients.

- `HostImplementsExclusiveSession`: `Spec => ExclusiveSpec`. Each action is mapped
  in a lemma of its own. The end of the barrier is again the delicate step: it
  overwrites the session and takes the lease of its link for granted. The
  invariant `ClaimantInv` says that a claimant is never the session already
  (with `BarrierExclusive`: the desktop is unowned when a claim wins), and that
  its link keeps the lease of the claim until the claim is decided.

- `LateReleaseSpares` and `HostAgrees`. `fail()` posts a release that may arrive any
  number of sessions later; the gate compares leases. `LeasesApart` says that this
  is enough: a claim has a lease of its own from its request on, and what is on its
  way back is neither the session's nor a claim's. `LateReleaseSpares` holds with host
  restarts and lost replies. `Agreement` then relates PeerManager to the gate: the
  only acquire on its way is that of the operation in progress; the gate knows the
  claimant once it has granted the claim, and the session until then. A process
  that replaces another begins with no lease and nothing on its way to it
  (`NoDevice`, and `AgreementInv` for the time between), and the only claim it can
  serve is one that was posted to itself, so it knows either the session or, when
  the session or the claim dates from its predecessor, no device at all
  (`Forgotten`). Hence `AdmittedOwnsHost` for any number of replacements, if replies
  arrive and input fences do not time out. What the property leaves open is what
  the code leaves open. After a replacement the barrier admits on a lease that only
  the old process knew (`MCClaimHost`). A process that is being stopped may still
  serve a takeover whose operation is over, although it has admitted somebody else
  since. And after a lost reply or a missed fence the gate has granted a
  takeover that the supervisor gave up on.

- `DisplayTyped`, `QueueHasController`, `ControllerSeesWorkspace`,
  `SettledIsRestored`, for any capacity of the pipes below the range of the wire
  sequence. The lines in the two pipes carry the last wire numbers in order
  (`PipesOrdered`); so an acknowledgment that matches the outstanding number is
  that of the last line, and the pipes are then empty. That last line belongs to
  whom the outstanding request will be reported to (`LastIsAnswered`), and a
  controller is only told of its workspace while nothing is outstanding
  (`ControllerAtRest`). The lemmas are stated for a display that somebody else may
  share, with request numbers above those of the connections (`top` and `other`);
  `HostDisplay` alone is the case without such numbers.
- `BrowserTyped` and `MediaFirst`, whatever is lost, for any number of sessions. A
  request given up on may be served at any later time, so what matters is which ones
  there can be (`StartedOnce`): a session of which the reservation may still be
  served never sent its start, and once a stop was acknowledged the media cannot
  be started again, because the host starts only what was just reserved.
- `ViewerSeesWorkspace` and `WorkspacesAreTheirs`: the invariant of `HostDisplay`
  holds although browsers use the same display. A session that uses the display, or is
  about to, holds the host (`Undisputed`), and a viewer controls it only while
  viewers hold the host (`Apart`); so a browser's request always finds a display
  without a controller. From the end of its resize on, nothing but its own requests
  is under way and no restoration is armed (`Undisturbed`). The theorems are about
  lost reservations, at most one of them (`LostReplies`, `lost <= 1`): an `Undisputed`
  session is one whose start, stop and release were answered, and with a second loss
  the host's watchdog may free the reservation of a session that is still ending. A
  lost start, stop or release does break `WorkspaceIsTheirs`, as told under the
  assumptions of `MCBrowser`. `ViewerSeesWorkspace` allows a helper that fails.
- `LeaseTyped`, `LayoutSurvives`, `PreferenceSurvives`, for any number of leases,
  requests and terminated guardians. `LayoutIsKept` is far from inductive: a worker
  of a terminated guardian may enable the display many leases later, when the
  snapshot of its own lease has long been retired. The invariant counts: besides
  one snapshot for each worker that has checked and not yet enabled (`Pending`),
  there are always as many as the present step needs (`Owed`: the display if it is
  enabled, and the lease's own until its worker has run). The oldest snapshot is
  the user's and only the newest is deleted, so one snapshot left is the user's.
  `PreferenceSurvives` makes no assumption on what Windows recommends or offers. A
  journal is deleted only by a restoration that succeeded. One at the recovery of an
  orphan sets the step that it holds; `RestoreDpi` sets the percentage, and
  what comes of a user's step that way is `accepted`. So a journal that holds such a
  step is found as long as none is in force.
- `BaselineIsTaken`: until a recovery fails, or a guardian is terminated while it waits
  for a worker or recovers, only the holder's worker runs, and at
  each step of the guardian either the display, the layout and the step are the
  user's (in the sense of `accepted`) or the newest files lead back to them (`Traceable`).
- `BindingTyped`, `TrustIsListed`, `AccessIsApproved`, `ReadyIsAgreed`, for any number
  of devices, connections, invitations and restarts, with saves and trust updates
  that fail. None of the properties is inductive. Their common invariant
  `BindingInv` says what a message on its way and an update under way stand for: an
  end that says it is ready, by its flag or by a message not yet read, has granted
  in memory and on disk (`Promised`); while an update runs, the device has taken back
  what it told that peer before, and an update that adds trust is for a peer that is
  listed and wanted (`Grounded`); the same holds of what may be served late, and while
  there is any no newer update has been served (`LateGrounded`, with `BindingInv` in
  `WholeInv`); every invitation used or still valid was issued
  (`InvitesIssued`).
- `GraphTyped` and `GraphStaysAcyclic`, for any number of desktops and viewers. No lock
  spans two desktops, so the argument is about order: of the edges on a cycle the
  one reserved last finds all the others reserved. The invariant `GraphInv` says
  what a successful check has learned: a set of desktops, off its path, that is
  closed under the edges older than the one it checks (`Safe`). Results that
  travel back keep that set while newer edges come. A cycle of cleared edges,
  taken minimal, would have its newest edge leave such a set.
- `RecoveryIsBounded`, `CancellationStays`, `CauseIsOwn`, `OthersAreAsked`, for any
  number of attempts, sizes and leases. `ChainInv` relates the attempt that a Session
  carries to the retries made (`Counted`), through both halves of the callback, in
  which the stream may come to count as one that lasted (`CallbackCounts`); it
  says that no cancellation is left from a chain that is over (`OverIsFresh`) and that a takeover
  on its way was answered with yes by a user whom no recovery asks (`Asked`).
- `StreamIsOwners`: `DisplayInv` says that an answer on its way is one the controller's
  worker waits for (`Corresponds`), that from the admission on a connection that lives
  is the owner's at the host (`Owns`), that no request for another size is on its way
  once one was set (`Settled`), and that the host then has that size (`Sized`).
- `ViewerTyped`: at most three leases are remembered when a new one is made, so
  there is a new one (`LeasesSuffice`).

`SessionHasOneOwner`, `SessionHandOver`, `RemovalEndsSessions`,
`HostImplementsExclusiveSession`, `LateReleaseSpares` and `HostAgrees` assume
`~EndpointQueryOnSession`; `MCClaimEndpoint.cfg` shows that they must. The other
assumptions on constants are `GateConstants`, `AdmissionConstants`,
`DisplayConstants` (the sequence is wider than the pipes are long), `BrowserConstants`,
`LeaseConstants`, `GraphConstants`, `BindingConstants`, `ViewerConstants` and `LeasesSuffice`, which TLC evaluates in the runs of the modules.

Only model-checked: all liveness (out of the prover's reach). Every invariant and
every action property of the runs is proved.

## Disagreements found

Each is stated in `SessionClaims`, `DisplayClaims`, `BrowserClaims`, `WindowsClaims`
or `ViewerClaims`, with a configuration that ends in the behaviour described. They
are run by hand (`tlc -config MCClaimHost.cfg MCSessionAdmission`). The first two say
why a property of a run has an exception or an assumption:

- `MCClaimBrowserTakeover` (`TakeoverEnds`, `MCBrowserHost`). An end during `begin()` waits for its
  callback. A restore timer that finds the request of `begin()` queued behind a
  restoration starts `restoreDisplay()` again, which clears the queue
  (`hostmanager-display.cpp:178`, `:184`): the callback never comes and the viewer that
  takes over is told "busy" for ever. `peermanager-session.cpp:117` says that the
  browser's supervisor ends the session.
- `MCClaimDpi` (`CleanupRestoresStep`, `MCWindowsLease`). At the end of a session the helper restores
  the DPI as a percentage in its idle mode and deletes the journal
  (`display-recovery.cpp:114`). If the step was captured in a mode with another
  recommendation (a mirrored session left it so), the step that remains is not
  the user's, and nothing is left to restore it from.
  `docs/WINDOWS_DISPLAY_SERVICE.md:109` says that cleanup restores that step.
- `MCClaimLifecycle` (`SessionIsRecoverable`). The takeover message has no
  `sessionLifecycle` field (`backend/adaptivedisplay.cpp:197`) and the host takes the
  absence for a new negotiation (`peermanager-session.cpp:82`). A session won by
  takeover is not kept for 15 seconds when its transport is lost, as
  `docs/SESSION_LIFECYCLE.md:29` says.
- `MCClaimHost` (`AdmittedByGrantingHost`). The end of the barrier does not ask
  whether the host that granted the lease still runs. If it is replaced meanwhile, a
  controller is admitted with a lease nobody knows.
- `MCClaimRevokeClipboard` (`RemovedDeviceSharesNothing`). clipboard-start does not
  look at `m_Revoking`, so a device may take the clipboard while it is being
  removed, and keeps it.
- `MCClaimEndpoint` (`OwnersEndThroughFail`). endpoint-query on an admitted link ends
  it without `fail()`: the session pointer stays.
- `MCClaimQueued` (`QueuedIsStarted`, `MCHostDisplay`). The same clearing of the queue
  drops the request that a *new* controller queued meanwhile. That one is never
  answered and its link refuses every later resize.
- `MCClaimHelper` (`AdmittedAfterHelpers`). The clipboard helper of a link that
  failed just before the acquire is not waited for, since the pointer that names
  it has been cleared.
- `MCClaimRevokeStream` (`RemovedDeviceStreamsNothing`). A stream admitted while
  nobody claimed the host goes on after its device was removed;
  `docs/SESSION_TAKEOVER.md:77` speaks of a restart that
  `hostmanager-trust.cpp` does not do.
- `MCClaimRestore` (`RestoredOnDisconnect`, `MCHostDisplay`). A restoration whose
  timer fires during a trust update is rejected and not asked for again.
- `MCClaimBinding` (`BindingKeepsController`, `MCHostDisplay`). A trust update makes
  `adaptiveDisplayAvailable()` false, for which the watchdog and display-ping
  fail the controller.
- `MCClaimBrowserRestore` (`NeverRestoresTheirDisplay`, `MCBrowserHost`). The end of
  a browser session asks for the physical layout whoever holds the host by then;
  the comment at `browserhost.cpp:340` says that it never restores a viewer's display.
- `MCClaimBrowserLayout` (`TakeoverRestoresDisplay`, `MCBrowserHost`). Settling the
  display has a deadline after which the takeover is answered although the
  browser's workspace is still shown; `browserhost.h:48` includes the restoration.
- `MCClaimMutex` (`MutexProvesIdle`, `MCWindowsLease`). A worker that outlives its
  terminated guardian still changes the display while the next lease holds the
  mutex, which the comment at `display-recovery.cpp:384` takes for a proof that none
  is active.
- `MCClaimViewerEscape` (`EscapeIsFinal`, `ViewerClaims`). The Escape key in the
  retained window only marks the window. When the admission of a recovery fails
  afterwards, the next attempt is scheduled without reading the mark
  (`session-adaptive.cpp:286`) and the window goes with it, although
  `docs/ROADMAP.md:3562` says that Escape cancels the continuation.
- `MCClaimViewerTakeover` (`TakeoverIsTerminal`, `ViewerClaims`). A takeover that the
  controller learns of after a recovery was scheduled only makes
  `continuationSession` drop the controller (`session-continuity.cpp:60`, `:98`); the
  chain goes on, whereas `docs/SESSION_LIFECYCLE.md:33` calls a takeover terminal.

## Not modelled

Upstream Moonlight and Sunshine (decoding, rendering, encoding, GameStream
pairing, discovery), third-party and generated code, the user interface and the
compositor protocols: no protocol state of DeskPort, or hardware and libraries.
Clocks are only the possibility of a timeout. `src/shared/deskport-core` is a
submodule and not in the tree; what is used of it is external. Of the
modelled components these parts are missing: the hello exchange, endpoint refresh,
renaming and several certificates of one host (PeerManager, where
`docs/PEER_BINDING.md` still tells of a restart of the host that live trust updates
have replaced), pairing of browsers, starting and supervising the host's processes
(HostManager), the gateway's tickets and WebRTC (browser access), the worker pool
(multisessions.cpp), and of Windows the service that starts the guardian, logoff,
boot recovery, journals of several users and partially written snapshots. Of the
viewer the geometry of its windows, the video rate, the clipboard it starts over
the control connection, and the errors it shows are left out; a size of the
desktop is a model value.

## Plan

The order is that of importance: who may use the host came first, and is
modelled, refined and proved.

1. `HostLifecycle`: start, supervision, recovery, trust updates and stop, in place
   of the few steps the present modules have of it.
2. `Clipboard`: offers and demand transfers over the helper; the recovery journal
   of the macOS helper, like `WindowsLease`.
3. `TrafficBudget`, `SmallTcp`, `SessionWorkers`: arithmetic and framing with the
   code's integer widths.

Proofs to come: `AdmittedOwnsHost` under lost replies and missed fences, and
`WorkspaceIsTheirs` under lost starts, stops and releases, do not hold as they
stand; what still holds then is to be stated and proved.

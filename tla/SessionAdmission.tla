-------------------------- MODULE SessionAdmission --------------------------
(***************************************************************************)
(* Admission of viewers by a DeskPort host: PeerManager (the supervisor,   *)
(* app/backend/peermanager-session.cpp and the session parts of            *)
(* peermanager.cpp and peermanager-devices.cpp) together with the gate in  *)
(* the Sunshine process (SunshineAdmission), joined by asynchronous HTTP   *)
(* management requests.                                                    *)
(*                                                                         *)
(* PeerManager runs on one event loop: every action below is one callback  *)
(* or one received message.  What makes it hard is what happens between    *)
(* callbacks: links end, devices are revoked, the host process is          *)
(* replaced, replies are lost, releases and acquires are in flight         *)
(* together.                                                               *)
(***************************************************************************)
EXTENDS SunshineAdmission

CONSTANTS
    Links,          \* accepted TLS connections; each is used once
    Owner,          \* Owner[l]: the certificate authenticated on link l
    NoLink,         \* the null Link pointer
    LifecycleClients, \* clients that negotiate session recovery
    ClipboardClients, \* clients that share the clipboard
    TopologyLimit,  \* concurrent graph checks accepted (32 in the code)
    MaxRequests,    \* bound: session requests the clients send in a behaviour
    MaxRestarts,    \* bound: replacements of the host process
    RevocationPossible,     \* whether the user may revoke a device
    FenceMayTimeOut,        \* whether the input fence may miss its 2 seconds
    RepliesMayBeLost,       \* whether a management reply may be lost
    EndpointQueryOnSession  \* whether a client queries the endpoint on its session link

ASSUME AdmissionConstants ==
    /\ NoLink \notin Links
    /\ Owner \in [Links -> Clients]
    /\ LifecycleClients \subseteq Clients
    /\ ClipboardClients \subseteq Clients
    /\ TopologyLimit \in Nat
    /\ MaxRequests \in Nat
    /\ MaxRestarts \in Nat
    /\ RevocationPossible \in BOOLEAN
    /\ FenceMayTimeOut \in BOOLEAN
    /\ RepliesMayBeLost \in BOOLEAN
    /\ EndpointQueryOnSession \in BOOLEAN
    \* The lease a request generates (QUuid::createUuid) is named by the request.
    /\ Leases = 1..MaxRequests
    /\ NoLease = 0

VARIABLES
    phase,          \* life of a link: open (used or not yet), recovering or ended
    optIn,          \* links with sessionOptIn
    lifecycle,      \* links with lifecycle (session recovery) in force
    admitted,       \* links with sessionAdmitted
    linkLease,      \* sessionLease of each link
    challenge,      \* the unconsumed takeover challenge of each link
    pending,        \* the request whose topology check runs (topologyPending)
    asked,          \* number of session requests received so far
    sessionLink,    \* m_SessionLink
    displayLink,    \* m_DisplayLink
    clipboardLink,  \* m_ClipboardLink
    sessionEpoch,   \* m_SessionEpoch
    op,             \* the operation m_SessionOperation serialises, if any
    posted,         \* acquire and release requests on their way to the host
    helpers,        \* links whose clipboard helper process is running
    granted,        \* peers that are ready and granted
    revoking,       \* m_Revoking
    hostState,      \* HostManager: up, stopping, exited (the process is gone but
                    \* running() still holds) or down
    hostRun         \* HostManager::m_Generation

linkVars  == <<phase, optIn, lifecycle, admitted, linkLease, challenge, pending, asked>>
ownerVars == <<sessionLink, displayLink, clipboardLink, sessionEpoch>>
peerVars  == <<granted, revoking>>
hostVars  == <<hostState, hostRun>>
vars == <<gateVars, linkVars, ownerVars, op, posted, helpers, peerVars, hostVars>>

-----------------------------------------------------------------------------
(* Data                                                                    *)

NoRequest   == [id |-> 0, takeover |-> FALSE, lifecycle |-> FALSE, token |-> 0, challenge |-> 0]
Requests    == [id : Leases, takeover : BOOLEAN, lifecycle : BOOLEAN,
                token : Leases \cup {NoLease}, challenge : Leases \cup {0}]

\* A challenge is named by the status request that obtained it.  It binds the
\* host snapshot and the session epoch; `against' is history: who held the
\* session, display and clipboard when the user was asked.
NoChallenge == [id |-> 0, snapshot |-> <<0, 0>>, epoch |-> 0, against |-> {}]
Challenges  == [id : Leases \cup {0}, snapshot : Snapshots, epoch : Nat, against : SUBSET Links]

NoAnswer == [known |-> FALSE, status |-> FALSE, snapshot |-> <<0, 0>>, reserved |-> FALSE]
Answers  == [known : BOOLEAN, status : BOOLEAN, snapshot : Snapshots, reserved : BOOLEAN]

\* m_SessionOperation is set in every kind but "idle":
\*   browser  the browser supervisor is ending its session for a takeover
\*   query    GET sessions is outstanding
\*   acquire  POST acquire is outstanding
\*   barrier  the old display and clipboard helper are being waited for
Kinds  == {"browser", "query", "acquire", "barrier"}
Operations == [kind : Kinds, link : Links, id : Leases, takeover : BOOLEAN,
               run : Nat, against : SUBSET Links, answer : Answers,
               helper : Links \cup {NoLink}, display : {"ok", "pending", "failed"}]
IdleOp == [kind |-> "idle", link |-> NoLink, id |-> 0, takeover |-> FALSE, run |-> 0,
           against |-> {}, answer |-> NoAnswer, helper |-> NoLink, display |-> "ok"]

AcquireRequests == [type : {"acquire"}, client : Clients, lease : Leases,
                    snapshot : Snapshots, takeover : BOOLEAN]
ReleaseRequests == [type : {"release"}, lease : Leases \cup {NoLease}]

LinkTypeOK ==
    /\ phase \in [Links -> {"open", "recovering", "ended"}]
    /\ optIn \subseteq Links
    /\ lifecycle \subseteq Links
    /\ admitted \subseteq Links
    /\ linkLease \in [Links -> Leases \cup {NoLease}]
    /\ challenge \in [Links -> Challenges]
    /\ pending \in [Links -> Requests \cup {NoRequest}]
    /\ asked \in 0..MaxRequests

OwnerTypeOK ==
    /\ sessionLink \in Links \cup {NoLink}
    /\ displayLink \in Links \cup {NoLink}
    /\ clipboardLink \in Links \cup {NoLink}
    /\ sessionEpoch \in Nat

SystemTypeOK ==
    /\ op \in Operations \cup {IdleOp}
    /\ posted \subseteq AcquireRequests \cup ReleaseRequests
    /\ helpers \subseteq Links
    /\ granted \subseteq Clients
    /\ revoking \in Clients \cup {NoClient}
    /\ hostState \in {"up", "stopping", "exited", "down"}
    /\ hostRun \in Nat

TypeOK == GateTypeOK /\ LinkTypeOK /\ OwnerTypeOK /\ SystemTypeOK

Init ==
    /\ GateInit
    /\ phase = [l \in Links |-> "open"]
    /\ optIn = {}
    /\ lifecycle = {}
    /\ admitted = {}
    /\ linkLease = [l \in Links |-> NoLease]
    /\ challenge = [l \in Links |-> NoChallenge]
    /\ pending = [l \in Links |-> NoRequest]
    /\ asked = 0
    /\ sessionLink = NoLink
    /\ displayLink = NoLink
    /\ clipboardLink = NoLink
    /\ sessionEpoch = 0
    /\ op = IdleOp
    /\ posted = {}
    /\ helpers = {}
    /\ granted = Clients
    /\ revoking = NoClient
    /\ hostState = "up"
    /\ hostRun = 0

Alive(l) == phase[l] \in {"open", "recovering"}     \* alive && !alive->ended

\* Mutant: m_Revoking is not looked at.
AuthorizedUntilRemoved(c) == c \in granted

Authorized(c) == c \in granted /\ revoking # c
Busy == op.kind # "idle"                            \* m_SessionOperation

\* Mutant: null pointers are not skipped.
HoldersWithNull == {sessionLink, displayLink, clipboardLink}

Holders == {sessionLink, displayLink, clipboardLink} \ {NoLink}

AcquireRequest(l, id, snapshot, takeover) ==
    [type |-> "acquire", client |-> Owner[l], lease |-> id, snapshot |-> snapshot,
     takeover |-> takeover]

\* Mutant: the lease is cleared before it is copied into the request.
ReleaseNothing(token) == [type |-> "release", lease |-> NoLease]

ReleaseRequest(token) == [type |-> "release", lease |-> token]

ServerAlive == hostState \in {"up", "stopping"}

\* HostManager::managementRequest: a request reaches a living process only.
Post(request) == IF ServerAlive THEN posted \cup {request} ELSE posted

-----------------------------------------------------------------------------
(* PeerManager::fail, for the live links F that one callback fails.        *)

\* Mutant: fail() leaves the pointer.
LeftDangling(pointer, F) == pointer

Cleared(pointer, F) == IF pointer \in F THEN NoLink ELSE pointer
Bump(pointer, F) == IF pointer \in F THEN 1 ELSE 0

FailLinks(F) ==
    /\ phase' = [l \in Links |-> IF l \in F THEN "ended" ELSE phase[l]]
    /\ sessionLink' = Cleared(sessionLink, F)
    /\ displayLink' = Cleared(displayLink, F)
    /\ clipboardLink' = Cleared(clipboardLink, F)
    /\ sessionEpoch' = sessionEpoch + Bump(sessionLink, F) + Bump(displayLink, F)
                                    + Bump(clipboardLink, F)

Fail(F) ==
    /\ FailLinks(F)
    /\ posted' = IF sessionLink \in F
                 THEN Post(ReleaseRequest(linkLease[sessionLink]))
                 ELSE posted

\* The clipboard link of client c, which fails with its session transport.
ClipboardOf(c) == {k \in Links : k = clipboardLink /\ Owner[k] = c}

-----------------------------------------------------------------------------
(* Requests: session-status and session-takeover                           *)

\* Resume tokens a client has been told: those of its admitted lifecycle links.
Tokens(c) == {NoLease} \cup {linkLease[k] : k \in {k \in admitted \cap lifecycle : Owner[k] = c}}

\* sessionRequest: an accepted message starts the topology check.  A takeover
\* carries no sessionLifecycle field (adaptivedisplay.cpp:197).
SessionRequest(l, takeover, token) ==
    /\ phase[l] = "open"
    /\ pending[l] = NoRequest
    /\ Authorized(Owner[l])
    /\ takeover => l \in optIn /\ challenge[l] # NoChallenge /\ token = NoLease
    /\ Cardinality({k \in Links : pending[k] # NoRequest}) < TopologyLimit
    /\ asked < MaxRequests
    /\ asked' = asked + 1
    /\ pending' = [pending EXCEPT ![l] =
            [id |-> asked + 1, takeover |-> takeover,
             lifecycle |-> ~takeover /\ Owner[l] \in LifecycleClients,
             token |-> token, challenge |-> IF takeover THEN challenge[l].id ELSE 0]]
    /\ UNCHANGED <<gateVars, phase, optIn, lifecycle, admitted, linkLease, challenge,
                   ownerVars, op, posted, helpers, peerVars, hostVars>>

\* The check found a cycle or an unverifiable path, the link ended meanwhile,
\* or sessionRequestVerified answered "unauthorized" or "unavailable".
RequestRefused(l) ==
    /\ pending[l] # NoRequest
    /\ pending' = [pending EXCEPT ![l] = NoRequest]
    /\ UNCHANGED <<gateVars, phase, optIn, lifecycle, admitted, linkLease, challenge, asked,
                   ownerVars, op, posted, helpers, peerVars, hostVars>>

\* sessionRequestVerified past its early returns: the link has opted in, and its
\* lifecycle is what this message says.
Verified(l) ==
    /\ pending[l] # NoRequest
    /\ Alive(l)
    /\ l # clipboardLink
    /\ Authorized(Owner[l])
    /\ hostState # "down"
    /\ pending[l].takeover => l \in optIn
    /\ pending' = [pending EXCEPT ![l] = NoRequest]
    /\ optIn' = optIn \cup {l}
    /\ lifecycle' = IF pending[l].lifecycle THEN lifecycle \cup {l} ELSE lifecycle \ {l}
    /\ UNCHANGED <<asked, peerVars, hostVars, gateVars, helpers>>

\* "busy", or the reply to a controller that is admitted already.
VerifiedNothingToDo(l) ==
    /\ Verified(l)
    /\ Busy \/ (l = sessionLink /\ l \in admitted)
    /\ UNCHANGED <<phase, admitted, linkLease, challenge, ownerVars, op, posted>>

\* The same device presents the lease of a session whose transport it replaces.
Resumes(l) ==
    /\ ~pending[l].takeover
    /\ sessionLink \notin {NoLink, l}
    /\ sessionLink \in lifecycle
    /\ Alive(sessionLink)
    /\ pending[l].lifecycle
    /\ Owner[sessionLink] = Owner[l]
    /\ linkLease[sessionLink] # NoLease
    /\ pending[l].token = linkLease[sessionLink]

\* Mutant: the display stays with the replaced link.
LeftBehind(pointer, old, l) == pointer

Moved(pointer, old, l) == IF pointer = old THEN l ELSE pointer

\* The lease and the display move to the new link before the old one fails, so
\* that failing it releases nothing.
ResumeTransport(l) ==
    /\ Verified(l)
    /\ ~Busy
    /\ Resumes(l)
    /\ LET replaced == ClipboardOf(Owner[l]) \cup {sessionLink}
       IN  /\ phase' = [k \in Links |-> IF k \in replaced THEN "ended" ELSE phase[k]]
           /\ sessionEpoch' = sessionEpoch + 1 + Bump(clipboardLink, replaced)
           /\ clipboardLink' = Cleared(clipboardLink, replaced)
    /\ linkLease' = [linkLease EXCEPT ![l] = linkLease[sessionLink], ![sessionLink] = NoLease]
    /\ admitted' = admitted \cup {l}
    /\ sessionLink' = l
    /\ displayLink' = Moved(displayLink, sessionLink, l)
    /\ UNCHANGED <<challenge, op, posted>>

\* A request that is neither a resume nor the admitted controller's.
Proceeds(l, takeover) ==
    /\ Verified(l)
    /\ ~Busy
    /\ ~Resumes(l)
    /\ ~(l = sessionLink /\ l \in admitted)
    /\ pending[l].takeover = takeover
    /\ UNCHANGED <<phase, admitted, ownerVars>>

QueryHost(l) ==
    /\ Proceeds(l, FALSE)
    /\ op' = [IdleOp EXCEPT !.kind = "query", !.link = l, !.id = pending[l].id, !.run = hostRun]
    /\ UNCHANGED <<linkLease, challenge, posted>>

\* acquireSession: POST acquire with a fresh lease.
StartAcquire(l, id, snapshot, takeover, against) ==
    /\ linkLease' = [linkLease EXCEPT ![l] = id]
    /\ posted' = Post(AcquireRequest(l, id, snapshot, takeover))
    /\ op' = IF hostState = "down" THEN IdleOp
             ELSE [IdleOp EXCEPT !.kind = "acquire", !.link = l, !.id = id,
                     !.takeover = takeover, !.run = hostRun, !.against = against]

\* Mutant: the session epoch is not compared.
ChallengeMatches(l) ==
    /\ challenge[l].id # 0
    /\ pending[l].challenge = challenge[l].id

\* The deadline is a clock's: a challenge may have expired at any time.
ChallengeHolds(l) ==
    /\ challenge[l].id # 0
    /\ pending[l].challenge = challenge[l].id
    /\ challenge[l].epoch = sessionEpoch

Takeover(l) ==
    /\ Proceeds(l, TRUE)
    /\ challenge' = [challenge EXCEPT ![l] = NoChallenge]

TakeoverStale(l) ==
    /\ Takeover(l)
    /\ UNCHANGED <<linkLease, op, posted>>

TakeoverClaims(l) ==
    /\ Takeover(l)
    /\ ChallengeHolds(l)
    /\ StartAcquire(l, pending[l].id, challenge[l].snapshot, TRUE, challenge[l].against)

\* BrowserHost::busy() holds at least while the host has a reservation.
TakeoverEndsBrowser(l) ==
    /\ Takeover(l)
    /\ ChallengeHolds(l)
    /\ browser
    /\ op' = [IdleOp EXCEPT !.kind = "browser", !.link = l, !.id = pending[l].id,
                !.takeover = TRUE, !.against = challenge[l].against]
    /\ UNCHANGED <<linkLease, posted>>

-----------------------------------------------------------------------------
(* The serialised operation: query, acquire, barrier                       *)

linkFlags == <<optIn, lifecycle, admitted, pending, asked>>

EndBrowserDone ==
    /\ op.kind = "browser"
    /\ op' = IF hostState = "down" THEN IdleOp ELSE [op EXCEPT !.kind = "query", !.run = hostRun]
    /\ UNCHANGED <<gateVars, linkVars, ownerVars, posted, helpers, peerVars, hostVars>>

\* A reply counts only while the host process it was sent to still runs.
ReplyValid == op.run = hostRun /\ hostState # "down"

HostAnswersQuery ==
    /\ op.kind = "query"
    /\ ~op.answer.known
    /\ ServerAlive
    /\ op' = [op EXCEPT !.answer = [known |-> TRUE, status |-> TRUE, snapshot |-> Snapshot,
                                    reserved |-> lease # NoLease]]
    /\ UNCHANGED <<gateVars, linkVars, ownerVars, posted, helpers, peerVars, hostVars>>

\* The callback of GET sessions: issue a challenge, or claim an idle host.
Occupied == Holders # {} \/ op.answer.snapshot[2] > 0 \/ op.answer.reserved

IssueChallenge ==
    /\ challenge' = [challenge EXCEPT ![op.link] =
            [id |-> op.id, snapshot |-> op.answer.snapshot, epoch |-> sessionEpoch,
             against |-> Holders]]
    /\ op' = IdleOp
    /\ UNCHANGED <<linkLease, posted>>

\* Mutant: a link that ended meanwhile keeps the operation.
AbandonedIfReserved == op.takeover /\ op.answer.reserved

Abandoned == ~Alive(op.link) \/ (op.takeover /\ op.answer.reserved)

QueryReply ==
    /\ op.kind = "query"
    /\ op.answer.known
    /\ ReplyValid
    /\ \/ /\ Abandoned
          /\ op' = IdleOp
          /\ UNCHANGED <<challenge, linkLease, posted>>
       \/ /\ Alive(op.link)
          /\ ~op.takeover /\ Occupied
          /\ IssueChallenge
       \/ /\ Alive(op.link)
          /\ IF op.takeover THEN ~op.answer.reserved ELSE ~Occupied
          /\ StartAcquire(op.link, op.id, op.answer.snapshot, op.takeover, op.against)
          /\ UNCHANGED challenge
    /\ UNCHANGED <<gateVars, phase, linkFlags, ownerVars, helpers, peerVars, hostVars>>

\* Mutant: a request without an answer never completes.
NeverLost == FALSE

\* A transport error, the 10 s transfer timeout, or a reply of a host that was
\* stopped since.  The host may have served the request all the same.
ReplyLost ==
    /\ op.kind \in {"query", "acquire"}
    /\ RepliesMayBeLost \/ op.run # hostRun \/ ~ServerAlive
    /\ op' = IdleOp
    /\ UNCHANGED <<gateVars, linkVars, ownerVars, posted, helpers, peerVars, hostVars>>

HostServesRelease(r) ==
    /\ r \in posted
    /\ r.type = "release"
    /\ ServerAlive
    /\ posted' = posted \ {r}
    /\ ReleaseLease(r.lease)
    /\ UNCHANGED <<linkVars, ownerVars, op, helpers, peerVars, hostVars>>

\* A fence that misses its deadline answers status FALSE for a claim that stays.
HostServesAcquire(r, fence) ==
    /\ r \in posted
    /\ r.type = "acquire"
    /\ ServerAlive
    /\ fence \/ FenceMayTimeOut
    /\ posted' = posted \ {r}
    /\ Acquire(r.client, r.lease, r.snapshot, r.takeover)
    /\ op' = IF op.kind = "acquire" /\ op.id = r.lease
             THEN [op EXCEPT !.answer = [NoAnswer EXCEPT !.known = TRUE,
                     !.status = AcquireGranted(r.client, r.snapshot, r.takeover) /\ fence]]
             ELSE op
    /\ UNCHANGED <<linkVars, ownerVars, helpers, peerVars, hostVars>>

\* The callback of POST acquire: the old holders fail now, the new one waits.
AcquireReply ==
    /\ op.kind = "acquire"
    /\ op.answer.known
    /\ ReplyValid
    /\ IF op.answer.status
       THEN /\ Fail({k \in Holders : Alive(k)} \ {op.link})
            /\ op' = [op EXCEPT !.kind = "barrier",
                        !.display = IF displayLink = NoLink THEN "ok" ELSE "pending",
                        !.helper = IF clipboardLink \in helpers THEN clipboardLink ELSE NoLink]
       ELSE /\ op' = IdleOp
            /\ UNCHANGED <<phase, ownerVars, posted>>
    /\ UNCHANGED <<gateVars, linkFlags, linkLease, challenge, helpers, peerVars, hostVars>>

\* settleSessionDisplay reports, at the latest when its own timeout fires.  Only
\* the host that was asked acknowledges the restoration.
DisplaySettles(okay) ==
    /\ op.kind = "barrier"
    /\ op.display = "pending"
    /\ okay => op.run = hostRun
    /\ op' = [op EXCEPT !.display = IF okay THEN "ok" ELSE "failed"]
    /\ UNCHANGED <<gateVars, linkVars, ownerVars, posted, helpers, peerVars, hostVars>>

Finish(restored) ==
    /\ op' = IdleOp
    /\ IF restored /\ Alive(op.link) /\ Authorized(Owner[op.link])
       THEN /\ sessionLink' = op.link
            /\ sessionEpoch' = sessionEpoch + 1
            /\ admitted' = admitted \cup {op.link}
            /\ UNCHANGED posted
       ELSE /\ posted' = Post(ReleaseRequest(op.id))
            /\ UNCHANGED <<sessionLink, sessionEpoch, admitted>>
    /\ UNCHANGED <<gateVars, phase, optIn, lifecycle, linkLease, challenge, pending, asked,
                   displayLink, clipboardLink, helpers, peerVars, hostVars>>

BarrierIsReady == op.display # "pending" /\ op.helper \notin helpers

BarrierReady    == op.kind = "barrier" /\ BarrierIsReady /\ Finish(op.display = "ok")
BarrierDeadline == op.kind = "barrier" /\ ~BarrierIsReady /\ Finish(FALSE)

-----------------------------------------------------------------------------
(* Display and clipboard control of the session                            *)

\* display-resize.  It does not look at m_Revoking, but while a device is being
\* removed a trust update keeps the display unavailable (HostDisplay).
DisplayResize(l) ==
    /\ phase[l] = "open"
    /\ l # clipboardLink
    /\ Owner[l] \in granted
    /\ hostState = "up" /\ revoking = NoClient
    /\ displayLink \in {NoLink, l}
    /\ ~Busy
    /\ sessionLink \in {NoLink, l}
    /\ l \in optIn => l \in admitted
    /\ displayLink' = l
    /\ sessionEpoch' = IF displayLink = l THEN sessionEpoch ELSE sessionEpoch + 1
    /\ UNCHANGED <<gateVars, linkVars, sessionLink, clipboardLink, op, posted, helpers,
                   peerVars, hostVars>>

\* clipboard-start, and clipboard-v2-start which runs a helper process.
ClipboardStart(l, v2) ==
    /\ phase[l] = "open"
    /\ l # displayLink
    /\ clipboardLink = NoLink
    /\ Owner[l] \in granted \cap ClipboardClients
    /\ hostState # "down"
    /\ ~Busy
    /\ sessionLink # NoLink => Owner[sessionLink] = Owner[l]
    /\ clipboardLink' = l
    /\ sessionEpoch' = sessionEpoch + 1
    /\ helpers' = IF v2 THEN helpers \cup {l} ELSE helpers
    /\ UNCHANGED <<gateVars, linkVars, sessionLink, displayLink, op, posted, peerVars, hostVars>>

\* A helper ends with its link at the latest; one that ends first ends the link.
HelperExits(l) ==
    /\ l \in helpers
    /\ helpers' = helpers \ {l}
    /\ IF Alive(l) THEN Fail({l}) ELSE UNCHANGED <<phase, ownerVars, posted>>
    /\ UNCHANGED <<gateVars, linkFlags, linkLease, challenge, op, peerVars, hostVars>>

-----------------------------------------------------------------------------
(* Links that end                                                          *)

\* Any call of fail() for one link: a protocol error, a release by the client,
\* the 20 s and 150 s watchdogs.
LinkFails(l) ==
    /\ Alive(l)
    /\ Fail({l})
    /\ UNCHANGED <<gateVars, linkFlags, linkLease, challenge, op, helpers, peerVars, hostVars>>

\* The 15 s timer of a recovering session.
RecoveryTimeout(l) ==
    /\ phase[l] = "recovering"
    /\ LinkFails(l)

Recoverable(l) ==
    /\ l = sessionLink
    /\ l \in lifecycle \cap admitted
    /\ ~Busy
    /\ revoking # Owner[l]

\* The peer's socket is gone.
TransportLost(l) ==
    /\ phase[l] = "open"
    /\ IF Recoverable(l) /\ l # clipboardLink
       THEN LET interrupted == ClipboardOf(Owner[l])
            IN  /\ phase' = [k \in Links |-> IF k = l THEN "recovering"
                                ELSE IF k \in interrupted THEN "ended" ELSE phase[k]]
                /\ clipboardLink' = Cleared(clipboardLink, interrupted)
                /\ sessionEpoch' = sessionEpoch + Bump(clipboardLink, interrupted)
                /\ UNCHANGED <<sessionLink, displayLink, posted>>
       ELSE Fail({l})
    /\ UNCHANGED <<gateVars, linkFlags, linkLease, challenge, op, helpers, peerVars, hostVars>>

\* endpoint-query answers and ends the link itself, without fail().
EndpointQuery(l) ==
    /\ phase[l] = "open"
    /\ l \notin {displayLink, clipboardLink}
    /\ l = sessionLink => EndpointQueryOnSession
    /\ Owner[l] \in granted
    /\ phase' = [phase EXCEPT ![l] = "ended"]
    /\ UNCHANGED <<gateVars, linkFlags, linkLease, challenge, ownerVars, op, posted, helpers,
                   peerVars, hostVars>>

-----------------------------------------------------------------------------
(* Removing a device's access                                              *)

Revoke(c) ==
    /\ RevocationPossible
    /\ revoking = NoClient
    /\ c \in granted
    /\ Fail({k \in Holders : Alive(k) /\ Owner[k] = c})
    /\ revoking' = c
    /\ UNCHANGED <<gateVars, linkFlags, linkLease, challenge, op, helpers, granted, hostVars>>

\* The host's trust update ended.  It may have removed the certificate although
\* its answer was lost, and the removal may fail to be saved locally.
RevocationDone(removed, saved) ==
    /\ revoking # NoClient
    /\ IF removed THEN RemoveTrust(revoking) ELSE UNCHANGED gateVars
    /\ granted' = IF removed /\ saved THEN granted \ {revoking} ELSE granted
    /\ revoking' = NoClient
    /\ UNCHANGED <<linkVars, ownerVars, op, posted, helpers, hostVars>>

-----------------------------------------------------------------------------
(* The host process                                                        *)

MayStop == hostState = "up" /\ hostRun < 2 * MaxRestarts

\* sessionHostStopping closes the controllers before the process ends; they are
\* failed whether or not the stop is recoverable.
HostStopping ==
    /\ MayStop
    /\ hostState' = "stopping"
    /\ hostRun' = hostRun + 1
    /\ Fail({k \in Holders : Alive(k)})
    /\ UNCHANGED <<gateVars, linkFlags, linkLease, challenge, op, helpers, peerVars>>

\* The process died first: releases posted now go nowhere.
HostCrash ==
    /\ MayStop
    /\ hostState' = "exited"
    /\ hostRun' = hostRun + 1
    /\ FailLinks({k \in Holders : Alive(k)})
    /\ posted' = {}
    /\ ProcessExit
    /\ UNCHANGED <<linkFlags, linkLease, challenge, op, helpers, peerVars>>

ServerExit ==
    /\ hostState = "stopping"
    /\ hostState' = "exited"
    /\ posted' = {}
    /\ ProcessExit
    /\ UNCHANGED <<linkVars, ownerVars, op, helpers, peerVars, hostRun>>

HostStopped ==
    /\ hostState = "exited"
    /\ hostState' = "down"
    /\ UNCHANGED <<gateVars, linkVars, ownerVars, op, posted, helpers, peerVars, hostRun>>

HostStart ==
    /\ hostState = "down"
    /\ hostState' = "up"
    /\ hostRun' = hostRun + 1
    /\ UNCHANGED <<gateVars, linkVars, ownerVars, op, posted, helpers, peerVars>>

GateStep ==
    /\ ServerAlive
    /\ GateEnvironment
    /\ UNCHANGED <<linkVars, ownerVars, op, posted, helpers, peerVars, hostVars>>

-----------------------------------------------------------------------------
Request(l) ==
    \/ \E takeover \in BOOLEAN, token \in Tokens(Owner[l]) : SessionRequest(l, takeover, token)
    \/ RequestRefused(l) \/ VerifiedNothingToDo(l) \/ ResumeTransport(l) \/ QueryHost(l)
    \/ TakeoverStale(l) \/ TakeoverClaims(l) \/ TakeoverEndsBrowser(l)

\* What the callbacks, timeouts and the host do for an exchange with the host.  A
\* reply is certain to be missed only when the process that was asked is gone.
ExchangeStep ==
    \/ HostAnswersQuery \/ QueryReply
    \/ (op.run # hostRun \/ ~ServerAlive) /\ ReplyLost
    \/ \E r \in posted : r.lease = op.id /\ \E fence \in BOOLEAN : HostServesAcquire(r, fence)
    \/ AcquireReply
    \/ \E okay \in BOOLEAN : DisplaySettles(okay)
    \/ BarrierReady \/ BarrierDeadline

OperationStep == EndBrowserDone \/ ReplyLost \/ ExchangeStep

ServeRelease == \E r \in posted : HostServesRelease(r)

\* An acquire whose operation has given up on it.
ServeAbandoned ==
    \E r \in posted : r.lease # op.id /\ \E fence \in BOOLEAN : HostServesAcquire(r, fence)

LinkStep(l) ==
    \/ Request(l)
    \/ DisplayResize(l) \/ \E v2 \in BOOLEAN : ClipboardStart(l, v2)
    \/ HelperExits(l)
    \/ LinkFails(l) \/ RecoveryTimeout(l) \/ TransportLost(l) \/ EndpointQuery(l)

HostStep == HostStopping \/ HostCrash \/ ServerExit \/ HostStopped \/ HostStart

AccessStep ==
    \/ \E c \in Clients : Revoke(c)
    \/ \E removed, saved \in BOOLEAN : RevocationDone(removed, saved)

Next ==
    \/ \E l \in Links : LinkStep(l)
    \/ OperationStep \/ ServeRelease \/ ServeAbandoned
    \/ AccessStep \/ HostStep \/ GateStep

Spec == Init /\ [][Next]_vars

\* Callbacks and timers fire; a living host serves what reaches it; a stopped
\* process exits (it is killed after 2.5 s).  Nothing is assumed of clients,
\* of the user, of the gate's own environment, or of the browser supervisor:
\* the end of its session that a takeover waits for may never be reported
\* (MCClaimBrowserTakeover.cfg).
Fairness ==
    /\ WF_vars(ExchangeStep)
    /\ \A l \in Links : WF_vars(RecoveryTimeout(l)) /\ WF_vars(HelperExits(l))
    /\ WF_vars(ServeRelease) /\ WF_vars(ServeAbandoned)
    /\ WF_vars(ServerExit) /\ WF_vars(HostStopped)

FairSpec == Spec /\ Fairness

-----------------------------------------------------------------------------
(* Properties                                                              *)

\* Admission is exclusive and the owner pointers are accurate: they refer to
\* live links, and every live link that believes it is admitted is the session.
SoleAdmission ==
    /\ \A k \in Holders : Alive(k)
    /\ \A l \in Links : (Alive(l) /\ l \in admitted) => l = sessionLink
    /\ sessionLink # NoLink => sessionLink \in admitted
    /\ \A l \in Links : phase[l] = "recovering" => l = sessionLink

\* A claim in flight evicts nobody the confirming user was not asked about:
\* whoever holds the session, display or clipboard now held it when the
\* challenge was issued.
ConfirmedEviction == op.kind = "acquire" => Holders \subseteq op.against

\* A device whose access is removed, or being removed, holds no session,
\* however the removal interleaves with an admission in progress.
RevokedHoldsNoSession ==
    sessionLink # NoLink => Owner[sessionLink] \in granted \ {revoking}

\* While no takeover has been sent to it, and it is not being stopped, the host
\* process agrees with PeerManager on who owns the session: same lease, same
\* certificate, and no other device's stream.  A process that has replaced the
\* one that granted the lease knows nobody, or a browser, but no other device.
AdmittedOwnsHost ==
    (sessionLink # NoLink /\ op.kind # "acquire" /\ hostState # "stopping") =>
        \/ /\ lease = linkLease[sessionLink]
           /\ certificate = Owner[sessionLink]
           /\ \A s \in streams : s.client = Owner[sessionLink]
        \/ hostRun > 0 /\ certificate \in {NoClient, Browser}

\* A session changes hands only through its end: two links never own it in
\* consecutive states unless one device replaces its own transport, and then
\* the lease and an attached display stay with it.
HandOver ==
    [][ (sessionLink # NoLink /\ sessionLink' \notin {NoLink, sessionLink}) =>
            /\ Owner[sessionLink'] = Owner[sessionLink]
            /\ linkLease'[sessionLink'] = linkLease[sessionLink]
            /\ displayLink' = IF displayLink = sessionLink THEN sessionLink' ELSE displayLink
            /\ UNCHANGED <<lease, posted>> ]_vars

\* Every exchange with the host ends: no lost reply, missed fence, ended link or
\* replaced host leaves m_SessionOperation set, which would answer "busy" for
\* ever.  This holds of a takeover from a browser too once the browser's end has
\* been reported; that it is reported is not PeerManager's to ensure, and the
\* wait for it is left out here (TakeoverAnswered of BrowserHost is about it).
AwaitsHost == Busy /\ op.kind # "browser"
OperationCompletes == AwaitsHost ~> ~AwaitsHost

\* No reservation outlives its session: a lease PeerManager was told it had
\* got (the barrier began with it) does not stay at the host for ever when
\* nobody is admitted with it.  A lease whose grant it was never told of, because
\* the reply was lost or the fence was missed, does stay until a takeover.
Told(k) == op.kind = "barrier" /\ op.id = k
Orphaned(k) == lease = k /\ sessionLink = NoLink /\ ~Busy
NoOrphanedLease == \A k \in Leases : <>Told(k) => ~<>[]Orphaned(k)

\* The whole of it in one statement: SessionAdmission implements ExclusiveSession.
\* The owner is the session link, its lease the one the host is to be released
\* from, the claim the operation in progress, and a device being removed is
\* allowed nothing from the moment its removal starts.
Exclusive == INSTANCE ExclusiveSession WITH
    owner   <- sessionLink,
    held    <- IF sessionLink = NoLink THEN NoLease ELSE linkLease[sessionLink],
    claim   <- [link |-> op.link, lease |-> op.id],
    allowed <- granted \ {revoking}

ExclusiveSpec == Exclusive!Spec
=============================================================================

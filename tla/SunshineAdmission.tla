------------------------- MODULE SunshineAdmission -------------------------
(***************************************************************************)
(* The admission gate that DeskPort patches into the bundled Sunshine host *)
(* (host/overlays/patch-host-session-takeover.py and the browser           *)
(* reservation of host/browser/browser.cpp).  One recursive mutex          *)
(* serialises the loopback management API with the GameStream launch,      *)
(* resume and cancel handlers and with the final RTSP admission, so every  *)
(* operation below is one atomic action.                                   *)
(*                                                                         *)
(* A claim (acquire) is made by a lease token on behalf of a certificate.  *)
(* `generation' fences RTSP negotiations: a negotiation carries the        *)
(* generation current at its launch and may start a stream only while that *)
(* generation is still the current one.                                    *)
(***************************************************************************)
EXTENDS Naturals, FiniteSets

CONSTANTS
    Clients,        \* paired device certificates
    Leases,         \* lease tokens the supervisor may present
    Browser,        \* the pseudo-certificate "browser:<id>" of a browser session
    BrowserLease,   \* the id a browser reservation stores as its lease
    NoClient,       \* the empty certificate string
    NoLease,        \* the empty lease string
    MaxGeneration   \* bound: no launch, cancel or reservation beyond it

ASSUME GateConstants ==
    /\ MaxGeneration \in Nat
    /\ Browser \notin Clients
    /\ NoClient \notin Clients \cup {Browser}
    /\ BrowserLease \notin Leases
    /\ NoLease \notin Leases \cup {BrowserLease}

VARIABLES
    certificate,    \* deskport_admission::certificate
    lease,          \* deskport_admission::lease
    generation,     \* deskport_admission::generation
    negotiations,   \* launch sessions whose RTSP handshake has not finished
    streams,        \* running native streams (rtsp_stream sessions)
    browser,        \* browser::manager().session exists
    trusted,        \* enabled named_devices: certificates get_cert_by_uuid finds
    claimedAt       \* history: the generation at which the lease was last set

gateVars == <<certificate, lease, generation, negotiations, streams, browser,
              trusted, claimedAt>>

Certificates == Clients \cup {Browser, NoClient}
LeaseTokens  == Leases \cup {BrowserLease, NoLease}
Negotiations == [client : Clients, generation : Nat]

(* std::to_string(generation) + ":" + std::to_string(session_count())      *)
Snapshots  == Nat \X Nat
Snapshot   == <<generation, Cardinality(streams)>>

GateTypeOK ==
    /\ certificate \in Certificates
    /\ lease \in LeaseTokens
    /\ generation \in Nat
    /\ negotiations \subseteq Negotiations
    /\ streams \subseteq Negotiations
    /\ browser \in BOOLEAN
    /\ trusted \subseteq Clients
    /\ claimedAt \in Nat

GateInit ==
    /\ certificate = NoClient
    /\ lease = NoLease
    /\ generation = 0
    /\ negotiations = {}
    /\ streams = {}
    /\ browser = FALSE
    /\ trusted = Clients
    /\ claimedAt = 0

-----------------------------------------------------------------------------
(* GameStream handlers                                                     *)

(* The gate in front of launch, resume and cancel: with a claim in place   *)
(* only its certificate passes (409 otherwise).                            *)
OwnedBy(c) == certificate \in {NoClient, c}

(* Mutant: the session takes the claim's certificate, not the request's.   *)
NegotiationOfClaim(c) == [client |-> certificate, generation |-> generation + 1]

(* make_launch_session: bound to the verified request and this generation. *)
NewNegotiation(c) == [client |-> c, generation |-> generation + 1]

(* launch / resume: refused while a stream runs; otherwise a new           *)
(* generation, and a launch session that carries it.                       *)
Launch(c) ==
    /\ c \in trusted
    /\ OwnedBy(c)
    /\ streams = {}
    /\ generation' = generation + 1
    /\ negotiations' = negotiations \cup {NewNegotiation(c)}
    /\ UNCHANGED <<certificate, lease, streams, browser, trusted, claimedAt>>

(* cancel: fences pending negotiations and, depending on the Sunshine      *)
(* version under the patch, ends the running stream.                       *)
Cancel(c) ==
    /\ c \in trusted
    /\ OwnedBy(c)
    /\ generation' = generation + 1
    /\ streams' \in {streams, {}}
    /\ UNCHANGED <<certificate, lease, negotiations, browser, trusted, claimedAt>>

(* Mutant: RTSP admission without the generation.                          *)
RtspAdmitsAnyGeneration(n) ==
    /\ certificate \in {NoClient, n.client}
    /\ Cardinality(streams) = 0

(* Mutant: RTSP admission as it was before the patch.                      *)
RtspAdmitsUnfenced(n) == certificate \in {NoClient, n.client}

(* The last step of an RTSP handshake: a stream starts only when nothing   *)
(* was claimed or launched since the negotiation began.                    *)
RtspAdmits(n) ==
    /\ n.generation = generation
    /\ certificate \in {NoClient, n.client}
    /\ Cardinality(streams) = 0

RtspAnnounce(n) ==
    /\ n \in negotiations
    /\ negotiations' = negotiations \ {n}
    /\ streams' = IF RtspAdmits(n) THEN streams \cup {n} ELSE streams
    /\ UNCHANGED <<certificate, lease, generation, browser, trusted, claimedAt>>

(* A negotiation is abandoned or a stream ends on its own.                 *)
RtspDrop(n) ==
    /\ n \in negotiations
    /\ negotiations' = negotiations \ {n}
    /\ UNCHANGED <<certificate, lease, generation, streams, browser, trusted, claimedAt>>

StreamEnd(s) ==
    /\ s \in streams
    /\ streams' = streams \ {s}
    /\ UNCHANGED <<certificate, lease, generation, negotiations, browser, trusted, claimedAt>>

-----------------------------------------------------------------------------
(* Management API: POST /api/deskport/sessions                             *)

(* A second patch refuses every acquire while a browser holds the host.    *)
ReservedForBrowser == browser

(* The conditions under which acquire is granted, in the order in which    *)
(* the handler tests them: browser reservation ("busy"), certificate       *)
(* ("unauthorized"), snapshot ("stale"), occupancy ("busy").               *)
AcquireGranted(c, snapshot, takeover) ==
    /\ ~ReservedForBrowser
    /\ c \in trusted
    /\ snapshot = Snapshot
    /\ takeover \/ (streams = {} /\ lease = NoLease)

(* Mutant: the claim does not join the old streams.                        *)
ClaimKeepsStreams(c, l) ==
    /\ generation' = generation + 1
    /\ certificate' = c
    /\ lease' = l
    /\ claimedAt' = generation + 1
    /\ UNCHANGED <<negotiations, streams, browser, trusted>>

(* A granted acquire fences pending negotiations, records the new owner    *)
(* and joins every old stream.  It only then waits for the input fence, so *)
(* a fence that does not complete in time answers "unavailable" for a      *)
(* claim that stays in place (see HostServesAcquire).                      *)
Claim(c, l) ==
    /\ generation' = generation + 1
    /\ certificate' = c
    /\ lease' = l
    /\ streams' = {}
    /\ claimedAt' = generation + 1
    /\ UNCHANGED <<negotiations, browser, trusted>>

Acquire(c, l, snapshot, takeover) ==
    IF AcquireGranted(c, snapshot, takeover)
    THEN Claim(c, l)
    ELSE UNCHANGED gateVars

(* Mutant: release does not look at the lease it is given.                 *)
OwnsAnyLease(l) == lease # NoLease

OwnsLease(l) == lease # NoLease /\ l = lease

(* release compares the lease and ignores a token that is not the owner's. *)
ReleaseLease(l) ==
    IF OwnsLease(l)
    THEN /\ certificate' = NoClient
         /\ lease' = NoLease
         /\ generation' = generation + 1
         /\ UNCHANGED <<negotiations, streams, browser, trusted, claimedAt>>
    ELSE UNCHANGED gateVars

(* deskport_update_trust(remove): persists, then changes live              *)
(* authorization; it neither ends streams nor touches the claim.           *)
RemoveTrust(c) ==
    /\ trusted' = trusted \ {c}
    /\ UNCHANGED <<certificate, lease, generation, negotiations, streams, browser, claimedAt>>

-----------------------------------------------------------------------------
(* Browser reservation (browser.cpp, action "reserve" and Manager::release)*)

BrowserReserve ==
    /\ ~browser /\ lease = NoLease /\ streams = {}
    /\ browser' = TRUE
    /\ certificate' = Browser
    /\ lease' = BrowserLease
    /\ generation' = generation + 1
    /\ claimedAt' = generation + 1
    /\ UNCHANGED <<negotiations, streams, trusted>>

(* Mutant: the session is reset without giving up its claim.               *)
BrowserForgets ==
    /\ browser
    /\ browser' = FALSE
    /\ UNCHANGED <<certificate, lease, generation, negotiations, streams, trusted, claimedAt>>

BrowserRelease ==
    /\ browser
    /\ browser' = FALSE
    /\ IF lease = BrowserLease
       THEN /\ certificate' = NoClient
            /\ lease' = NoLease
            /\ generation' = generation + 1
       ELSE UNCHANGED <<certificate, lease, generation>>
    /\ UNCHANGED <<negotiations, streams, trusted, claimedAt>>

(* The Sunshine process is gone: a new one starts from empty globals.      *)
(* Its paired-device file survives.                                        *)
ProcessExit ==
    /\ certificate' = NoClient
    /\ lease' = NoLease
    /\ generation' = 0
    /\ negotiations' = {}
    /\ streams' = {}
    /\ browser' = FALSE
    /\ claimedAt' = 0
    /\ UNCHANGED trusted

-----------------------------------------------------------------------------
(* The steps clients and the browser supervisor take without PeerManager.  *)
GateEnvironment ==
    \/ \E c \in Clients : generation < MaxGeneration /\ (Launch(c) \/ Cancel(c))
    \/ \E n \in negotiations : RtspAnnounce(n) \/ RtspDrop(n)
    \/ \E s \in streams : StreamEnd(s)
    \/ generation < MaxGeneration /\ BrowserReserve
    \/ BrowserRelease

(* The gate on its own, driven by an arbitrary supervisor: it may present  *)
(* any certificate, lease and snapshot, current or stale.                  *)
GateNext ==
    \/ GateEnvironment
    \/ \E c \in Clients, l \in Leases, g \in 0..MaxGeneration, n \in {0, 1},
          takeover \in BOOLEAN : Acquire(c, l, <<g, n>>, takeover)
    \/ \E l \in Leases : ReleaseLease(l)
    \/ \E c \in Clients : RemoveTrust(c)
    \/ ProcessExit

GateSpec == GateInit /\ [][GateNext]_gateVars

-----------------------------------------------------------------------------
(* Properties                                                              *)

(* "Generation fencing rejects older pending RTSP negotiations"            *)
(* (docs/SESSION_TAKEOVER.md): while a claim is in place, every running    *)
(* stream belongs to the claiming certificate and was negotiated after the *)
(* claim, even when the same device claimed before.                        *)
FencedStreams ==
    certificate # NoClient =>
        \A s \in streams : s.client = certificate /\ s.generation >= claimedAt

(* At most one stream runs whatever launches, negotiations and claims      *)
(* interleave, so a joined takeover never leaves a second encoder or input *)
(* context behind.                                                         *)
OneStream == \A s, t \in streams : s = t

(* The certificate and the lease are set and cleared together: a gate that *)
(* refuses launches always has a lease somebody can present to release it, *)
(* and a browser claim always has the reservation that will release it.    *)
ClaimConsistent ==
    /\ (certificate = NoClient) <=> (lease = NoLease)
    /\ (certificate = Browser) <=> (lease = BrowserLease)
    /\ certificate = Browser => browser
=============================================================================

----------------------- MODULE SessionAdmission_proofs -----------------------
(***************************************************************************)
(* Proofs about the admission gate and about PeerManager composed with it, *)
(* for any number of devices, connections, requests and host restarts.     *)
(*                                                                         *)
(* The first part is about SunshineAdmission under any supervisor.  Its    *)
(* fence alone is not inductive.  That a stream admitted now is newer than *)
(* the claim rests on `NoneAhead': no claim carries a generation the gate  *)
(* has not reached.  That no second stream starts rests on counting a      *)
(* finite set.  The second part is about the types of SessionAdmission,    *)
(* whose actions keep the invariant of the gate.                           *)
(*                                                                         *)
(* The third part shows that the session has one owner and that a takeover *)
(* evicts only whom its user was asked about.                              *)
(* SoleAdmission is not inductive.  Finish makes op.link the session       *)
(* without looking at the pointer it overwrites, which is sound only       *)
(* because AcquireReply cleared it (BarrierExclusive) and nothing may set  *)
(* it while the operation lasts; and failing the clipboard of a device     *)
(* must not end the link its display is on (RolesApart).                   *)
(***************************************************************************)
EXTENDS SessionAdmission, FiniteSetTheorems, TLAPS

-----------------------------------------------------------------------------
(* The gate                                                                *)

\* No claim, negotiation or stream is ahead of the current generation.
NoneAhead ==
    /\ claimedAt <= generation
    /\ \A n \in negotiations \cup streams : n.generation <= generation

GateInv ==
    /\ GateTypeOK
    /\ IsFiniteSet(streams)
    /\ NoneAhead
    /\ FencedStreams
    /\ OneStream
    /\ ClaimConsistent

USE DEF Certificates, LeaseTokens, Negotiations

-----------------------------------------------------------------------------
(* One lemma per operation of the gate.                                    *)

\* No claim looks like an idle gate, or like a browser's when it is a client's.
LEMMA NullsAreApart ==
    /\ NoClient # Browser /\ NoLease # BrowserLease
    /\ NoClient \notin Clients /\ Browser \notin Clients
    /\ NoLease \notin Leases /\ BrowserLease \notin Leases
BY GateConstants

\* The gate starts idle.
LEMMA GateInvInit == GateInit => GateInv
<1> SUFFICES ASSUME GateInit PROVE GateInv
    OBVIOUS
<1>1. IsFiniteSet(streams)
    BY FS_EmptySet DEF GateInit
<1>2. GateTypeOK
    BY DEF GateInit, GateTypeOK
<1>3. NoneAhead /\ FencedStreams /\ OneStream
    BY DEF GateInit, NoneAhead, FencedStreams, OneStream
<1>4. ClaimConsistent
    BY NullsAreApart DEF GateInit, ClaimConsistent
<1> QED
    BY <1>1, <1>2, <1>3, <1>4 DEF GateInv

\* Launch and resume: the new negotiation is bound to a generation of its own.
LEMMA GateInvLaunch ==
    ASSUME GateInv, NEW c \in Clients, Launch(c)
    PROVE  GateInv'
<1>1. NewNegotiation(c) \in Negotiations
    BY DEF NewNegotiation, GateInv, GateTypeOK
<1>2. GateTypeOK'
    BY <1>1 DEF Launch, GateInv, GateTypeOK
<1>3. NoneAhead'
    BY DEF Launch, NewNegotiation, NoneAhead, GateInv, GateTypeOK
<1> QED
    BY <1>2, <1>3 DEF Launch, GateInv, FencedStreams, OneStream, ClaimConsistent

\* Cancel: every stream that survives was there before.
LEMMA GateInvCancel ==
    ASSUME GateInv, NEW c \in Clients, Cancel(c)
    PROVE  GateInv'
<1>1. IsFiniteSet(streams')
    BY FS_EmptySet DEF Cancel, GateInv
<1>2. GateTypeOK'
    BY DEF Cancel, GateInv, GateTypeOK
<1>3. NoneAhead'
    BY DEF Cancel, NoneAhead, GateInv, GateTypeOK
<1> QED
    BY <1>1, <1>2, <1>3 DEF Cancel, GateInv, FencedStreams, OneStream, ClaimConsistent

\* RTSP admission: a stream starts only when none runs, for the claim's owner
\* and in the generation that is current, which no claim is ahead of.
LEMMA GateInvAnnounce ==
    ASSUME GateInv, NEW n \in negotiations, RtspAnnounce(n)
    PROVE  GateInv'
<1>1. CASE RtspAdmits(n)
    <2>1. streams = {}
        BY <1>1, FS_EmptySet DEF RtspAdmits, GateInv
    <2>2. streams' = {n}
        BY <1>1, <2>1 DEF RtspAnnounce
    <2>3. IsFiniteSet(streams')
        BY <2>2, FS_Singleton
    <2>4. GateTypeOK' /\ NoneAhead'
        BY <2>2 DEF RtspAnnounce, GateInv, GateTypeOK, NoneAhead
    <2>5. FencedStreams'
        BY <1>1, <2>2 DEF RtspAnnounce, RtspAdmits, GateInv, GateTypeOK, NoneAhead, FencedStreams
    <2> QED
        BY <2>2, <2>3, <2>4, <2>5 DEF RtspAnnounce, GateInv, OneStream, ClaimConsistent
<1>2. CASE ~RtspAdmits(n)
    BY <1>2 DEF RtspAnnounce, GateInv, GateTypeOK, NoneAhead, FencedStreams, OneStream,
       ClaimConsistent
<1> QED
    BY <1>1, <1>2

\* A negotiation or a stream that ends leaves less to be fenced.
LEMMA GateInvDrop ==
    ASSUME GateInv,
           \/ \E n \in negotiations : RtspDrop(n)
           \/ \E s \in streams : StreamEnd(s)
    PROVE  GateInv'
<1>1. streams' \subseteq streams /\ negotiations' \subseteq negotiations
    BY DEF RtspDrop, StreamEnd
<1>2. IsFiniteSet(streams')
    BY <1>1, FS_Subset DEF GateInv
<1>3. UNCHANGED <<certificate, lease, generation, browser, trusted, claimedAt>>
    BY DEF RtspDrop, StreamEnd
<1> QED
    BY <1>1, <1>2, <1>3 DEF GateInv, GateTypeOK, NoneAhead, FencedStreams, OneStream,
       ClaimConsistent

\* A granted acquire: the old streams are gone before the claim stands.
LEMMA GateInvClaim ==
    ASSUME GateInv, NEW c \in Clients, NEW l \in Leases, ~browser, Claim(c, l)
    PROVE  GateInv'
<1>1. IsFiniteSet(streams')
    BY FS_EmptySet DEF Claim
<1>2. GateTypeOK'
    BY DEF Claim, GateInv, GateTypeOK
<1>3. NoneAhead' /\ FencedStreams' /\ OneStream'
    BY DEF Claim, GateInv, GateTypeOK, NoneAhead, FencedStreams, OneStream
<1>4. ClaimConsistent'
    BY NullsAreApart DEF Claim, ClaimConsistent
<1> QED
    BY <1>1, <1>2, <1>3, <1>4 DEF GateInv

\* An acquire that is refused changes nothing.
LEMMA GateInvAcquire ==
    ASSUME GateInv, NEW c \in Clients, NEW l \in Leases, NEW snapshot, NEW takeover \in BOOLEAN,
           Acquire(c, l, snapshot, takeover)
    PROVE  GateInv'
<1>1. CASE AcquireGranted(c, snapshot, takeover)
    BY <1>1, GateInvClaim DEF Acquire, AcquireGranted, ReservedForBrowser
<1>2. CASE ~AcquireGranted(c, snapshot, takeover)
    BY <1>2 DEF Acquire, gateVars, GateInv, GateTypeOK, NoneAhead, FencedStreams, OneStream,
       ClaimConsistent
<1> QED
    BY <1>1, <1>2

\* Release: certificate and lease go together.
LEMMA GateInvRelease ==
    ASSUME GateInv, NEW l \in Leases \cup {NoLease}, ReleaseLease(l)
    PROVE  GateInv'
<1>1. CASE OwnsLease(l)
    <2>1. GateTypeOK' /\ NoneAhead'
        BY <1>1 DEF ReleaseLease, GateInv, GateTypeOK, NoneAhead
    <2>2. ClaimConsistent'
        BY <1>1, NullsAreApart DEF ReleaseLease, ClaimConsistent
    <2> QED
        BY <1>1, <2>1, <2>2 DEF ReleaseLease, GateInv, FencedStreams, OneStream
<1>2. CASE ~OwnsLease(l)
    BY <1>2 DEF ReleaseLease, gateVars, GateInv, GateTypeOK, NoneAhead, FencedStreams, OneStream,
       ClaimConsistent
<1> QED
    BY <1>1, <1>2

\* The browser's reservation and its release.
LEMMA GateInvBrowser ==
    ASSUME GateInv, BrowserReserve \/ BrowserRelease
    PROVE  GateInv'
<1>1. CASE BrowserReserve
    <2>1. GateTypeOK' /\ NoneAhead'
        BY <1>1 DEF BrowserReserve, GateInv, GateTypeOK, NoneAhead
    <2>2. ClaimConsistent'
        BY <1>1, NullsAreApart DEF BrowserReserve, ClaimConsistent
    <2> QED
        BY <1>1, <2>1, <2>2 DEF BrowserReserve, GateInv, FencedStreams, OneStream
<1>2. CASE BrowserRelease
    <2>1. GateTypeOK' /\ NoneAhead'
        <3>1. generation' \in Nat /\ generation <= generation'
            BY <1>2 DEF BrowserRelease, GateInv, GateTypeOK
        <3>2. certificate' \in Certificates /\ lease' \in LeaseTokens
            BY <1>2 DEF BrowserRelease, GateInv, GateTypeOK
        <3>3. browser' \in BOOLEAN /\ UNCHANGED <<negotiations, streams, trusted, claimedAt>>
            BY <1>2 DEF BrowserRelease
        <3> QED
            BY <3>1, <3>2, <3>3 DEF GateInv, GateTypeOK, NoneAhead
    <2>2. ClaimConsistent'
        <3>1. CASE lease = BrowserLease
            BY <1>2, <3>1, NullsAreApart DEF BrowserRelease, ClaimConsistent
        <3>2. CASE lease # BrowserLease
            <4>1. certificate # Browser /\ UNCHANGED <<certificate, lease>>
                BY <1>2, <3>2 DEF BrowserRelease, GateInv, ClaimConsistent
            <4> QED
                BY <3>2, <4>1 DEF GateInv, ClaimConsistent
        <3> QED
            BY <3>1, <3>2
    <2> QED
        BY <1>2, <2>1, <2>2 DEF BrowserRelease, GateInv, FencedStreams, OneStream
<1> QED
    BY <1>1, <1>2

\* Trust removal touches neither claim nor streams; an exit leaves nothing.
LEMMA GateInvRemoveTrust ==
    ASSUME GateInv, NEW c \in Clients, RemoveTrust(c)
    PROVE  GateInv'
BY DEF RemoveTrust, GateInv, GateTypeOK, NoneAhead, FencedStreams, OneStream, ClaimConsistent

\* A new process starts from empty globals.
LEMMA GateInvProcessExit ==
    ASSUME GateInv, ProcessExit
    PROVE  GateInv'
<1>1. IsFiniteSet(streams')
    BY FS_EmptySet DEF ProcessExit
<1>2. GateTypeOK'
    BY DEF ProcessExit, GateInv, GateTypeOK
<1>3. NoneAhead' /\ FencedStreams' /\ OneStream'
    BY DEF ProcessExit, NoneAhead, FencedStreams, OneStream
<1>4. ClaimConsistent'
    BY NullsAreApart DEF ProcessExit, ClaimConsistent
<1> QED
    BY <1>1, <1>2, <1>3, <1>4 DEF GateInv

\* What clients and the browser supervisor do on their own.
LEMMA GateInvEnvironment ==
    ASSUME GateInv, GateEnvironment
    PROVE  GateInv'
BY GateInvLaunch, GateInvCancel, GateInvAnnounce, GateInvDrop, GateInvBrowser
   DEF GateEnvironment

-----------------------------------------------------------------------------
(* The theorems about the gate                                             *)

\* Every step of the gate preserves the invariant.
LEMMA GateInvStep == GateInv /\ [GateNext]_gateVars => GateInv'
<1> SUFFICES ASSUME GateInv, [GateNext]_gateVars PROVE GateInv'
    OBVIOUS
<1>1. CASE GateEnvironment
    BY <1>1, GateInvEnvironment
<1>2. ASSUME NEW c \in Clients, NEW l \in Leases, NEW g \in 0..MaxGeneration, NEW n \in {0, 1},
             NEW takeover \in BOOLEAN, Acquire(c, l, <<g, n>>, takeover)
      PROVE  GateInv'
    BY <1>2, GateInvAcquire
<1>3. ASSUME NEW l \in Leases, ReleaseLease(l)
      PROVE  GateInv'
    BY <1>3, GateInvRelease
<1>4. ASSUME NEW c \in Clients, RemoveTrust(c)
      PROVE  GateInv'
    BY <1>4, GateInvRemoveTrust
<1>5. CASE ProcessExit
    BY <1>5, GateInvProcessExit
<1>6. CASE UNCHANGED gateVars
    BY <1>6 DEF gateVars, GateInv, GateTypeOK, NoneAhead, FencedStreams, OneStream,
       ClaimConsistent
<1> QED
    BY <1>1, <1>2, <1>3, <1>4, <1>5, <1>6 DEF GateNext

\* The gate keeps its invariant under any supervisor, however stale the
\* certificates, leases and snapshots it presents.
THEOREM GateInvariant == GateSpec => []GateInv
BY GateInvInit, GateInvStep, PTL DEF GateSpec

\* The gate's state is well-typed.
THEOREM GateTyped == GateSpec => []GateTypeOK
<1>1. GateInv => GateTypeOK
    BY DEF GateInv
<1> QED
    BY <1>1, GateInvariant, PTL

\* While a claim stands, only its owner's streams run, and only streams that
\* were negotiated after it: generation fencing works for any history.
THEOREM GateFences == GateSpec => []FencedStreams
<1>1. GateInv => FencedStreams
    BY DEF GateInv
<1> QED
    BY <1>1, GateInvariant, PTL

\* At most one stream runs, whatever launches and claims interleave.
THEOREM GateRunsOneStream == GateSpec => []OneStream
<1>1. GateInv => OneStream
    BY DEF GateInv
<1> QED
    BY <1>1, GateInvariant, PTL

\* Certificate and lease are claimed and released together, so a gate that
\* refuses launches can always be released by someone.
THEOREM GateClaimConsistent == GateSpec => []ClaimConsistent
<1>1. GateInv => ClaimConsistent
    BY DEF GateInv
<1> QED
    BY <1>1, GateInvariant, PTL

HIDE DEF Certificates, LeaseTokens, Negotiations

-----------------------------------------------------------------------------
(* The supervisor                                                          *)

\* The types of PeerManager's own state, and the invariant of the gate.
SupervisorTypeOK == LinkTypeOK /\ OwnerTypeOK /\ SystemTypeOK
TypeInv == GateInv /\ SupervisorTypeOK

-----------------------------------------------------------------------------
(* Lemmas about the operators the actions are built from                   *)

\* The null values of the supervisor are apart from what they stand for.
LEMMA SessionNulls ==
    /\ NoLink \notin Links
    /\ Owner \in [Links -> Clients]
    /\ NoLease = 0 /\ 0 \notin Leases /\ Leases \subseteq Nat
BY AdmissionConstants

\* What the host reports of itself is a well-typed snapshot.
LEMMA SnapshotTyped == GateInv => Snapshot \in Snapshots
BY FS_CardinalityType DEF GateInv, GateTypeOK, Snapshot, Snapshots

\* An operation in progress is a well-typed record with a link and a lease.
LEMMA BusyTyped ==
    ASSUME SystemTypeOK, op.kind # "idle"
    PROVE  op \in Operations
BY DEF SystemTypeOK, IdleOp

\* A request is posted, or dropped when no process is there to take it.
LEMMA PostTyped ==
    ASSUME SystemTypeOK, NEW request \in AcquireRequests \cup ReleaseRequests
    PROVE  Post(request) \subseteq AcquireRequests \cup ReleaseRequests
BY DEF SystemTypeOK, Post

\* fail() keeps the pointers and the epoch well-typed.
LEMMA FailLinksTyped ==
    ASSUME LinkTypeOK, OwnerTypeOK, NEW F \in SUBSET Links, FailLinks(F)
    PROVE  /\ phase' \in [Links -> {"open", "recovering", "ended"}]
           /\ OwnerTypeOK'
<1>1. phase' \in [Links -> {"open", "recovering", "ended"}]
    BY DEF LinkTypeOK, FailLinks
<1>2. /\ sessionLink' \in Links \cup {NoLink}
      /\ displayLink' \in Links \cup {NoLink}
      /\ clipboardLink' \in Links \cup {NoLink}
    BY DEF OwnerTypeOK, FailLinks, Cleared
<1>3. \A p : Bump(p, F) \in Nat
    BY DEF Bump
<1>4. sessionEpoch' \in Nat
    <2>1. sessionEpoch \in Nat
        BY DEF OwnerTypeOK
    <2>2. sessionEpoch' = sessionEpoch + Bump(sessionLink, F) + Bump(displayLink, F)
                            + Bump(clipboardLink, F)
        BY DEF FailLinks
    <2> QED
        BY <1>3, <2>1, <2>2
<1> QED
    BY <1>1, <1>2, <1>4 DEF OwnerTypeOK

\* Failing links, with the release of the session's lease.
LEMMA FailTyped ==
    ASSUME LinkTypeOK, OwnerTypeOK, SystemTypeOK, NEW F \in SUBSET Links, Fail(F)
    PROVE  /\ phase' \in [Links -> {"open", "recovering", "ended"}]
           /\ OwnerTypeOK'
           /\ posted' \subseteq AcquireRequests \cup ReleaseRequests
<1>1. FailLinks(F)
    BY DEF Fail
<1>2. ASSUME sessionLink \in F
      PROVE  ReleaseRequest(linkLease[sessionLink]) \in AcquireRequests \cup ReleaseRequests
    BY <1>2 DEF LinkTypeOK, ReleaseRequest, ReleaseRequests
<1>3. posted' \subseteq AcquireRequests \cup ReleaseRequests
    BY <1>2, PostTyped DEF Fail, SystemTypeOK
<1> QED
    BY <1>1, <1>3, FailLinksTyped

\* A verified request is a real one, and leaves the link's flags well-typed.
LEMMA VerifiedTyped ==
    ASSUME LinkTypeOK, NEW l \in Links, Verified(l)
    PROVE  /\ pending[l] \in Requests
           /\ pending' \in [Links -> Requests \cup {NoRequest}]
           /\ optIn' \subseteq Links /\ lifecycle' \subseteq Links
           /\ asked' \in 0..MaxRequests
           /\ UNCHANGED <<granted, revoking, hostState, hostRun, helpers, gateVars>>
BY DEF LinkTypeOK, Verified, peerVars, hostVars

\* A new lease, and the acquire operation that carries it.
LEMMA StartAcquireTyped ==
    ASSUME TypeInv, NEW l \in Links, NEW id \in Leases, NEW snapshot \in Snapshots,
           NEW takeover \in BOOLEAN, NEW against \in SUBSET Links,
           StartAcquire(l, id, snapshot, takeover, against)
    PROVE  /\ linkLease' \in [Links -> Leases \cup {NoLease}]
           /\ posted' \subseteq AcquireRequests \cup ReleaseRequests
           /\ op' \in Operations \cup {IdleOp}
<1>1. linkLease' \in [Links -> Leases \cup {NoLease}]
    BY DEF StartAcquire, TypeInv, SupervisorTypeOK, LinkTypeOK
<1>2. AcquireRequest(l, id, snapshot, takeover) \in AcquireRequests
    BY SessionNulls DEF AcquireRequest, AcquireRequests
<1>3. posted' \subseteq AcquireRequests \cup ReleaseRequests
    BY <1>2, PostTyped DEF StartAcquire, TypeInv, SupervisorTypeOK
<1>4. op' \in Operations \cup {IdleOp}
    <2>1. NoAnswer \in Answers
        BY DEF NoAnswer, Answers, Snapshots
    <2>2. hostRun \in Nat
        BY DEF TypeInv, SupervisorTypeOK, SystemTypeOK
    <2>3. CASE hostState = "down"
        BY <2>3 DEF StartAcquire
    <2>4. CASE hostState # "down"
        <3>1. op' = [kind |-> "acquire", link |-> l, id |-> id, takeover |-> takeover,
                     run |-> hostRun, against |-> against, answer |-> NoAnswer,
                     helper |-> NoLink, display |-> "ok"]
            BY <2>4 DEF StartAcquire, IdleOp
        <3> QED
            BY <2>1, <2>2, <3>1 DEF Operations, Kinds
    <2> QED
        BY <2>3, <2>4
<1> QED
    BY <1>1, <1>3, <1>4

-----------------------------------------------------------------------------
(* Type correctness: one lemma per group of actions                        *)

\* Requests: what a received message and its topology check leave behind.
LEMMA TypedSessionRequest ==
    ASSUME TypeInv, NEW l \in Links, NEW takeover \in BOOLEAN, NEW token \in Tokens(Owner[l]),
           SessionRequest(l, takeover, token)
    PROVE  SupervisorTypeOK'
<1> USE DEF TypeInv, SupervisorTypeOK
<1>1. token \in Leases \cup {NoLease}
    BY DEF Tokens, LinkTypeOK
<1>2. asked + 1 \in Leases /\ asked' \in 0..MaxRequests
    BY AdmissionConstants DEF SessionRequest, LinkTypeOK
<1>3. (IF takeover THEN challenge[l].id ELSE 0) \in Leases \cup {0}
    BY DEF LinkTypeOK, Challenges
<1>4. [id |-> asked + 1, takeover |-> takeover,
       lifecycle |-> ~takeover /\ Owner[l] \in LifecycleClients,
       token |-> token, challenge |-> IF takeover THEN challenge[l].id ELSE 0] \in Requests
    BY <1>1, <1>2, <1>3 DEF Requests
<1>5. pending' \in [Links -> Requests \cup {NoRequest}]
    BY <1>4 DEF SessionRequest, LinkTypeOK
<1> QED
    BY <1>2, <1>5 DEF SessionRequest, LinkTypeOK, OwnerTypeOK, SystemTypeOK, ownerVars, peerVars,
       hostVars

\* A request that is refused, or that finds nothing to do.
LEMMA TypedRefusal ==
    ASSUME TypeInv, NEW l \in Links, RequestRefused(l) \/ VerifiedNothingToDo(l)
    PROVE  SupervisorTypeOK'
<1> USE DEF TypeInv, SupervisorTypeOK
<1>1. CASE RequestRefused(l)
    BY <1>1 DEF RequestRefused, LinkTypeOK, OwnerTypeOK, SystemTypeOK, ownerVars, peerVars, hostVars
<1>2. CASE VerifiedNothingToDo(l)
    BY <1>2, VerifiedTyped DEF VerifiedNothingToDo, LinkTypeOK, OwnerTypeOK, SystemTypeOK, ownerVars
<1> QED
    BY <1>1, <1>2

\* Resuming moves the lease and the display to the new link.
LEMMA TypedResume ==
    ASSUME TypeInv, NEW l \in Links, ResumeTransport(l)
    PROVE  SupervisorTypeOK'
<1> USE DEF TypeInv, SupervisorTypeOK
<1>1. Verified(l) /\ Resumes(l)
    BY DEF ResumeTransport
<1>2. sessionLink \in Links
    BY <1>1 DEF Resumes, OwnerTypeOK
<1>3. phase' \in [Links -> {"open", "recovering", "ended"}]
    BY DEF ResumeTransport, LinkTypeOK
<1>4. linkLease' \in [Links -> Leases \cup {NoLease}]
    BY <1>2 DEF ResumeTransport, LinkTypeOK
<1>5. sessionEpoch' \in Nat
    BY DEF ResumeTransport, OwnerTypeOK, Bump
<1>6. OwnerTypeOK'
    BY <1>5 DEF ResumeTransport, OwnerTypeOK, Cleared, Moved
<1>7. LinkTypeOK'
    BY <1>1, <1>3, <1>4, VerifiedTyped DEF ResumeTransport, LinkTypeOK
<1> QED
    BY <1>1, <1>6, <1>7, VerifiedTyped DEF ResumeTransport, SystemTypeOK

\* The query that begins an operation.
LEMMA TypedQueryHost ==
    ASSUME TypeInv, NEW l \in Links, QueryHost(l)
    PROVE  SupervisorTypeOK'
<1> USE DEF TypeInv, SupervisorTypeOK
<1>1. Verified(l) /\ UNCHANGED <<phase, admitted, ownerVars>>
    BY DEF QueryHost, Proceeds
<1>2. op' \in Operations
    BY <1>1, VerifiedTyped DEF QueryHost, Operations, Kinds, IdleOp, NoAnswer, Answers, Snapshots,
       Requests, SystemTypeOK
<1> QED
    BY <1>1, <1>2, VerifiedTyped DEF QueryHost, LinkTypeOK, OwnerTypeOK, SystemTypeOK, ownerVars

\* A takeover consumes its challenge whatever comes of it.
LEMMA TypedTakeover ==
    ASSUME TypeInv, NEW l \in Links,
           TakeoverStale(l) \/ TakeoverClaims(l) \/ TakeoverEndsBrowser(l)
    PROVE  SupervisorTypeOK'
<1> USE DEF TypeInv, SupervisorTypeOK
<1>1. Takeover(l)
    BY DEF TakeoverStale, TakeoverClaims, TakeoverEndsBrowser
<1>2. Verified(l) /\ UNCHANGED <<phase, admitted, ownerVars>>
    BY <1>1 DEF Takeover, Proceeds
<1>3. challenge' \in [Links -> Challenges]
    BY <1>1 DEF Takeover, LinkTypeOK, NoChallenge, Challenges, Snapshots
<1>4. challenge[l] \in Challenges
    BY DEF LinkTypeOK
<1>5. /\ linkLease' \in [Links -> Leases \cup {NoLease}]
      /\ posted' \subseteq AcquireRequests \cup ReleaseRequests
      /\ op' \in Operations \cup {IdleOp}
    <2>1. CASE TakeoverStale(l)
        BY <2>1 DEF TakeoverStale, LinkTypeOK, SystemTypeOK
    <2>2. CASE TakeoverClaims(l)
        BY <1>2, <1>4, <2>2, VerifiedTyped, StartAcquireTyped DEF TakeoverClaims, Challenges, Requests
    <2>3. CASE TakeoverEndsBrowser(l)
        BY <1>2, <1>4, <2>3, VerifiedTyped DEF TakeoverEndsBrowser, LinkTypeOK, SystemTypeOK,
           Operations, Kinds, IdleOp, NoAnswer, Answers, Snapshots, Requests, Challenges
    <2> QED
        BY <2>1, <2>2, <2>3
<1> QED
    BY <1>2, <1>3, <1>5, VerifiedTyped DEF LinkTypeOK, OwnerTypeOK, SystemTypeOK, ownerVars

\* Callbacks of the operation that change only `op'.
LEMMA TypedAnswer ==
    ASSUME TypeInv,
           \/ EndBrowserDone \/ HostAnswersQuery \/ ReplyLost
           \/ \E okay \in BOOLEAN : DisplaySettles(okay)
    PROVE  SupervisorTypeOK'
<1> USE DEF TypeInv, SupervisorTypeOK
<1>1. op \in Operations
    BY BusyTyped DEF EndBrowserDone, HostAnswersQuery, ReplyLost, DisplaySettles
<1>2. UNCHANGED <<linkVars, ownerVars, posted, helpers, peerVars, hostVars>>
    BY DEF EndBrowserDone, HostAnswersQuery, ReplyLost, DisplaySettles
<1>3. op' \in Operations \cup {IdleOp}
    <2>1. CASE EndBrowserDone
        BY <1>1, <2>1 DEF EndBrowserDone, Operations, Kinds, SystemTypeOK
    <2>2. CASE HostAnswersQuery
        <3>1. [known |-> TRUE, status |-> TRUE, snapshot |-> Snapshot,
               reserved |-> lease # NoLease] \in Answers
            BY SnapshotTyped DEF Answers
        <3> QED
            BY <1>1, <2>2, <3>1 DEF HostAnswersQuery, Operations
    <2>3. CASE ReplyLost
        BY <2>3 DEF ReplyLost
    <2>4. CASE \E okay \in BOOLEAN : DisplaySettles(okay)
        BY <1>1, <2>4 DEF DisplaySettles, Operations
    <2> QED
        BY <2>1, <2>2, <2>3, <2>4
<1> QED
    BY <1>2, <1>3 DEF LinkTypeOK, OwnerTypeOK, SystemTypeOK, linkVars, ownerVars, peerVars, hostVars

\* The reply to the query: abandoned, a challenge, or an acquire.
LEMMA TypedQueryReply ==
    ASSUME TypeInv, QueryReply
    PROVE  SupervisorTypeOK'
<1> USE DEF TypeInv, SupervisorTypeOK
<1>1. op \in Operations
    BY BusyTyped DEF QueryReply
<1>2. op.answer.snapshot \in Snapshots
    BY <1>1 DEF Operations, Answers
<1>3. /\ challenge' \in [Links -> Challenges]
      /\ linkLease' \in [Links -> Leases \cup {NoLease}]
      /\ posted' \subseteq AcquireRequests \cup ReleaseRequests
      /\ op' \in Operations \cup {IdleOp}
    <2>1. CASE op' = IdleOp /\ UNCHANGED <<challenge, linkLease, posted>>
        BY <2>1 DEF LinkTypeOK, SystemTypeOK
    <2>2. CASE IssueChallenge
        <3>1. Holders \in SUBSET Links
            BY DEF Holders, OwnerTypeOK
        <3>2. [id |-> op.id, snapshot |-> op.answer.snapshot, epoch |-> sessionEpoch,
               against |-> Holders] \in Challenges
            BY <1>1, <1>2, <3>1 DEF Challenges, Operations, OwnerTypeOK
        <3> QED
            BY <2>2, <3>2 DEF IssueChallenge, LinkTypeOK, SystemTypeOK
    <2>3. CASE /\ StartAcquire(op.link, op.id, op.answer.snapshot, op.takeover, op.against)
               /\ UNCHANGED challenge
        BY <1>1, <1>2, <2>3, StartAcquireTyped DEF Operations, LinkTypeOK
    <2> QED
        BY <2>1, <2>2, <2>3 DEF QueryReply
<1>4. UNCHANGED <<phase, linkFlags, ownerVars, helpers, peerVars, hostVars>>
    BY DEF QueryReply
<1> QED
    BY <1>3, <1>4 DEF LinkTypeOK, OwnerTypeOK, SystemTypeOK, linkFlags, ownerVars, peerVars, hostVars

\* What the host serves: the reply is noted only for the operation that asked.
LEMMA TypedServe ==
    ASSUME TypeInv, NEW r \in posted,
           HostServesRelease(r) \/ \E fence \in BOOLEAN : HostServesAcquire(r, fence)
    PROVE  SupervisorTypeOK'
<1> USE DEF TypeInv, SupervisorTypeOK
<1>1. posted' = posted \ {r} /\ UNCHANGED <<linkVars, ownerVars, helpers, peerVars, hostVars>>
    BY DEF HostServesRelease, HostServesAcquire
<1>2. op' \in Operations \cup {IdleOp}
    <2>1. CASE HostServesRelease(r)
        BY <2>1 DEF HostServesRelease, SystemTypeOK
    <2>2. ASSUME NEW fence \in BOOLEAN, HostServesAcquire(r, fence)
          PROVE  op' \in Operations \cup {IdleOp}
        <3>1. CASE op.kind = "acquire" /\ op.id = r.lease
            <4>1. op \in Operations
                BY <3>1, BusyTyped
            <4>2. [NoAnswer EXCEPT !.known = TRUE, !.status =
                     AcquireGranted(r.client, r.snapshot, r.takeover) /\ fence] \in Answers
                BY DEF NoAnswer, Answers, Snapshots
            <4> QED
                BY <2>2, <3>1, <4>1, <4>2 DEF HostServesAcquire, Operations
        <3>2. CASE ~(op.kind = "acquire" /\ op.id = r.lease)
            BY <2>2, <3>2 DEF HostServesAcquire, SystemTypeOK
        <3> QED
            BY <3>1, <3>2
    <2> QED
        BY <2>1, <2>2
<1> QED
    BY <1>1, <1>2 DEF LinkTypeOK, OwnerTypeOK, SystemTypeOK, linkVars, ownerVars, peerVars, hostVars

\* The reply to the acquire: refused, or the beginning of the barrier.
LEMMA TypedAcquireReply ==
    ASSUME TypeInv, AcquireReply
    PROVE  SupervisorTypeOK'
<1> USE DEF TypeInv, SupervisorTypeOK
<1>1. op \in Operations
    BY BusyTyped DEF AcquireReply
<1>2. UNCHANGED <<linkFlags, linkLease, challenge, helpers, peerVars, hostVars>>
    BY DEF AcquireReply
<1>3. CASE op.answer.status
    <2>1. {k \in Holders : Alive(k)} \ {op.link} \in SUBSET Links
        BY DEF Holders, OwnerTypeOK
    <2>2. /\ phase' \in [Links -> {"open", "recovering", "ended"}]
          /\ OwnerTypeOK'
          /\ posted' \subseteq AcquireRequests \cup ReleaseRequests
        BY <1>3, <2>1, FailTyped DEF AcquireReply
    <2>3. op' \in Operations
        <3>1. op' = [op EXCEPT !.kind = "barrier",
                        !.display = IF displayLink = NoLink THEN "ok" ELSE "pending",
                        !.helper = IF clipboardLink \in helpers THEN clipboardLink ELSE NoLink]
            BY <1>3 DEF AcquireReply
        <3>2. clipboardLink \in Links \cup {NoLink}
            BY DEF OwnerTypeOK
        <3> HIDE DEF TypeInv, SupervisorTypeOK
        <3> QED
            BY <1>1, <3>1, <3>2 DEF Operations, Kinds
    <2> QED
        BY <1>2, <2>2, <2>3 DEF LinkTypeOK, SystemTypeOK, linkFlags, peerVars, hostVars
<1>4. CASE ~op.answer.status
    BY <1>2, <1>4 DEF AcquireReply, LinkTypeOK, OwnerTypeOK, SystemTypeOK, linkFlags, ownerVars,
       peerVars, hostVars
<1> QED
    BY <1>3, <1>4

\* The end of the barrier: an admission, or the release of its lease.
LEMMA TypedFinish ==
    ASSUME TypeInv, BarrierReady \/ BarrierDeadline
    PROVE  SupervisorTypeOK'
<1> USE DEF TypeInv, SupervisorTypeOK
<1>1. op \in Operations
    BY BusyTyped DEF BarrierReady, BarrierDeadline
<1>2. PICK restored \in BOOLEAN : Finish(restored)
    BY DEF BarrierReady, BarrierDeadline
<1>3. ReleaseRequest(op.id) \in AcquireRequests \cup ReleaseRequests
    BY <1>1 DEF ReleaseRequest, ReleaseRequests, Operations
<1>4. UNCHANGED <<gateVars, phase, optIn, lifecycle, linkLease, challenge, pending, asked,
                  displayLink, clipboardLink, helpers, peerVars, hostVars>> /\ op' = IdleOp
    BY <1>2 DEF Finish
<1>5. CASE restored /\ Alive(op.link) /\ Authorized(Owner[op.link])
    BY <1>1, <1>2, <1>4, <1>5 DEF Finish, Operations, LinkTypeOK, OwnerTypeOK, SystemTypeOK,
       peerVars, hostVars
<1>6. CASE ~(restored /\ Alive(op.link) /\ Authorized(Owner[op.link]))
    BY <1>2, <1>3, <1>4, <1>6, PostTyped DEF Finish, LinkTypeOK, OwnerTypeOK, SystemTypeOK,
       peerVars, hostVars
<1> QED
    BY <1>5, <1>6

\* Display and clipboard control.
LEMMA TypedControl ==
    ASSUME TypeInv, NEW l \in Links,
           \/ DisplayResize(l)
           \/ \E v2 \in BOOLEAN : ClipboardStart(l, v2)
           \/ EndpointQuery(l)
    PROVE  SupervisorTypeOK'
<1> USE DEF TypeInv, SupervisorTypeOK
<1>1. CASE DisplayResize(l)
    BY <1>1 DEF DisplayResize, LinkTypeOK, OwnerTypeOK, SystemTypeOK, linkVars, peerVars, hostVars
<1>2. CASE \E v2 \in BOOLEAN : ClipboardStart(l, v2)
    BY <1>2 DEF ClipboardStart, LinkTypeOK, OwnerTypeOK, SystemTypeOK, linkVars, peerVars, hostVars
<1>3. CASE EndpointQuery(l)
    BY <1>3 DEF EndpointQuery, LinkTypeOK, OwnerTypeOK, SystemTypeOK, linkFlags, ownerVars,
       peerVars, hostVars
<1> QED
    BY <1>1, <1>2, <1>3

\* Links that end: those a callback fails, and nothing else of them.
LEMMA TypedLinkEnds ==
    ASSUME TypeInv, NEW l \in Links,
           HelperExits(l) \/ LinkFails(l) \/ RecoveryTimeout(l)
    PROVE  SupervisorTypeOK'
<1> USE DEF TypeInv, SupervisorTypeOK
<1>1. /\ phase' \in [Links -> {"open", "recovering", "ended"}]
      /\ OwnerTypeOK'
      /\ posted' \subseteq AcquireRequests \cup ReleaseRequests
    <2>1. CASE Fail({l})
        BY <2>1, FailTyped
    <2>2. CASE UNCHANGED <<phase, ownerVars, posted>>
        BY <2>2 DEF LinkTypeOK, OwnerTypeOK, SystemTypeOK, ownerVars
    <2> QED
        BY <2>1, <2>2 DEF HelperExits, LinkFails, RecoveryTimeout
<1>2. UNCHANGED <<linkFlags, linkLease, challenge, op, peerVars, hostVars>> /\ helpers' \subseteq helpers
    BY DEF HelperExits, LinkFails, RecoveryTimeout
<1> QED
    BY <1>1, <1>2 DEF LinkTypeOK, SystemTypeOK, linkFlags, peerVars, hostVars

\* A lost transport: a recovering session, or a failed link.
LEMMA TypedTransportLost ==
    ASSUME TypeInv, NEW l \in Links, TransportLost(l)
    PROVE  SupervisorTypeOK'
<1> USE DEF TypeInv, SupervisorTypeOK
<1>1. /\ phase' \in [Links -> {"open", "recovering", "ended"}]
      /\ OwnerTypeOK'
      /\ posted' \subseteq AcquireRequests \cup ReleaseRequests
    <2>1. CASE Recoverable(l) /\ l # clipboardLink
        <3>1. phase' \in [Links -> {"open", "recovering", "ended"}]
            BY <2>1 DEF TransportLost, LinkTypeOK
        <3>2. sessionEpoch' \in Nat
            BY <2>1 DEF TransportLost, OwnerTypeOK, Bump
        <3> QED
            BY <2>1, <3>1, <3>2 DEF TransportLost, OwnerTypeOK, SystemTypeOK, Cleared
    <2>2. CASE ~(Recoverable(l) /\ l # clipboardLink)
        BY <2>2, FailTyped DEF TransportLost
    <2> QED
        BY <2>1, <2>2
<1> QED
    BY <1>1 DEF TransportLost, LinkTypeOK, SystemTypeOK, linkFlags, peerVars, hostVars

\* Removing a device, and the end of that.
LEMMA TypedRevocation ==
    ASSUME TypeInv,
           \/ \E c \in Clients : Revoke(c)
           \/ \E removed, saved \in BOOLEAN : RevocationDone(removed, saved)
    PROVE  SupervisorTypeOK'
<1> USE DEF TypeInv, SupervisorTypeOK
<1>1. ASSUME NEW c \in Clients, Revoke(c)
      PROVE  SupervisorTypeOK'
    <2>1. {k \in Holders : Alive(k) /\ Owner[k] = c} \in SUBSET Links
        BY DEF Holders, OwnerTypeOK
    <2>2. /\ phase' \in [Links -> {"open", "recovering", "ended"}]
          /\ OwnerTypeOK'
          /\ posted' \subseteq AcquireRequests \cup ReleaseRequests
        BY <1>1, <2>1, FailTyped DEF Revoke
    <2> QED
        BY <1>1, <2>2 DEF Revoke, LinkTypeOK, SystemTypeOK, linkFlags, hostVars
<1>2. ASSUME NEW removed \in BOOLEAN, NEW saved \in BOOLEAN, RevocationDone(removed, saved)
      PROVE  SupervisorTypeOK'
    BY <1>2 DEF RevocationDone, LinkTypeOK, OwnerTypeOK, SystemTypeOK, linkVars, ownerVars, hostVars
<1> QED
    BY <1>1, <1>2

\* The host process.
LEMMA TypedHostStep ==
    ASSUME TypeInv, HostStep
    PROVE  SupervisorTypeOK'
<1> USE DEF TypeInv, SupervisorTypeOK
<1>1. {k \in Holders : Alive(k)} \in SUBSET Links
    BY DEF Holders, OwnerTypeOK
<1>2. CASE HostStopping
    <2>1. /\ phase' \in [Links -> {"open", "recovering", "ended"}]
          /\ OwnerTypeOK'
          /\ posted' \subseteq AcquireRequests \cup ReleaseRequests
        BY <1>1, <1>2, FailTyped DEF HostStopping
    <2> QED
        BY <1>2, <2>1 DEF HostStopping, LinkTypeOK, SystemTypeOK, linkFlags, peerVars
<1>3. CASE HostCrash
    <2>1. /\ phase' \in [Links -> {"open", "recovering", "ended"}]
          /\ OwnerTypeOK'
        BY <1>1, <1>3, FailLinksTyped DEF HostCrash
    <2> QED
        BY <1>3, <2>1 DEF HostCrash, LinkTypeOK, SystemTypeOK, linkFlags, peerVars
<1>4. CASE ServerExit
    BY <1>4 DEF ServerExit, LinkTypeOK, OwnerTypeOK, SystemTypeOK, linkVars, ownerVars, peerVars
<1>5. CASE HostStopped
    BY <1>5 DEF HostStopped, LinkTypeOK, OwnerTypeOK, SystemTypeOK, linkVars, ownerVars, peerVars
<1>6. CASE HostStart
    BY <1>6 DEF HostStart, LinkTypeOK, OwnerTypeOK, SystemTypeOK, linkVars, ownerVars, peerVars
<1> QED
    BY <1>2, <1>3, <1>4, <1>5, <1>6 DEF HostStep

\* Steps of the gate alone leave the supervisor's state as it is.
LEMMA TypedUnchanged ==
    ASSUME TypeInv, GateStep \/ UNCHANGED vars
    PROVE  SupervisorTypeOK'
<1>1. UNCHANGED <<linkVars, ownerVars, op, posted, helpers, peerVars, hostVars>>
    BY DEF GateStep, vars
<1> QED
    BY <1>1 DEF TypeInv, SupervisorTypeOK, LinkTypeOK, OwnerTypeOK, SystemTypeOK, linkVars,
       ownerVars, peerVars, hostVars

\* No step breaks the types of the supervisor's state.
LEMMA TypedStep ==
    ASSUME TypeInv, [Next]_vars
    PROVE  SupervisorTypeOK'
<1>1. ASSUME NEW l \in Links, LinkStep(l)
      PROVE  SupervisorTypeOK'
    <2>1. CASE Request(l)
        BY <2>1, TypedSessionRequest, TypedRefusal, TypedResume, TypedQueryHost, TypedTakeover
           DEF Request
    <2> QED
        BY <1>1, <2>1, TypedControl, TypedLinkEnds, TypedTransportLost DEF LinkStep
<1>2. CASE OperationStep
    BY <1>2, TypedAnswer, TypedQueryReply, TypedServe, TypedAcquireReply, TypedFinish
       DEF OperationStep, ExchangeStep
<1>3. CASE ServeRelease \/ ServeAbandoned
    BY <1>3, TypedServe DEF ServeRelease, ServeAbandoned
<1>4. CASE AccessStep
    BY <1>4, TypedRevocation DEF AccessStep
<1>5. CASE HostStep
    BY <1>5, TypedHostStep
<1>6. CASE GateStep \/ UNCHANGED vars
    BY <1>6, TypedUnchanged
<1> QED
    BY <1>1, <1>2, <1>3, <1>4, <1>5, <1>6 DEF Next

-----------------------------------------------------------------------------
(* The gate inside the composed system                                     *)

\* A step that leaves the gate alone keeps its invariant.
LEMMA GateInvUnchanged ==
    ASSUME GateInv, UNCHANGED gateVars
    PROVE  GateInv'
BY DEF gateVars, GateInv, GateTypeOK, NoneAhead, FencedStreams, OneStream, ClaimConsistent

\* What the supervisor presents to the gate is well-typed, so the gate keeps its
\* invariant whatever state the supervisor is in.
LEMMA GateInvServe ==
    ASSUME TypeInv, NEW r \in posted,
           HostServesRelease(r) \/ \E fence \in BOOLEAN : HostServesAcquire(r, fence)
    PROVE  GateInv'
<1>1. r \in AcquireRequests \cup ReleaseRequests
    BY DEF TypeInv, SupervisorTypeOK, SystemTypeOK
<1>2. CASE HostServesRelease(r)
    <2>1. r.lease \in Leases \cup {NoLease}
        BY <1>1, <1>2 DEF HostServesRelease, AcquireRequests, ReleaseRequests
    <2> QED
        BY <1>2, <2>1, GateInvRelease DEF HostServesRelease, TypeInv
<1>3. ASSUME NEW fence \in BOOLEAN, HostServesAcquire(r, fence)
      PROVE  GateInv'
    <2>1. r.client \in Clients /\ r.lease \in Leases /\ r.takeover \in BOOLEAN
        BY <1>1, <1>3 DEF HostServesAcquire, AcquireRequests, ReleaseRequests
    <2> QED
        BY <1>3, <2>1, GateInvAcquire DEF HostServesAcquire, TypeInv
<1> QED
    BY <1>2, <1>3

\* The end of a removal takes the certificate from the gate, or does not.
LEMMA GateInvRevocation ==
    ASSUME TypeInv, AccessStep
    PROVE  GateInv'
<1>1. ASSUME NEW c \in Clients, Revoke(c)
      PROVE  GateInv'
    BY <1>1, GateInvUnchanged DEF Revoke, TypeInv
<1>2. ASSUME NEW removed \in BOOLEAN, NEW saved \in BOOLEAN, RevocationDone(removed, saved)
      PROVE  GateInv'
    <2>1. revoking \in Clients
        BY <1>2 DEF RevocationDone, TypeInv, SupervisorTypeOK, SystemTypeOK
    <2> QED
        BY <1>2, <2>1, GateInvRemoveTrust, GateInvUnchanged DEF RevocationDone, TypeInv
<1> QED
    BY <1>1, <1>2 DEF AccessStep

\* PeerManager's own steps, and most of the host's, leave the gate alone.
LEMMA GateInvLinkStep ==
    ASSUME TypeInv, NEW l \in Links, LinkStep(l)
    PROVE  GateInv'
<1>1. CASE Request(l)
    BY <1>1, GateInvUnchanged DEF Request, SessionRequest, RequestRefused, VerifiedNothingToDo,
       ResumeTransport, QueryHost, TakeoverStale, TakeoverClaims, TakeoverEndsBrowser, Takeover,
       Proceeds, Verified, TypeInv
<1>2. CASE ~Request(l)
    BY <1>2, GateInvUnchanged DEF LinkStep, DisplayResize, ClipboardStart,
       HelperExits, LinkFails, RecoveryTimeout, TransportLost, EndpointQuery, TypeInv
<1> QED
    BY <1>1, <1>2

\* Of an operation's steps only the serving of an acquire reaches the gate.
LEMMA GateInvOperationStep ==
    ASSUME TypeInv, OperationStep
    PROVE  GateInv'
<1>1. CASE \E r \in posted : \E fence \in BOOLEAN : HostServesAcquire(r, fence)
    BY <1>1, GateInvServe
<1>2. CASE \/ EndBrowserDone \/ HostAnswersQuery \/ QueryReply \/ ReplyLost \/ AcquireReply
           \/ \E okay \in BOOLEAN : DisplaySettles(okay)
           \/ BarrierReady \/ BarrierDeadline
    BY <1>2, GateInvUnchanged DEF EndBrowserDone, HostAnswersQuery, QueryReply, ReplyLost,
       AcquireReply, DisplaySettles, BarrierReady, BarrierDeadline, Finish, TypeInv
<1> QED
    BY <1>1, <1>2 DEF OperationStep, ExchangeStep

\* Of the host's steps only the exit of the process reaches the gate.
LEMMA GateInvHostStep ==
    ASSUME TypeInv, HostStep
    PROVE  GateInv'
<1>1. CASE HostCrash \/ ServerExit
    BY <1>1, GateInvProcessExit DEF HostCrash, ServerExit, TypeInv
<1>2. CASE HostStopping \/ HostStopped \/ HostStart
    BY <1>2, GateInvUnchanged DEF HostStopping, HostStopped, HostStart, TypeInv
<1> QED
    BY <1>1, <1>2 DEF HostStep

\* Every step of the composed system preserves the gate's invariant.
LEMMA GateInvNext ==
    ASSUME TypeInv, [Next]_vars
    PROVE  GateInv'
<1>1. CASE ServeRelease \/ ServeAbandoned
    BY <1>1, GateInvServe DEF ServeRelease, ServeAbandoned
<1>2. CASE GateStep
    BY <1>2, GateInvEnvironment DEF GateStep, TypeInv
<1>3. CASE UNCHANGED vars
    BY <1>3, GateInvUnchanged DEF vars, TypeInv
<1> QED
    BY <1>1, <1>2, <1>3, GateInvLinkStep, GateInvOperationStep, GateInvRevocation,
       GateInvHostStep DEF Next

-----------------------------------------------------------------------------
(* Type correctness and stream fencing of the whole system                 *)

\* The system starts well-typed and with an idle gate.
LEMMA TypeInvInit == Init => TypeInv
<1> SUFFICES ASSUME Init PROVE TypeInv
    OBVIOUS
<1>1. GateInv
    BY GateInvInit DEF Init
<1>2. LinkTypeOK
    BY AdmissionConstants DEF Init, LinkTypeOK, NoChallenge, Challenges, Snapshots
<1>3. OwnerTypeOK /\ SystemTypeOK
    BY DEF Init, OwnerTypeOK, SystemTypeOK
<1> QED
    BY <1>1, <1>2, <1>3 DEF TypeInv, SupervisorTypeOK

\* The invariant that carries both the supervisor's types and the gate's rules.
THEOREM SystemInvariant == Spec => []TypeInv
<1>1. TypeInv /\ [Next]_vars => TypeInv'
    BY TypedStep, GateInvNext DEF TypeInv
<1> QED
    BY <1>1, TypeInvInit, PTL DEF Spec

\* Every variable of the supervisor and of the gate keeps its type.
THEOREM AdmissionTyped == Spec => []TypeOK
<1>1. TypeInv => TypeOK
    BY DEF TypeInv, SupervisorTypeOK, GateInv, TypeOK
<1> QED
    BY <1>1, SystemInvariant, PTL

\* Generation fencing holds in the composed system: whatever requests are lost,
\* reordered or served late, a stream never runs against the current claim.
THEOREM SessionFences == Spec => []FencedStreams
<1>1. TypeInv => FencedStreams
    BY DEF TypeInv, GateInv
<1> QED
    BY <1>1, SystemInvariant, PTL

-----------------------------------------------------------------------------
(* The owner of the session                                                *)

\* During the barrier nobody but its own link can still be the session.
BarrierExclusive == op.kind = "barrier" => sessionLink \in {NoLink, op.link}

\* One link never has both the display and the clipboard.
RolesApart == displayLink # NoLink => displayLink # clipboardLink

SoleInv == SoleAdmission /\ BarrierExclusive /\ RolesApart

\* A step keeps the barrier it finds and begins none.
SameBarrier == op'.kind = "barrier" => op.kind = "barrier" /\ op'.link = op.link

-----------------------------------------------------------------------------
(* Lemmas: steps that leave the owners alone, and steps that fail links    *)

\* A step that changes no owner, no admission and no barrier.
LEMMA SoleQuiet ==
    ASSUME SoleInv, SameBarrier,
           UNCHANGED <<phase, admitted, sessionLink, displayLink, clipboardLink>>
    PROVE  SoleInv'
BY DEF SoleInv, SoleAdmission, BarrierExclusive, RolesApart, SameBarrier, Holders, Alive

\* fail() clears every pointer to what it ends, so the others stay accurate.
LEMMA SoleFail ==
    ASSUME TypeInv, SoleInv, NEW F \in SUBSET Links, FailLinks(F), UNCHANGED admitted
    PROVE  SoleAdmission' /\ RolesApart'
<1>1. \A k \in Links : k \notin F => phase'[k] = phase[k]
    BY DEF FailLinks
<1>2. \A k \in Links : k \in F => phase'[k] = "ended"
    BY DEF FailLinks
<1>3. /\ sessionLink' \in {NoLink, sessionLink} /\ sessionLink' \notin F
      /\ displayLink' \in {NoLink, displayLink} /\ displayLink' \notin F
      /\ clipboardLink' \in {NoLink, clipboardLink} /\ clipboardLink' \notin F
    BY SessionNulls DEF FailLinks, Cleared
<1>4. sessionLink \notin F => sessionLink' = sessionLink
    BY DEF FailLinks, Cleared
<1>5. {sessionLink, displayLink, clipboardLink} \subseteq Links \cup {NoLink}
    BY DEF TypeInv, SupervisorTypeOK, OwnerTypeOK
<1>6. \A k \in Holders' : Alive(k)'
    BY <1>1, <1>3, <1>5 DEF SoleInv, SoleAdmission, Holders, Alive
<1>7. \A l \in Links : (Alive(l)' /\ l \in admitted') => l = sessionLink'
    BY <1>1, <1>2, <1>4 DEF SoleInv, SoleAdmission, Alive
<1>8. \A l \in Links : phase'[l] = "recovering" => l = sessionLink'
    BY <1>1, <1>2, <1>4 DEF SoleInv, SoleAdmission
<1>9. sessionLink' # NoLink => sessionLink' \in admitted'
    BY <1>3 DEF SoleInv, SoleAdmission
<1> QED
    BY <1>3, <1>6, <1>7, <1>8, <1>9 DEF SoleInv, SoleAdmission, RolesApart

\* The same with no new operation: the barrier's session can only go away.
LEMMA SoleFailQuiet ==
    ASSUME TypeInv, SoleInv, SameBarrier, NEW F \in SUBSET Links, FailLinks(F),
           UNCHANGED admitted
    PROVE  SoleInv'
<1>1. sessionLink' \in {NoLink, sessionLink}
    BY DEF FailLinks, Cleared
<1>2. BarrierExclusive'
    BY <1>1 DEF BarrierExclusive, SameBarrier, SoleInv
<1> QED
    BY <1>2, SoleFail DEF SoleInv

\* Who holds something now is a set of links.
LEMMA HoldersAreLinks == TypeInv => Holders \subseteq Links
BY DEF TypeInv, SupervisorTypeOK, OwnerTypeOK, Holders

-----------------------------------------------------------------------------
(* The actions                                                             *)

\* Until a claim is granted, a request changes no owner.
LEMMA SoleRequest ==
    ASSUME TypeInv, SoleInv, NEW l \in Links, Request(l), ~ResumeTransport(l)
    PROVE  SoleInv'
<1>1. UNCHANGED <<phase, admitted, sessionLink, displayLink, clipboardLink>>
    BY DEF Request, SessionRequest, RequestRefused, VerifiedNothingToDo, QueryHost,
       TakeoverStale, TakeoverClaims, TakeoverEndsBrowser, Takeover, Proceeds, ownerVars
<1>2. SameBarrier
    <2>1. CASE UNCHANGED op
        BY <2>1 DEF SameBarrier
    <2>2. CASE QueryHost(l)
        BY <2>2 DEF QueryHost, IdleOp, SameBarrier
    <2>3. CASE TakeoverClaims(l)
        BY <2>3 DEF TakeoverClaims, StartAcquire, IdleOp, SameBarrier
    <2>4. CASE TakeoverEndsBrowser(l)
        BY <2>4 DEF TakeoverEndsBrowser, IdleOp, SameBarrier
    <2> QED
        BY <2>1, <2>2, <2>3, <2>4 DEF Request, SessionRequest, RequestRefused,
           VerifiedNothingToDo, TakeoverStale
<1> QED
    BY <1>1, <1>2, SoleQuiet

\* A resumed session moves as a whole; the replaced transport ends with it.
LEMMA SoleResume ==
    ASSUME TypeInv, SoleInv, NEW l \in Links, ResumeTransport(l)
    PROVE  SoleInv'
<1> DEFINE replaced == ClipboardOf(Owner[l]) \cup {sessionLink}
<1>1. /\ Verified(l) /\ Alive(l) /\ l # clipboardLink /\ l # sessionLink
      /\ sessionLink \in Links /\ op.kind = "idle"
    BY DEF ResumeTransport, Verified, Resumes, Busy, TypeInv, SupervisorTypeOK, OwnerTypeOK
<1>2. /\ phase' = [k \in Links |-> IF k \in replaced THEN "ended" ELSE phase[k]]
      /\ clipboardLink' = Cleared(clipboardLink, replaced)
      /\ admitted' = admitted \cup {l}
      /\ sessionLink' = l
      /\ displayLink' = Moved(displayLink, sessionLink, l)
      /\ op' = op
    BY DEF ResumeTransport
<1>3. replaced \subseteq {clipboardLink, sessionLink}
    BY DEF ClipboardOf
<1>4. l \notin replaced
    BY <1>1, <1>3
<1>5. phase'[l] = phase[l] /\ Alive(l)'
    BY <1>1, <1>2, <1>4 DEF Alive
<1>6. displayLink' # NoLink => displayLink' \in Links /\ Alive(displayLink)'
                                /\ displayLink' # clipboardLink'
    <2>1. CASE displayLink' = l
        BY <1>1, <1>2, <1>5, <2>1 DEF Cleared
    <2>2. CASE displayLink' # l
        BY <1>1, <1>2, <1>3, <2>2 DEF Moved, Cleared, Alive, SoleInv, SoleAdmission, RolesApart,
           Holders, TypeInv, SupervisorTypeOK, OwnerTypeOK
    <2> QED
        BY <2>1, <2>2
<1>7. clipboardLink' # NoLink => Alive(clipboardLink)'
    BY <1>2 DEF Cleared, Alive, SoleInv, SoleAdmission, Holders, TypeInv, SupervisorTypeOK,
       OwnerTypeOK
<1>8. \A k \in Links : k # l /\ phase'[k] = "recovering" => FALSE
    BY <1>2 DEF SoleInv, SoleAdmission
<1>9. \A k \in Links : Alive(k)' /\ k \in admitted' => k = l
    BY <1>2 DEF Alive, SoleInv, SoleAdmission
<1> QED
    BY <1>1, <1>2, <1>5, <1>6, <1>7, <1>8, <1>9 DEF SoleInv, SoleAdmission, BarrierExclusive,
       RolesApart, Holders

\* The callbacks of the operation up to the reply of acquire change no owner.
LEMMA SoleAnswers ==
    ASSUME TypeInv, SoleInv,
           \/ EndBrowserDone \/ HostAnswersQuery \/ QueryReply \/ ReplyLost
           \/ \E okay \in BOOLEAN : DisplaySettles(okay)
           \/ \E r \in posted : HostServesRelease(r)
           \/ \E r \in posted, fence \in BOOLEAN : HostServesAcquire(r, fence)
    PROVE  SoleInv'
<1>1. UNCHANGED <<phase, admitted, sessionLink, displayLink, clipboardLink>>
    BY DEF EndBrowserDone, HostAnswersQuery, QueryReply, ReplyLost, DisplaySettles,
       HostServesRelease, HostServesAcquire, linkVars, linkFlags, ownerVars
<1>2. SameBarrier
    <2>1. CASE op' \in {op, IdleOp}
        BY <2>1 DEF SameBarrier, IdleOp
    <2>2. CASE EndBrowserDone
        <3>1. op \in Operations
            BY <2>2, BusyTyped DEF EndBrowserDone, TypeInv, SupervisorTypeOK
        <3> QED
            BY <2>2, <3>1 DEF EndBrowserDone, SameBarrier, IdleOp, Operations
    <2>3. CASE HostAnswersQuery
        BY <2>3, BusyTyped DEF HostAnswersQuery, SameBarrier, Operations, TypeInv,
           SupervisorTypeOK
    <2>4. CASE QueryReply
        <3>1. CASE StartAcquire(op.link, op.id, op.answer.snapshot, op.takeover, op.against)
            BY <3>1 DEF StartAcquire, IdleOp, SameBarrier
        <3> QED
            BY <2>1, <2>4, <3>1 DEF QueryReply, IssueChallenge
    <2>5. CASE \E okay \in BOOLEAN : DisplaySettles(okay)
        BY <2>5, BusyTyped DEF DisplaySettles, SameBarrier, Operations, TypeInv,
           SupervisorTypeOK
    <2>6. ASSUME NEW r \in posted, NEW fence \in BOOLEAN, HostServesAcquire(r, fence)
          PROVE  SameBarrier
        BY <2>6, BusyTyped DEF HostServesAcquire, SameBarrier, Operations, TypeInv,
           SupervisorTypeOK
    <2> QED
        BY <2>1, <2>2, <2>3, <2>4, <2>5, <2>6 DEF ReplyLost, HostServesRelease
<1> QED
    BY <1>1, <1>2, SoleQuiet

\* A granted claim ends every other holder before the barrier begins.
LEMMA SoleAcquireReply ==
    ASSUME TypeInv, SoleInv, AcquireReply
    PROVE  SoleInv'
<1>1. op \in Operations /\ UNCHANGED admitted
    BY BusyTyped DEF AcquireReply, linkFlags, TypeInv, SupervisorTypeOK
<1>2. CASE op.answer.status
    <2> DEFINE evicted == {k \in Holders : Alive(k)} \ {op.link}
    <2>1. evicted \in SUBSET Links
        BY HoldersAreLinks
    <2>2. FailLinks(evicted)
        BY <1>2 DEF AcquireReply, Fail
    <2>3. op'.kind = "barrier" /\ op'.link = op.link
        BY <1>1, <1>2 DEF AcquireReply, Operations
    <2>4. sessionLink \in {NoLink, op.link} \cup evicted
        BY DEF SoleInv, SoleAdmission, Holders
    <2>5. sessionLink' \in {NoLink, op.link}
        BY <2>2, <2>4 DEF FailLinks, Cleared
    <2> QED
        BY <1>1, <2>1, <2>2, <2>3, <2>5, SoleFail DEF SoleInv, BarrierExclusive
<1>3. CASE ~op.answer.status
    <2>1. op' = IdleOp /\ UNCHANGED <<phase, ownerVars>>
        BY <1>3 DEF AcquireReply
    <2> QED
        BY <1>1, <2>1, SoleQuiet DEF ownerVars, SameBarrier, IdleOp
<1> QED
    BY <1>2, <1>3

\* The barrier admits its own link over a cleared pointer, or nobody.
LEMMA SoleFinish ==
    ASSUME TypeInv, SoleInv, BarrierReady \/ BarrierDeadline
    PROVE  SoleInv'
<1>1. op \in Operations /\ op.kind = "barrier"
    BY BusyTyped DEF BarrierReady, BarrierDeadline, TypeInv, SupervisorTypeOK
<1>2. PICK restored \in BOOLEAN : Finish(restored)
    BY DEF BarrierReady, BarrierDeadline
<1>3. op' = IdleOp /\ UNCHANGED <<phase, displayLink, clipboardLink>>
    BY <1>2 DEF Finish
<1>4. CASE restored /\ Alive(op.link) /\ Authorized(Owner[op.link])
    <2>1. /\ op.link \in Links /\ op.link # NoLink
          /\ sessionLink' = op.link /\ admitted' = admitted \cup {op.link}
        BY <1>1, <1>2, <1>4, SessionNulls DEF Finish, Operations
    <2>2. sessionLink \in {NoLink, op.link}
        BY <1>1 DEF SoleInv, BarrierExclusive
    <2> QED
        BY <1>3, <1>4, <2>1, <2>2, SessionNulls DEF SoleInv, SoleAdmission, BarrierExclusive,
           RolesApart, Holders, Alive, IdleOp
<1>5. CASE ~(restored /\ Alive(op.link) /\ Authorized(Owner[op.link]))
    BY <1>2, <1>3, <1>5, SoleQuiet DEF Finish, SameBarrier, IdleOp
<1> QED
    BY <1>4, <1>5

\* Display and clipboard are given to live links, to different ones.
LEMMA SoleControl ==
    ASSUME TypeInv, SoleInv, NEW l \in Links,
           DisplayResize(l) \/ \E v2 \in BOOLEAN : ClipboardStart(l, v2)
    PROVE  SoleInv'
<1>1. UNCHANGED <<phase, admitted, sessionLink, op>> /\ op.kind = "idle" /\ Alive(l)
    BY DEF DisplayResize, ClipboardStart, linkVars, Busy, Alive
<1>2. \/ displayLink' = l /\ clipboardLink' = clipboardLink /\ l # clipboardLink
      \/ clipboardLink' = l /\ displayLink' = displayLink /\ l # displayLink
    BY DEF DisplayResize, ClipboardStart
<1> QED
    BY <1>1, <1>2 DEF SoleInv, SoleAdmission, BarrierExclusive, RolesApart, Holders, Alive

\* Links that end by fail(), one or several at a time.
LEMMA SoleLinkFails ==
    ASSUME TypeInv, SoleInv, NEW l \in Links,
           HelperExits(l) \/ LinkFails(l) \/ RecoveryTimeout(l)
    PROVE  SoleInv'
<1>1. UNCHANGED <<admitted, op>>
    BY DEF HelperExits, LinkFails, RecoveryTimeout, linkFlags
<1>2. SameBarrier
    BY <1>1 DEF SameBarrier
<1>3. CASE Fail({l})
    BY <1>1, <1>2, <1>3, SoleFailQuiet DEF Fail
<1>4. CASE UNCHANGED <<phase, ownerVars>>
    BY <1>1, <1>2, <1>4, SoleQuiet DEF ownerVars
<1> QED
    BY <1>3, <1>4 DEF HelperExits, LinkFails, RecoveryTimeout

\* A recovering session keeps its pointers; only its clipboard fails.
LEMMA SoleTransportLost ==
    ASSUME TypeInv, SoleInv, NEW l \in Links, TransportLost(l)
    PROVE  SoleInv'
<1>1. UNCHANGED <<admitted, op>>
    BY DEF TransportLost, linkFlags
<1>2. CASE Recoverable(l) /\ l # clipboardLink
    <2> DEFINE interrupted == ClipboardOf(Owner[l])
    <2>1. /\ phase' = [k \in Links |-> IF k = l THEN "recovering"
                                ELSE IF k \in interrupted THEN "ended" ELSE phase[k]]
          /\ clipboardLink' = Cleared(clipboardLink, interrupted)
          /\ UNCHANGED <<sessionLink, displayLink>>
        BY <1>2 DEF TransportLost
    <2>2. l = sessionLink /\ op.kind = "idle"
        BY <1>2 DEF Recoverable, Busy
    <2>3. interrupted \subseteq {clipboardLink}
        BY DEF ClipboardOf
    <2>4. displayLink # NoLink => Alive(displayLink)'
        BY <2>1, <2>3 DEF Alive, SoleInv, SoleAdmission, RolesApart, Holders, TypeInv,
           SupervisorTypeOK, OwnerTypeOK
    <2>5. clipboardLink' # NoLink => Alive(clipboardLink)' /\ clipboardLink' = clipboardLink
        BY <2>1 DEF Cleared, Alive, SoleInv, SoleAdmission, Holders, TypeInv,
           SupervisorTypeOK, OwnerTypeOK
    <2>6. sessionLink # NoLink => Alive(sessionLink)'
        BY <2>1, <2>2 DEF Alive
    <2>7. \A k \in Links : Alive(k)' => Alive(k) \/ k = l
        BY <2>1 DEF Alive
    <2>8. \A k \in Links : phase'[k] = "recovering" => k = sessionLink
        BY <2>1, <2>2 DEF SoleInv, SoleAdmission
    <2> QED
        BY <1>1, <2>1, <2>2, <2>4, <2>5, <2>6, <2>7, <2>8 DEF SoleInv, SoleAdmission,
           BarrierExclusive, RolesApart, Holders
<1>3. CASE ~(Recoverable(l) /\ l # clipboardLink)
    <2>1. FailLinks({l})
        BY <1>3 DEF TransportLost, Fail
    <2> QED
        BY <1>1, <2>1, SoleFailQuiet DEF SameBarrier
<1> QED
    BY <1>2, <1>3

\* endpoint-query ends a link without fail(): harmless on a link nobody holds.
LEMMA SoleEndpointQuery ==
    ASSUME TypeInv, SoleInv, ~EndpointQueryOnSession, NEW l \in Links, EndpointQuery(l)
    PROVE  SoleInv'
<1>1. l \notin Holders
    BY DEF EndpointQuery, Holders
<1>2. UNCHANGED <<admitted, sessionLink, displayLink, clipboardLink, op>>
    BY DEF EndpointQuery, linkFlags, ownerVars
<1>3. \A k \in Links : phase'[k] = IF k = l THEN "ended" ELSE phase[k]
    BY DEF EndpointQuery, TypeInv, SupervisorTypeOK, LinkTypeOK
<1>4. \A k \in Holders : k \in Links /\ Alive(k)'
    BY <1>1, <1>3, HoldersAreLinks DEF Alive, SoleInv, SoleAdmission
<1>5. Holders' = Holders
    BY <1>2 DEF Holders
<1>6. \A k \in Links : Alive(k)' => Alive(k)
    BY <1>3 DEF Alive
<1> QED
    BY <1>2, <1>3, <1>4, <1>5, <1>6 DEF SoleInv, SoleAdmission, BarrierExclusive, RolesApart

\* Removing a device and stopping the host fail the links they concern.
LEMMA SoleAccessAndHost ==
    ASSUME TypeInv, SoleInv, AccessStep \/ HostStep
    PROVE  SoleInv'
<1>1. UNCHANGED <<admitted, op>>
    BY DEF AccessStep, Revoke, RevocationDone, HostStep, HostStopping, HostCrash, ServerExit,
       HostStopped, HostStart, linkVars, linkFlags
<1>2. SameBarrier
    BY <1>1 DEF SameBarrier
<1>3. CASE \E F \in SUBSET Holders : FailLinks(F)
    BY <1>1, <1>2, <1>3, HoldersAreLinks, SoleFailQuiet
<1>4. CASE UNCHANGED <<phase, ownerVars>>
    BY <1>1, <1>2, <1>4, SoleQuiet DEF ownerVars
<1>5. CASE AccessStep
    <2>1. ASSUME NEW c \in Clients, Revoke(c)
          PROVE  \E F \in SUBSET Holders : FailLinks(F)
        <3>1. FailLinks({k \in Holders : Alive(k) /\ Owner[k] = c})
            BY <2>1 DEF Revoke, Fail
        <3> QED
            BY <3>1
    <2> QED
        BY <1>3, <1>4, <1>5, <2>1 DEF AccessStep, RevocationDone, linkVars
<1>6. CASE HostStep
    <2>1. ASSUME HostStopping \/ HostCrash
          PROVE  \E F \in SUBSET Holders : FailLinks(F)
        <3>1. FailLinks({k \in Holders : Alive(k)})
            BY <2>1 DEF HostStopping, HostCrash, Fail
        <3> QED
            BY <3>1
    <2> QED
        BY <1>3, <1>4, <1>6, <2>1 DEF HostStep, ServerExit, HostStopped, HostStart, linkVars
<1> QED
    BY <1>5, <1>6

-----------------------------------------------------------------------------
(* One owner                                                               *)

\* Nobody owns anything at first.
LEMMA SoleInvInit == Init => SoleInv
BY DEF Init, IdleOp, SoleInv, SoleAdmission, BarrierExclusive, RolesApart, Holders

\* Every step keeps the owner pointers accurate and the admission exclusive.
LEMMA SoleInvStep ==
    ASSUME TypeInv, SoleInv, ~EndpointQueryOnSession, [Next]_vars
    PROVE  SoleInv'
<1>1. ASSUME NEW l \in Links, LinkStep(l)
      PROVE  SoleInv'
    BY <1>1, SoleRequest, SoleResume, SoleControl, SoleLinkFails, SoleTransportLost,
       SoleEndpointQuery DEF LinkStep
<1>2. CASE OperationStep
    BY <1>2, SoleAnswers, SoleAcquireReply, SoleFinish DEF OperationStep, ExchangeStep
<1>3. CASE ServeRelease \/ ServeAbandoned
    BY <1>3, SoleAnswers DEF ServeRelease, ServeAbandoned
<1>4. CASE AccessStep \/ HostStep
    BY <1>4, SoleAccessAndHost
<1>5. CASE GateStep \/ UNCHANGED vars
    BY <1>5, SoleQuiet DEF GateStep, vars, linkVars, ownerVars, SameBarrier
<1> QED
    BY <1>1, <1>2, <1>3, <1>4, <1>5 DEF Next

\* While no client queries the endpoint on its admitted link (MCClaimEndpoint
\* shows what that breaks), at most one live link is admitted, it is the
\* session, and no owner pointer outlives its link.
THEOREM SessionHasOneOwner ==
    ASSUME ~EndpointQueryOnSession
    PROVE  Spec => []SoleAdmission
<1>1. SoleInv => SoleAdmission
    BY DEF SoleInv
<1>2. TypeInv /\ SoleInv /\ [Next]_vars => SoleInv'
    BY SoleInvStep
<1> QED
    BY <1>1, <1>2, SoleInvInit, SystemInvariant, PTL DEF Spec

-----------------------------------------------------------------------------
(* Removal and hand-over                                                   *)

\* The only step that makes a link the session without taking it from another
\* link of the same device is the end of a barrier, over a cleared pointer.
LEMMA SessionGains ==
    ASSUME TypeInv, [Next]_vars, sessionLink' # sessionLink, sessionLink' # NoLink
    PROVE  \/ BarrierReady \/ BarrierDeadline
           \/ \E l \in Links : ResumeTransport(l)
<1>1. ASSUME NEW F, FailLinks(F)
      PROVE  sessionLink' \in {sessionLink, NoLink}
    BY <1>1 DEF FailLinks, Cleared
<1>2. ASSUME NEW l \in Links, LinkStep(l), ~ResumeTransport(l)
      PROVE  sessionLink' \in {sessionLink, NoLink}
    <2>1. CASE Request(l)
        BY <1>2, <2>1 DEF Request, SessionRequest, RequestRefused, VerifiedNothingToDo, QueryHost,
           TakeoverStale, TakeoverClaims, TakeoverEndsBrowser, Takeover, Proceeds, ownerVars
    <2>2. CASE DisplayResize(l) \/ (\E v2 \in BOOLEAN : ClipboardStart(l, v2)) \/ EndpointQuery(l)
        BY <2>2 DEF DisplayResize, ClipboardStart, EndpointQuery, ownerVars
    <2>3. CASE HelperExits(l) \/ LinkFails(l) \/ RecoveryTimeout(l) \/ TransportLost(l)
        BY <1>1, <2>3 DEF HelperExits, LinkFails, RecoveryTimeout, TransportLost, Fail, ownerVars
    <2> QED
        BY <1>2, <2>1, <2>2, <2>3 DEF LinkStep
<1>3. ASSUME OperationStep, ~BarrierReady, ~BarrierDeadline
      PROVE  sessionLink' \in {sessionLink, NoLink}
    BY <1>1, <1>3 DEF OperationStep, ExchangeStep, EndBrowserDone, HostAnswersQuery, QueryReply, ReplyLost,
       HostServesAcquire, AcquireReply, DisplaySettles, Fail, ownerVars
<1>4. CASE AccessStep \/ HostStep
    BY <1>1, <1>4 DEF AccessStep, Revoke, RevocationDone, HostStep, HostStopping, HostCrash,
       ServerExit, HostStopped, HostStart, Fail, ownerVars
<1>5. CASE ServeRelease \/ ServeAbandoned \/ GateStep \/ UNCHANGED vars
    BY <1>5 DEF ServeRelease, ServeAbandoned, HostServesRelease, HostServesAcquire, GateStep,
       vars, ownerVars
<1> QED
    BY <1>2, <1>3, <1>4, <1>5 DEF Next

\* A session changes hands only through its end, or with its lease and display.
THEOREM SessionHandOver ==
    ASSUME ~EndpointQueryOnSession
    PROVE  Spec => HandOver
<1> DEFINE Moves == (sessionLink # NoLink /\ sessionLink' \notin {NoLink, sessionLink}) =>
            /\ Owner[sessionLink'] = Owner[sessionLink]
            /\ linkLease'[sessionLink'] = linkLease[sessionLink]
            /\ displayLink' = IF displayLink = sessionLink THEN sessionLink' ELSE displayLink
            /\ UNCHANGED <<lease, posted>>
<1>1. ASSUME TypeInv, SoleInv, [Next]_vars
      PROVE  [Moves]_vars
    <2>1. SUFFICES ASSUME sessionLink # NoLink, sessionLink' \notin {NoLink, sessionLink}
                   PROVE  /\ Owner[sessionLink'] = Owner[sessionLink]
                          /\ linkLease'[sessionLink'] = linkLease[sessionLink]
                          /\ displayLink' = IF displayLink = sessionLink THEN sessionLink'
                                            ELSE displayLink
                          /\ UNCHANGED <<lease, posted>>
        OBVIOUS
    <2>2. CASE BarrierReady \/ BarrierDeadline
        <3>1. sessionLink \in {NoLink, op.link}
            BY <1>1, <2>2 DEF SoleInv, BarrierExclusive, BarrierReady, BarrierDeadline
        <3>2. sessionLink' \in {sessionLink, op.link}
            BY <2>2 DEF BarrierReady, BarrierDeadline, Finish
        <3> QED
            BY <2>1, <3>1, <3>2
    <2>3. ASSUME NEW l \in Links, ResumeTransport(l)
          PROVE  /\ Owner[sessionLink'] = Owner[sessionLink]
                 /\ linkLease'[sessionLink'] = linkLease[sessionLink]
                 /\ displayLink' = IF displayLink = sessionLink THEN sessionLink'
                                   ELSE displayLink
                 /\ UNCHANGED <<lease, posted>>
        <3>1. sessionLink' = l /\ Owner[sessionLink] = Owner[l] /\ sessionLink # l
            BY <2>3 DEF ResumeTransport, Resumes
        <3>2. linkLease'[l] = linkLease[sessionLink]
            BY <1>1, <2>1, <2>3, <3>1 DEF ResumeTransport, TypeInv, SupervisorTypeOK, LinkTypeOK,
               OwnerTypeOK
        <3>3. UNCHANGED <<lease, posted>>
            BY <2>3 DEF ResumeTransport, Verified, gateVars
        <3> QED
            BY <2>3, <3>1, <3>2, <3>3 DEF ResumeTransport, Moved
    <2> QED
        BY <1>1, <2>1, <2>2, <2>3, SessionGains
<1>2. TypeInv /\ SoleInv /\ [Next]_vars => SoleInv'
    BY SoleInvStep
<1> QED
    BY <1>1, <1>2, SoleInvInit, SystemInvariant, PTL DEF Spec, HandOver

\* Grants change only where a device's access is removed.
LEMMA PeersUnchanged ==
    ASSUME [Next]_vars, ~AccessStep
    PROVE  UNCHANGED <<granted, revoking>>
<1>1. ASSUME NEW l \in Links, LinkStep(l)
      PROVE  UNCHANGED <<granted, revoking>>
    <2>1. CASE Request(l)
        BY <2>1 DEF Request, SessionRequest, RequestRefused, VerifiedNothingToDo, ResumeTransport,
           QueryHost, TakeoverStale, TakeoverClaims, TakeoverEndsBrowser, Takeover, Proceeds,
           Verified, peerVars
    <2>2. CASE ~Request(l)
        BY <1>1, <2>2 DEF LinkStep, DisplayResize, ClipboardStart, HelperExits, LinkFails,
           RecoveryTimeout, TransportLost, EndpointQuery, peerVars
    <2> QED
        BY <2>1, <2>2
<1>2. CASE OperationStep
    BY <1>2 DEF OperationStep, ExchangeStep, EndBrowserDone, HostAnswersQuery, QueryReply, ReplyLost,
       HostServesAcquire, AcquireReply, DisplaySettles, BarrierReady, BarrierDeadline, Finish,
       peerVars
<1>3. CASE ServeRelease \/ ServeAbandoned \/ GateStep \/ HostStep \/ UNCHANGED vars
    BY <1>3 DEF ServeRelease, ServeAbandoned, HostServesRelease, HostServesAcquire, GateStep,
       HostStep, HostStopping, HostCrash, ServerExit, HostStopped, HostStart, vars, peerVars
<1> QED
    BY <1>1, <1>2, <1>3 DEF Next

\* A device whose access is removed or being removed holds no session, however
\* the removal interleaves with an admission in progress.
THEOREM RemovalEndsSessions ==
    ASSUME ~EndpointQueryOnSession
    PROVE  Spec => []RevokedHoldsNoSession
<1>1. Init => RevokedHoldsNoSession
    BY DEF Init, RevokedHoldsNoSession
<1>2. ASSUME TypeInv, SoleInv, RevokedHoldsNoSession, [Next]_vars
      PROVE  RevokedHoldsNoSession'
    <2>1. CASE sessionLink' = NoLink
        BY <2>1 DEF RevokedHoldsNoSession
    <2>2. CASE sessionLink' # sessionLink /\ sessionLink' # NoLink
        <3>1. CASE BarrierReady \/ BarrierDeadline
            BY <2>2, <3>1 DEF BarrierReady, BarrierDeadline, Finish, Authorized, peerVars,
               RevokedHoldsNoSession
        <3>2. ASSUME NEW l \in Links, ResumeTransport(l)
              PROVE  RevokedHoldsNoSession'
            BY <3>2 DEF ResumeTransport, Verified, Authorized, peerVars, RevokedHoldsNoSession
        <3> QED
            BY <1>2, <2>2, <3>1, <3>2, SessionGains
    <2>3. CASE sessionLink' = sessionLink /\ sessionLink' # NoLink
        <3>1. CASE UNCHANGED <<granted, revoking>>
            BY <1>2, <2>3, <3>1 DEF RevokedHoldsNoSession
        <3>2. ASSUME NEW c \in Clients, Revoke(c)
              PROVE  RevokedHoldsNoSession'
            <4>1. Alive(sessionLink) /\ sessionLink \in Holders
                BY <1>2, <2>3 DEF SoleInv, SoleAdmission, Holders
            <4>2. Owner[sessionLink] # c
                BY <2>3, <3>2, <4>1 DEF Revoke, Fail, FailLinks, Cleared
            <4> QED
                BY <1>2, <2>3, <3>2, <4>2 DEF Revoke, RevokedHoldsNoSession
        <3>3. ASSUME NEW removed \in BOOLEAN, NEW saved \in BOOLEAN,
                     RevocationDone(removed, saved)
              PROVE  RevokedHoldsNoSession'
            <4>1. Owner[sessionLink] # NoClient
                BY <1>2, <2>3, SessionNulls, GateConstants DEF TypeInv, SupervisorTypeOK,
                   OwnerTypeOK
            <4> QED
                BY <1>2, <2>3, <3>3, <4>1 DEF RevocationDone, RevokedHoldsNoSession
        <3>4. AccessStep \/ UNCHANGED <<granted, revoking>>
            BY <1>2, PeersUnchanged
        <3> QED
            BY <3>1, <3>2, <3>3, <3>4 DEF AccessStep
    <2> QED
        BY <2>1, <2>2, <2>3
<1>3. TypeInv /\ SoleInv /\ [Next]_vars => SoleInv'
    BY SoleInvStep
<1> QED
    BY <1>1, <1>2, <1>3, SoleInvInit, SystemInvariant, PTL DEF Spec

-----------------------------------------------------------------------------
(* Confirmed eviction                                                      *)

\* What the epoch is for: as long as it stands, nobody has become a holder.
ChallengeCurrent ==
    \A l \in Links :
        /\ challenge[l].epoch <= sessionEpoch
        /\ (challenge[l].id # 0 /\ challenge[l].epoch = sessionEpoch)
               => Holders \subseteq challenge[l].against

\* What the serialised operation is for: while one is on its way to a claim,
\* nobody becomes a holder either.
ClaimConfirmed ==
    op.kind \in {"browser", "acquire"} \/ (op.kind = "query" /\ op.takeover)
        => Holders \subseteq op.against

ConfirmedInv == ChallengeCurrent /\ ClaimConfirmed

\* Holders that only go away, an epoch that only grows, challenges that stay.
LEMMA ConfirmedQuiet ==
    ASSUME TypeInv, ConfirmedInv, UNCHANGED challenge, Holders' \subseteq Holders,
           sessionEpoch' \in Nat, sessionEpoch <= sessionEpoch',
           op' = op \/ op'.kind \in {"idle", "barrier"}
    PROVE  ConfirmedInv'
<1>1. \A l \in Links : challenge[l].epoch \in Nat /\ sessionEpoch \in Nat
    BY DEF TypeInv, SupervisorTypeOK, LinkTypeOK, OwnerTypeOK, Challenges
<1>2. ChallengeCurrent'
    BY <1>1 DEF ConfirmedInv, ChallengeCurrent
<1>3. ClaimConfirmed'
    BY DEF ConfirmedInv, ClaimConfirmed
<1> QED
    BY <1>2, <1>3 DEF ConfirmedInv

\* A new holder is announced by a new epoch, and only between operations.
LEMMA ConfirmedBumped ==
    ASSUME TypeInv, ConfirmedInv, UNCHANGED challenge, sessionEpoch' \in Nat,
           sessionEpoch < sessionEpoch', op'.kind = "idle"
    PROVE  ConfirmedInv'
<1>1. \A l \in Links : challenge[l].epoch \in Nat /\ sessionEpoch \in Nat
    BY DEF TypeInv, SupervisorTypeOK, LinkTypeOK, OwnerTypeOK, Challenges
<1>2. ChallengeCurrent'
    BY <1>1 DEF ConfirmedInv, ChallengeCurrent
<1> QED
    BY <1>2 DEF ConfirmedInv, ClaimConfirmed

\* Failing links moves the epoch on when it takes a holder away.
LEMMA ConfirmedFail ==
    ASSUME TypeInv, ConfirmedInv, NEW F \in SUBSET Links, FailLinks(F), UNCHANGED challenge,
           op' = op \/ op'.kind \in {"idle", "barrier"}
    PROVE  ConfirmedInv'
<1>1. Holders' \subseteq Holders
    BY DEF FailLinks, Cleared, Holders
<1>2. \A p : Bump(p, F) \in Nat
    BY DEF Bump
<1>3. sessionEpoch \in Nat
    BY DEF TypeInv, SupervisorTypeOK, OwnerTypeOK
<1>4. sessionEpoch' = sessionEpoch + Bump(sessionLink, F) + Bump(displayLink, F)
                        + Bump(clipboardLink, F)
    BY DEF FailLinks
<1>5. sessionEpoch' \in Nat /\ sessionEpoch <= sessionEpoch'
    BY <1>2, <1>3, <1>4
<1> QED
    BY <1>1, <1>5, ConfirmedQuiet

\* Requests: a challenge is used once and only while its epoch stands.
LEMMA ConfirmedRequest ==
    ASSUME TypeInv, ConfirmedInv, NEW l \in Links, Request(l)
    PROVE  ConfirmedInv'
<1> USE DEF TypeInv, SupervisorTypeOK, OwnerTypeOK
<1>1. CASE \/ RequestRefused(l) \/ VerifiedNothingToDo(l)
           \/ \E takeover \in BOOLEAN, token \in Tokens(Owner[l]) : SessionRequest(l, takeover, token)
    <2>1. UNCHANGED <<challenge, ownerVars, op>>
        BY <1>1 DEF SessionRequest, RequestRefused, VerifiedNothingToDo
    <2> QED
        BY <2>1, ConfirmedQuiet DEF ownerVars, Holders
<1>2. CASE ResumeTransport(l)
    <2>1. UNCHANGED <<challenge, op>> /\ op.kind = "idle"
        BY <1>2 DEF ResumeTransport, Busy
    <2>2. sessionEpoch' \in Nat /\ sessionEpoch < sessionEpoch'
        BY <1>2 DEF ResumeTransport, Bump
    <2> QED
        BY <2>1, <2>2, ConfirmedBumped
<1>3. CASE QueryHost(l)
    <2>1. UNCHANGED <<challenge, ownerVars>> /\ op'.kind = "query" /\ op'.takeover = FALSE
        BY <1>3 DEF QueryHost, Proceeds, IdleOp
    <2> QED
        BY <2>1 DEF ConfirmedInv, ChallengeCurrent, ClaimConfirmed, ownerVars, Holders
<1>4. CASE TakeoverStale(l) \/ TakeoverClaims(l) \/ TakeoverEndsBrowser(l)
    <2>1. /\ UNCHANGED ownerVars /\ op.kind = "idle"
          /\ challenge' = [challenge EXCEPT ![l] = NoChallenge]
        BY <1>4 DEF TakeoverStale, TakeoverClaims, TakeoverEndsBrowser, Takeover, Proceeds, Busy
    <2>2. ChallengeCurrent'
        BY <2>1 DEF ConfirmedInv, ChallengeCurrent, NoChallenge, ownerVars, Holders, LinkTypeOK
    <2>3. ChallengeHolds(l) => Holders' \subseteq challenge[l].against
        BY <2>1 DEF ChallengeHolds, ConfirmedInv, ChallengeCurrent, ownerVars, Holders
    <2>4. ClaimConfirmed'
        <3>1. CASE TakeoverStale(l)
            BY <2>1, <3>1 DEF TakeoverStale, ClaimConfirmed
        <3>2. CASE TakeoverClaims(l)
            <4>1. op'.kind = "idle" \/ op'.against = challenge[l].against
                BY <3>2 DEF TakeoverClaims, StartAcquire, IdleOp
            <4> QED
                BY <2>3, <3>2, <4>1 DEF TakeoverClaims, ClaimConfirmed
        <3>3. CASE TakeoverEndsBrowser(l)
            <4>1. op'.against = challenge[l].against
                BY <3>3 DEF TakeoverEndsBrowser, IdleOp
            <4> QED
                BY <2>3, <3>3, <4>1 DEF TakeoverEndsBrowser, ClaimConfirmed
        <3> QED
            BY <1>4, <3>1, <3>2, <3>3
    <2> QED
        BY <2>2, <2>4 DEF ConfirmedInv
<1> QED
    BY <1>1, <1>2, <1>3, <1>4 DEF Request

\* Answers: a challenge names the holders of its moment, and a claim without one
\* finds no holder.
LEMMA ConfirmedAnswers ==
    ASSUME TypeInv, ConfirmedInv,
           \/ EndBrowserDone \/ HostAnswersQuery \/ QueryReply \/ ReplyLost
           \/ \E okay \in BOOLEAN : DisplaySettles(okay)
           \/ \E r \in posted : HostServesRelease(r)
           \/ \E r \in posted, fence \in BOOLEAN : HostServesAcquire(r, fence)
    PROVE  ConfirmedInv'
<1> USE DEF TypeInv, SupervisorTypeOK
<1>1. UNCHANGED ownerVars
    BY DEF EndBrowserDone, HostAnswersQuery, QueryReply, ReplyLost, DisplaySettles,
       HostServesRelease, HostServesAcquire
<1>2. Holders' = Holders /\ sessionEpoch' = sessionEpoch /\ sessionEpoch \in Nat
    BY <1>1 DEF ownerVars, Holders, OwnerTypeOK
<1>3. CASE UNCHANGED challenge /\ op' \in {op, IdleOp}
    BY <1>2, <1>3, ConfirmedQuiet DEF IdleOp
<1>4. ASSUME UNCHANGED challenge, op \in Operations, op' \in Operations,
             op'.against = op.against, op'.takeover = op.takeover,
             op'.kind = op.kind \/ op.kind = "browser"
      PROVE  ConfirmedInv'
    BY <1>2, <1>4 DEF ConfirmedInv, ChallengeCurrent, ClaimConfirmed
<1>5. CASE QueryReply
    <2>1. op \in Operations /\ op.kind = "query"
        BY <1>5, BusyTyped DEF QueryReply
    <2>2. CASE IssueChallenge
        <3>1. challenge' = [challenge EXCEPT ![op.link] =
                 [id |-> op.id, snapshot |-> op.answer.snapshot, epoch |-> sessionEpoch,
                  against |-> Holders]] /\ op' = IdleOp
            BY <2>2 DEF IssueChallenge
        <3>2. ChallengeCurrent'
            BY <1>2, <3>1 DEF ConfirmedInv, ChallengeCurrent, LinkTypeOK
        <3> QED
            BY <3>1, <3>2 DEF ConfirmedInv, ClaimConfirmed, IdleOp
    <2>3. CASE /\ IF op.takeover THEN ~op.answer.reserved ELSE ~Occupied
               /\ StartAcquire(op.link, op.id, op.answer.snapshot, op.takeover, op.against)
               /\ UNCHANGED challenge
        <3>1. op'.kind = "idle" \/ op'.against = op.against
            BY <2>3 DEF StartAcquire, IdleOp
        <3>2. Holders \subseteq op.against
            BY <2>1, <2>3 DEF Occupied, ConfirmedInv, ClaimConfirmed
        <3> QED
            BY <1>2, <2>3, <3>1, <3>2 DEF ConfirmedInv, ChallengeCurrent, ClaimConfirmed
    <2> QED
        BY <1>3, <1>5, <2>2, <2>3 DEF QueryReply
<1>6. CASE \/ EndBrowserDone \/ HostAnswersQuery \/ ReplyLost
           \/ \E okay \in BOOLEAN : DisplaySettles(okay)
           \/ \E r \in posted : HostServesRelease(r)
           \/ \E r \in posted, fence \in BOOLEAN : HostServesAcquire(r, fence)
    <2>1. UNCHANGED challenge
        BY <1>6 DEF EndBrowserDone, HostAnswersQuery, ReplyLost, DisplaySettles,
           HostServesRelease, HostServesAcquire, linkVars
    <2>2. op' \in {op, IdleOp} \/ op \in Operations
        BY <1>6, BusyTyped DEF EndBrowserDone, HostAnswersQuery, ReplyLost, DisplaySettles,
           HostServesRelease, HostServesAcquire
    <2>3. ASSUME op \in Operations
          PROVE  \/ op' \in {op, IdleOp}
                 \/ /\ op'.against = op.against /\ op'.takeover = op.takeover
                    /\ op'.kind = op.kind \/ op.kind = "browser"
        <3>1. CASE EndBrowserDone
            BY <2>3, <3>1 DEF EndBrowserDone, Operations
        <3>2. CASE HostAnswersQuery \/ \E okay \in BOOLEAN : DisplaySettles(okay)
            BY <2>3, <3>2 DEF HostAnswersQuery, DisplaySettles, Operations
        <3>3. CASE \E r \in posted, fence \in BOOLEAN : HostServesAcquire(r, fence)
            BY <2>3, <3>3 DEF HostServesAcquire, Operations
        <3> QED
            BY <1>6, <3>1, <3>2, <3>3 DEF ReplyLost, HostServesRelease
    <2>4. op' \in Operations \cup {IdleOp}
        BY <1>6, TypedAnswer, TypedServe DEF SystemTypeOK
    <2> QED
        BY <1>3, <1>4, <2>1, <2>2, <2>3, <2>4
<1> QED
    BY <1>5, <1>6

\* The operation's end, and the links that come and go.
LEMMA ConfirmedOwners ==
    ASSUME TypeInv, ConfirmedInv,
           \/ AcquireReply \/ BarrierReady \/ BarrierDeadline
           \/ \E l \in Links : DisplayResize(l) \/ \E v2 \in BOOLEAN : ClipboardStart(l, v2)
    PROVE  ConfirmedInv'
<1> USE DEF TypeInv, SupervisorTypeOK, OwnerTypeOK
<1>1. CASE AcquireReply
    <2>1. op \in Operations /\ UNCHANGED challenge
        BY <1>1, BusyTyped DEF AcquireReply
    <2>2. CASE op.answer.status
        <3>1. FailLinks({k \in Holders : Alive(k)} \ {op.link}) /\ op'.kind = "barrier"
            BY <1>1, <2>1, <2>2 DEF AcquireReply, Fail, Operations
        <3> QED
            BY <2>1, <3>1, HoldersAreLinks, ConfirmedFail
    <2>3. CASE ~op.answer.status
        BY <1>1, <2>1, <2>3, ConfirmedQuiet DEF AcquireReply, ownerVars, Holders, IdleOp
    <2> QED
        BY <2>2, <2>3
<1>2. CASE BarrierReady \/ BarrierDeadline
    <2>1. PICK restored \in BOOLEAN : Finish(restored)
        BY <1>2 DEF BarrierReady, BarrierDeadline
    <2>2. CASE restored /\ Alive(op.link) /\ Authorized(Owner[op.link])
        BY <2>1, <2>2, ConfirmedBumped DEF Finish, IdleOp
    <2>3. CASE ~(restored /\ Alive(op.link) /\ Authorized(Owner[op.link]))
        BY <2>1, <2>3, ConfirmedQuiet DEF Finish, IdleOp, Holders
    <2> QED
        BY <2>2, <2>3
<1>3. ASSUME NEW l \in Links, DisplayResize(l)
      PROVE  ConfirmedInv'
    <2>1. UNCHANGED <<challenge, op>> /\ op.kind = "idle"
        BY <1>3 DEF DisplayResize, linkVars, Busy
    <2>2. CASE displayLink = l
        BY <1>3, <2>1, <2>2, ConfirmedQuiet DEF DisplayResize, Holders
    <2>3. CASE displayLink # l
        BY <1>3, <2>1, <2>3, ConfirmedBumped DEF DisplayResize
    <2> QED
        BY <2>2, <2>3
<1>4. ASSUME NEW l \in Links, NEW v2 \in BOOLEAN, ClipboardStart(l, v2)
      PROVE  ConfirmedInv'
    BY <1>4, ConfirmedBumped DEF ClipboardStart, linkVars, Busy
<1> QED
    BY <1>1, <1>2, <1>3, <1>4

\* Links that end: the challenges of the epoch that passed are void.
LEMMA ConfirmedLinkEnds ==
    ASSUME TypeInv, ConfirmedInv, NEW l \in Links,
           \/ HelperExits(l) \/ LinkFails(l) \/ RecoveryTimeout(l)
           \/ TransportLost(l) \/ EndpointQuery(l)
    PROVE  ConfirmedInv'
<1> USE DEF TypeInv, SupervisorTypeOK, OwnerTypeOK
<1>1. UNCHANGED <<challenge, op>>
    BY DEF HelperExits, LinkFails, RecoveryTimeout, TransportLost, EndpointQuery
<1>2. CASE FailLinks({l})
    BY <1>1, <1>2, ConfirmedFail
<1>3. CASE UNCHANGED ownerVars
    BY <1>1, <1>3, ConfirmedQuiet DEF ownerVars, Holders
<1>4. CASE TransportLost(l) /\ Recoverable(l) /\ l # clipboardLink
    <2>1. Holders' \subseteq Holders
        BY <1>4 DEF TransportLost, Cleared, Holders
    <2>2. sessionEpoch' \in Nat /\ sessionEpoch <= sessionEpoch'
        BY <1>4 DEF TransportLost, Bump
    <2> QED
        BY <1>1, <2>1, <2>2, ConfirmedQuiet
<1> QED
    BY <1>2, <1>3, <1>4 DEF HelperExits, LinkFails, RecoveryTimeout, TransportLost,
       EndpointQuery, Fail

\* Removals and the host: they only fail links.
LEMMA ConfirmedAccessAndHost ==
    ASSUME TypeInv, ConfirmedInv, AccessStep \/ HostStep
    PROVE  ConfirmedInv'
<1> USE DEF TypeInv, SupervisorTypeOK, OwnerTypeOK
<1>1. UNCHANGED <<challenge, op>>
    BY DEF AccessStep, Revoke, RevocationDone, HostStep, HostStopping, HostCrash, ServerExit,
       HostStopped, HostStart, linkVars
<1>2. CASE UNCHANGED ownerVars
    BY <1>1, <1>2, ConfirmedQuiet DEF ownerVars, Holders
<1>3. ASSUME NEW c \in Clients, Revoke(c)
      PROVE  ConfirmedInv'
    <2>1. FailLinks({k \in Holders : Alive(k) /\ Owner[k] = c})
        BY <1>3 DEF Revoke, Fail
    <2> QED
        BY <1>1, <2>1, HoldersAreLinks, ConfirmedFail
<1>4. CASE HostStopping \/ HostCrash
    <2>1. FailLinks({k \in Holders : Alive(k)})
        BY <1>4 DEF HostStopping, HostCrash, Fail
    <2> QED
        BY <1>1, <2>1, HoldersAreLinks, ConfirmedFail
<1> QED
    BY <1>2, <1>3, <1>4 DEF AccessStep, RevocationDone, HostStep, ServerExit, HostStopped,
       HostStart

\* No challenge has been issued at first.
LEMMA ConfirmedInvInit == Init => ConfirmedInv
BY DEF Init, IdleOp, NoChallenge, ConfirmedInv, ChallengeCurrent, ClaimConfirmed

\* Every step keeps the challenges of this epoch, and the claim, current.
LEMMA ConfirmedInvStep ==
    ASSUME TypeInv, ConfirmedInv, [Next]_vars
    PROVE  ConfirmedInv'
<1>1. ASSUME NEW l \in Links, LinkStep(l)
      PROVE  ConfirmedInv'
    BY <1>1, ConfirmedRequest, ConfirmedOwners, ConfirmedLinkEnds DEF LinkStep
<1>2. CASE OperationStep
    BY <1>2, ConfirmedAnswers, ConfirmedOwners DEF OperationStep, ExchangeStep
<1>3. CASE ServeRelease \/ ServeAbandoned
    BY <1>3, ConfirmedAnswers DEF ServeRelease, ServeAbandoned
<1>4. CASE AccessStep \/ HostStep
    BY <1>4, ConfirmedAccessAndHost
<1>5. CASE GateStep \/ UNCHANGED vars
    <2>1. UNCHANGED <<challenge, ownerVars, op>>
        BY <1>5 DEF GateStep, vars, linkVars
    <2> QED
        BY <2>1, ConfirmedQuiet DEF ownerVars, Holders, TypeInv, SupervisorTypeOK, OwnerTypeOK
<1> QED
    BY <1>1, <1>2, <1>3, <1>4, <1>5 DEF Next

\* A takeover evicts only holders its user was asked about: no device, display
\* or clipboard that came in between is ended by a stale confirmation.
THEOREM TakeoverIsConfirmed == Spec => []ConfirmedEviction
<1>1. ConfirmedInv => ConfirmedEviction
    BY DEF ConfirmedInv, ClaimConfirmed, ConfirmedEviction
<1>2. TypeInv /\ ConfirmedInv /\ [Next]_vars => ConfirmedInv'
    BY ConfirmedInvStep
<1> QED
    BY <1>1, <1>2, ConfirmedInvInit, SystemInvariant, PTL DEF Spec
=============================================================================

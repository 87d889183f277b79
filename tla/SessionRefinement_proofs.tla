----------------------- MODULE SessionRefinement_proofs -----------------------
(***************************************************************************)
(* Proof that SessionAdmission implements ExclusiveSession, for any number *)
(* of devices, connections, requests and host restarts: every step is a    *)
(* step of the abstract session or leaves it as it was.                    *)
(*                                                                         *)
(* Finish looks neither at the pointer it overwrites nor at the lease of   *)
(* the link it admits.  ClaimantInv says why it need not: a claimant is    *)
(* never the session already, and its link keeps the lease of the claim    *)
(* until the claim is decided.                                             *)
(*                                                                         *)
(* With that, a release that is late spares the session and the claim of   *)
(* its moment (`LeasesApart'), and the host process agrees with            *)
(* PeerManager on the owner of the session, or has replaced the process    *)
(* that granted it and knows no device (`Agreement').                      *)
(***************************************************************************)
EXTENDS SessionAdmission_proofs

ClaimantIsNew == Busy => sessionLink # op.link

ClaimantHoldsLease == op.kind \in {"acquire", "barrier"} => linkLease[op.link] = op.id

ClaimantInv == ClaimantIsNew /\ ClaimantHoldsLease

\* A step of the abstract session, or none.
AbstractStep == Exclusive!Next \/ UNCHANGED Exclusive!vars

\* What every action has to be shown to do.
Implements == ClaimantInv' /\ AbstractStep

\* The claim stays what it is.
SameClaim == op'.link = op.link /\ op'.id = op.id

\* An operation moves on by itself; none begins, and none comes to claim a lease.
SameOperation ==
    /\ SameClaim
    /\ Busy' => Busy
    /\ op'.kind \in {"acquire", "barrier"} => op.kind \in {"acquire", "barrier"}

-----------------------------------------------------------------------------
(* Lemmas: how a step of the code maps                                     *)

\* The idle operation is no claim.
LEMMA IdleIsNoClaim ==
    /\ IdleOp.link = NoLink /\ IdleOp.id = NoLease /\ IdleOp.kind = "idle"
    /\ Exclusive!NoClaim = [link |-> NoLink, lease |-> NoLease]
BY SessionNulls DEF IdleOp, Exclusive!NoClaim

\* An operation in progress is a claim by a link, under a lease.
LEMMA BusyIsClaim ==
    ASSUME TypeInv, Busy
    PROVE  /\ op \in Operations /\ op.link \in Links /\ op.id \in Leases
           /\ [link |-> op.link, lease |-> op.id] # Exclusive!NoClaim
<1>1. op \in Operations
    BY BusyTyped DEF Busy, TypeInv, SupervisorTypeOK
<1>2. op.link \in Links /\ op.id \in Leases
    BY <1>1 DEF Operations
<1> QED
    BY <1>1, <1>2, SessionNulls DEF Exclusive!NoClaim

\* No operation in progress is no claim.
LEMMA NotBusyIsNoClaim ==
    ASSUME TypeInv, ~Busy
    PROVE  op = IdleOp /\ [link |-> op.link, lease |-> op.id] = Exclusive!NoClaim
<1>1. op = IdleOp
    BY DEF Busy, TypeInv, SupervisorTypeOK, SystemTypeOK, Operations, Kinds
<1> QED
    BY <1>1, IdleIsNoClaim

\* Nothing the abstract session sees has changed.
LEMMA MapsToStutter ==
    ASSUME SameClaim, UNCHANGED <<sessionLink, granted, revoking>>,
           sessionLink # NoLink => linkLease'[sessionLink] = linkLease[sessionLink]
    PROVE  AbstractStep
BY DEF AbstractStep, SameClaim, Exclusive!vars

\* A claim is dropped and nothing else.
LEMMA MapsToGiveUp ==
    ASSUME TypeInv, Busy, op' = IdleOp, UNCHANGED <<sessionLink, linkLease, granted, revoking>>
    PROVE  Implements
<1>1. Exclusive!GiveUp
    BY BusyIsClaim, IdleIsNoClaim DEF Exclusive!GiveUp
<1>2. ClaimantInv'
    BY IdleIsNoClaim DEF ClaimantInv, ClaimantIsNew, ClaimantHoldsLease, Busy
<1> QED
    BY <1>1, <1>2 DEF Implements, AbstractStep, Exclusive!Next

\* Ending links ends the session or leaves it alone.
LEMMA MapsToLeave ==
    ASSUME TypeInv, ClaimantInv, SameOperation, UNCHANGED <<linkLease, granted, revoking>>,
           sessionLink' \in {sessionLink, NoLink}
    PROVE  Implements
<1>1. ClaimantInv'
    BY BusyIsClaim, SessionNulls DEF ClaimantInv, ClaimantIsNew, ClaimantHoldsLease,
       SameOperation, SameClaim
<1>2. CASE sessionLink' = sessionLink
    BY <1>1, <1>2, MapsToStutter DEF SameOperation, Implements
<1>3. CASE sessionLink' # sessionLink
    <2>1. Exclusive!Leave
        BY <1>3 DEF Exclusive!Leave, SameOperation, SameClaim
    <2> QED
        BY <1>1, <2>1 DEF Implements, AbstractStep, Exclusive!Next
<1> QED
    BY <1>2, <1>3

\* A claim begins, for a link that is not the session and a device that is allowed.
LEMMA MapsToBegin ==
    ASSUME TypeInv, ~Busy, NEW l \in Links, NEW id \in Leases,
           l # sessionLink, Authorized(Owner[l]),
           op'.link = l, op'.id = id, UNCHANGED <<sessionLink, granted, revoking>>,
           \A k \in Links : k # l => linkLease'[k] = linkLease[k],
           op'.kind \in {"acquire", "barrier"} => linkLease'[l] = id
    PROVE  Implements
<1>1. sessionLink # NoLink => linkLease'[sessionLink] = linkLease[sessionLink]
    BY DEF TypeInv, SupervisorTypeOK, OwnerTypeOK
<1>2. Owner[l] \in granted \ {revoking}
    BY DEF Authorized
<1>3. Exclusive!Begin(l, id)
    BY <1>1, <1>2, NotBusyIsNoClaim DEF Exclusive!Begin
<1>4. ClaimantInv'
    BY DEF ClaimantInv, ClaimantIsNew, ClaimantHoldsLease
<1> QED
    BY <1>3, <1>4 DEF Implements, AbstractStep, Exclusive!Next

\* The callbacks that neither begin nor decide a claim, and links that come.
LEMMA MapsQuiet ==
    ASSUME TypeInv, ClaimantInv, SameOperation,
           UNCHANGED <<sessionLink, linkLease, granted, revoking>>
    PROVE  Implements
BY MapsToLeave

-----------------------------------------------------------------------------
(* The actions                                                             *)

\* A request stays a request, or becomes a claim.
LEMMA RefinesRequest ==
    ASSUME TypeInv, SoleInv, ClaimantInv, NEW l \in Links, Request(l), ~ResumeTransport(l)
    PROVE  Implements
<1>1. CASE \/ RequestRefused(l) \/ VerifiedNothingToDo(l) \/ TakeoverStale(l)
           \/ \E takeover \in BOOLEAN, token \in Tokens(Owner[l]) : SessionRequest(l, takeover, token)
    <2>1. UNCHANGED <<sessionLink, linkLease, op, granted, revoking>>
        BY <1>1 DEF SessionRequest, RequestRefused, VerifiedNothingToDo, TakeoverStale, Takeover,
           Proceeds, Verified, ownerVars, peerVars
    <2> QED
        BY <2>1, MapsQuiet DEF SameOperation, SameClaim, Busy
<1>2. CASE QueryHost(l) \/ TakeoverClaims(l) \/ TakeoverEndsBrowser(l)
    <2>1. /\ Verified(l) /\ ~Busy /\ ~(l = sessionLink /\ l \in admitted)
          /\ UNCHANGED <<sessionLink, granted, revoking>>
        BY <1>2 DEF QueryHost, TakeoverClaims, TakeoverEndsBrowser, Takeover, Proceeds, Verified,
           ownerVars, peerVars
    <2>2. l # sessionLink /\ Authorized(Owner[l])
        BY <2>1, SessionNulls DEF SoleInv, SoleAdmission, Verified
    <2>3. pending[l].id \in Leases
        BY <2>1, VerifiedTyped DEF Requests, TypeInv, SupervisorTypeOK
    <2>4. CASE QueryHost(l) \/ TakeoverEndsBrowser(l)
        <3>1. /\ op'.link = l /\ op'.id = pending[l].id /\ op'.kind \in {"query", "browser"}
              /\ linkLease' = linkLease
            BY <2>4 DEF QueryHost, TakeoverEndsBrowser, IdleOp
        <3> QED
            BY <2>1, <2>2, <2>3, <3>1, MapsToBegin
    <2>5. CASE TakeoverClaims(l)
        <3>1. /\ linkLease' = [linkLease EXCEPT ![l] = pending[l].id]
              /\ op'.link = l /\ op'.id = pending[l].id
            BY <2>1, <2>5 DEF TakeoverClaims, StartAcquire, Verified, IdleOp
        <3>2. linkLease'[l] = pending[l].id /\ \A k \in Links : k # l => linkLease'[k] = linkLease[k]
            BY <3>1 DEF TypeInv, SupervisorTypeOK, LinkTypeOK
        <3> QED
            BY <2>1, <2>2, <2>3, <3>1, <3>2, MapsToBegin
    <2> QED
        BY <1>2, <2>4, <2>5
<1> QED
    BY <1>1, <1>2 DEF Request

\* A resumed session is the same session over another connection.
LEMMA RefinesResume ==
    ASSUME TypeInv, NEW l \in Links, ResumeTransport(l)
    PROVE  Implements
<1>1. /\ ~Busy /\ Verified(l) /\ op' = op /\ sessionLink' = l
      /\ sessionLink \notin {NoLink, l} /\ Owner[sessionLink] = Owner[l]
      /\ UNCHANGED <<granted, revoking>>
    BY DEF ResumeTransport, Resumes, Verified, peerVars
<1>2. linkLease'[l] = linkLease[sessionLink]
    BY <1>1 DEF ResumeTransport, TypeInv, SupervisorTypeOK, LinkTypeOK, OwnerTypeOK
<1>3. Owner[l] \in granted \ {revoking}
    BY <1>1 DEF Verified, Authorized
<1>4. Exclusive!Reconnect(l)
    BY <1>1, <1>2, <1>3, NotBusyIsNoClaim, SessionNulls DEF Exclusive!Reconnect
<1>5. ClaimantInv'
    BY <1>1 DEF ClaimantInv, ClaimantIsNew, ClaimantHoldsLease, Busy
<1> QED
    BY <1>4, <1>5 DEF Implements, AbstractStep, Exclusive!Next

\* Answers, and what the host serves, leave a claim to go on or end it.
LEMMA RefinesAnswers ==
    ASSUME TypeInv, ClaimantInv,
           \/ EndBrowserDone \/ HostAnswersQuery \/ ReplyLost
           \/ \E okay \in BOOLEAN : DisplaySettles(okay)
           \/ \E r \in posted : HostServesRelease(r)
           \/ \E r \in posted, fence \in BOOLEAN : HostServesAcquire(r, fence)
    PROVE  Implements
<1>1. UNCHANGED <<sessionLink, linkLease, granted, revoking>>
    BY DEF EndBrowserDone, HostAnswersQuery, ReplyLost, DisplaySettles, HostServesRelease,
       HostServesAcquire, linkVars, ownerVars, peerVars
<1>2. CASE op' = op
    BY <1>1, <1>2, MapsQuiet DEF SameOperation, SameClaim, Busy
<1>3. CASE op' # op
    <2>1. Busy
        BY <1>3 DEF EndBrowserDone, HostAnswersQuery, ReplyLost, DisplaySettles,
           HostServesRelease, HostServesAcquire, Busy
    <2>2. op \in Operations
        BY <2>1, BusyIsClaim
    <2>3. CASE op' = IdleOp
        BY <1>1, <2>1, <2>3, MapsToGiveUp
    <2>4. CASE op' # IdleOp
        <3>1. op'.link = op.link /\ op'.id = op.id /\ op'.kind \in {op.kind, "query"}
            <4>1. CASE EndBrowserDone
                BY <2>2, <2>4, <4>1 DEF EndBrowserDone, Operations
            <4>2. CASE HostAnswersQuery \/ \E okay \in BOOLEAN : DisplaySettles(okay)
                BY <2>2, <4>2 DEF HostAnswersQuery, DisplaySettles, Operations
            <4>3. CASE \E r \in posted, fence \in BOOLEAN : HostServesAcquire(r, fence)
                BY <2>2, <4>3 DEF HostServesAcquire, Operations
            <4> QED
                BY <1>3, <2>4, <4>1, <4>2, <4>3 DEF ReplyLost, HostServesRelease
        <3> QED
            BY <1>1, <2>1, <3>1, MapsQuiet DEF SameOperation, SameClaim
    <2> QED
        BY <2>3, <2>4
<1> QED
    BY <1>2, <1>3

\* The answer of GET sessions ends the claim in a challenge or gives it its lease.
LEMMA RefinesQueryReply ==
    ASSUME TypeInv, ClaimantInv, QueryReply
    PROVE  Implements
<1>1. /\ Busy /\ UNCHANGED <<sessionLink, granted, revoking>> /\ sessionLink # op.link
      /\ hostState # "down"
    BY DEF QueryReply, Busy, ReplyValid, ownerVars, peerVars, ClaimantInv, ClaimantIsNew
<1>2. CASE op' = IdleOp /\ linkLease' = linkLease
    BY <1>1, <1>2, MapsToGiveUp
<1>3. CASE StartAcquire(op.link, op.id, op.answer.snapshot, op.takeover, op.against)
    <2>1. /\ linkLease' = [linkLease EXCEPT ![op.link] = op.id]
          /\ op'.link = op.link /\ op'.id = op.id
        BY <1>1, <1>3 DEF StartAcquire, IdleOp
    <2>2. linkLease'[op.link] = op.id
          /\ (sessionLink # NoLink => linkLease'[sessionLink] = linkLease[sessionLink])
        BY <1>1, <2>1, BusyIsClaim DEF TypeInv, SupervisorTypeOK, LinkTypeOK, OwnerTypeOK
    <2>3. ClaimantInv'
        BY <1>1, <2>1, <2>2 DEF ClaimantInv, ClaimantIsNew, ClaimantHoldsLease
    <2> QED
        BY <1>1, <2>1, <2>2, <2>3, MapsToStutter DEF SameClaim, Implements
<1> QED
    BY <1>2, <1>3 DEF QueryReply, IssueChallenge

\* A granted claim ends the session it takes over, in a step of its own.
LEMMA RefinesAcquireReply ==
    ASSUME TypeInv, ClaimantInv, AcquireReply
    PROVE  Implements
<1>1. Busy /\ op \in Operations /\ op.kind = "acquire"
      /\ UNCHANGED <<linkLease, granted, revoking>>
    BY BusyIsClaim DEF AcquireReply, Busy, peerVars
<1>2. CASE op.answer.status
    <2>1. sessionLink' \in {sessionLink, NoLink}
        BY <1>2 DEF AcquireReply, Fail, FailLinks, Cleared
    <2>2. op'.link = op.link /\ op'.id = op.id
        BY <1>1, <1>2 DEF AcquireReply, Operations
    <2> QED
        BY <1>1, <2>1, <2>2, MapsToLeave DEF SameOperation, SameClaim
<1>3. CASE ~op.answer.status
    BY <1>1, <1>3, MapsToGiveUp DEF AcquireReply, ownerVars
<1> QED
    BY <1>2, <1>3

\* The barrier's end decides the claim: the desktop it wins is unowned.
LEMMA RefinesFinish ==
    ASSUME TypeInv, SoleInv, ClaimantInv, BarrierReady \/ BarrierDeadline
    PROVE  Implements
<1>1. op.kind = "barrier" /\ Busy
    BY DEF BarrierReady, BarrierDeadline, Busy
<1>2. PICK restored \in BOOLEAN : Finish(restored)
    BY DEF BarrierReady, BarrierDeadline
<1>3. op' = IdleOp /\ UNCHANGED <<linkLease, granted, revoking>>
    BY <1>2 DEF Finish, peerVars
<1>4. CASE restored /\ Alive(op.link) /\ Authorized(Owner[op.link])
    <2>1. sessionLink' = op.link /\ op.link # NoLink
        BY <1>1, <1>2, <1>4, BusyIsClaim, SessionNulls DEF Finish
    <2>2. sessionLink = NoLink
        BY <1>1 DEF SoleInv, BarrierExclusive, ClaimantInv, ClaimantIsNew
    <2>3. linkLease'[op.link] = op.id
        BY <1>1, <1>3 DEF ClaimantInv, ClaimantHoldsLease
    <2>4. Owner[op.link] \in granted \ {revoking}
        BY <1>4 DEF Authorized
    <2>5. Exclusive!Win
        BY <1>1, <1>3, <2>1, <2>2, <2>3, <2>4, BusyIsClaim, IdleIsNoClaim DEF Exclusive!Win
    <2>6. ClaimantInv'
        BY <1>3, IdleIsNoClaim DEF ClaimantInv, ClaimantIsNew, ClaimantHoldsLease, Busy
    <2> QED
        BY <2>5, <2>6 DEF Implements, AbstractStep, Exclusive!Next
<1>5. CASE ~(restored /\ Alive(op.link) /\ Authorized(Owner[op.link]))
    BY <1>1, <1>2, <1>3, <1>5, MapsToGiveUp DEF Finish
<1> QED
    BY <1>4, <1>5

\* Links that come and go only end the session.
LEMMA RefinesLinks ==
    ASSUME TypeInv, ClaimantInv, NEW l \in Links,
           \/ DisplayResize(l) \/ \E v2 \in BOOLEAN : ClipboardStart(l, v2)
           \/ HelperExits(l) \/ LinkFails(l) \/ RecoveryTimeout(l)
           \/ TransportLost(l) \/ EndpointQuery(l)
    PROVE  Implements
<1>1. UNCHANGED <<linkLease, op, granted, revoking>>
    BY DEF DisplayResize, ClipboardStart, HelperExits, LinkFails, RecoveryTimeout, TransportLost,
       EndpointQuery, linkVars, peerVars
<1>2. sessionLink' \in {sessionLink, NoLink}
    BY DEF DisplayResize, ClipboardStart, HelperExits, LinkFails, RecoveryTimeout, TransportLost,
       EndpointQuery, Fail, FailLinks, Cleared, ownerVars
<1> QED
    BY <1>1, <1>2, MapsToLeave DEF SameOperation, SameClaim, Busy

\* Removing a device denies it the session; a removal that fails allows it again.
LEMMA RefinesAccess ==
    ASSUME TypeInv, SoleInv, ClaimantInv, AccessStep
    PROVE  Implements
<1>1. UNCHANGED <<linkLease, op>>
    BY DEF AccessStep, Revoke, RevocationDone, linkVars
<1>2. ASSUME sessionLink' \in {sessionLink, NoLink}
      PROVE  ClaimantInv'
    BY <1>1, <1>2, BusyIsClaim, SessionNulls DEF ClaimantInv, ClaimantIsNew, ClaimantHoldsLease,
       Busy
<1>3. ASSUME NEW c \in Clients, Revoke(c)
      PROVE  Implements
    <2>1. /\ c \in granted \ {revoking} /\ revoking' = c /\ granted' = granted
          /\ granted \subseteq Clients /\ revoking = NoClient
        BY <1>3, GateConstants DEF Revoke, TypeInv, SupervisorTypeOK, SystemTypeOK
    <2>2. granted' \ {revoking'} = (granted \ {revoking}) \ {c}
        BY <2>1, GateConstants
    <2>3. sessionLink' = IF sessionLink # NoLink /\ Owner[sessionLink] = c THEN NoLink
                         ELSE sessionLink
        BY <1>3 DEF Revoke, Fail, FailLinks, Cleared, SoleInv, SoleAdmission, Holders
    <2>4. Exclusive!Deny(c)
        BY <1>1, <2>1, <2>2, <2>3 DEF Exclusive!Deny
    <2> QED
        BY <1>2, <2>3, <2>4 DEF Implements, AbstractStep, Exclusive!Next
<1>4. ASSUME NEW removed \in BOOLEAN, NEW saved \in BOOLEAN, RevocationDone(removed, saved)
      PROVE  Implements
    <2>1. /\ revoking \in Clients /\ revoking' = NoClient /\ sessionLink' = sessionLink
          /\ granted' \in {granted, granted \ {revoking}} /\ granted \subseteq Clients
        BY <1>4 DEF RevocationDone, TypeInv, SupervisorTypeOK, SystemTypeOK, ownerVars
    <2>2. CASE granted' \ {revoking'} = granted \ {revoking}
        <3>1. UNCHANGED Exclusive!vars
            BY <1>1, <2>1, <2>2 DEF Exclusive!vars
        <3> QED
            BY <1>2, <2>1, <3>1 DEF Implements, AbstractStep
    <2>3. CASE granted' \ {revoking'} = (granted \ {revoking}) \cup {revoking}
        <3>1. Exclusive!Allow(revoking)
            BY <1>1, <2>1, <2>3 DEF Exclusive!Allow
        <3> QED
            BY <1>2, <2>1, <3>1 DEF Implements, AbstractStep, Exclusive!Next
    <2> QED
        BY <2>1, <2>2, <2>3, GateConstants
<1> QED
    BY <1>3, <1>4 DEF AccessStep

\* The host's processes come and go; the sessions end with them.
LEMMA RefinesHost ==
    ASSUME TypeInv, ClaimantInv, HostStep
    PROVE  Implements
<1>1. UNCHANGED <<linkLease, op, granted, revoking>>
    BY DEF HostStep, HostStopping, HostCrash, ServerExit, HostStopped, HostStart, linkVars,
       peerVars
<1>2. sessionLink' \in {sessionLink, NoLink}
    BY DEF HostStep, HostStopping, HostCrash, ServerExit, HostStopped, HostStart, Fail, FailLinks,
       Cleared, ownerVars
<1> QED
    BY <1>1, <1>2, MapsToLeave DEF SameOperation, SameClaim, Busy

-----------------------------------------------------------------------------
(* Implementation                                                          *)

\* Every step of the code is a step of the abstract session or leaves it alone.
LEMMA StepImplements ==
    ASSUME TypeInv, SoleInv, ClaimantInv, [Next]_vars
    PROVE  Implements
<1>1. ASSUME NEW l \in Links, LinkStep(l)
      PROVE  Implements
    BY <1>1, RefinesRequest, RefinesResume, RefinesLinks DEF LinkStep
<1>2. CASE OperationStep
    BY <1>2, RefinesAnswers, RefinesQueryReply, RefinesAcquireReply, RefinesFinish
       DEF OperationStep, ExchangeStep
<1>3. CASE ServeRelease \/ ServeAbandoned
    BY <1>3, RefinesAnswers DEF ServeRelease, ServeAbandoned
<1>4. CASE AccessStep \/ HostStep
    BY <1>4, RefinesAccess, RefinesHost
<1>5. CASE GateStep \/ UNCHANGED vars
    <2>1. UNCHANGED <<sessionLink, linkLease, op, granted, revoking>>
        BY <1>5 DEF GateStep, vars, linkVars, ownerVars, peerVars
    <2> QED
        BY <2>1, MapsQuiet DEF SameOperation, SameClaim, Busy
<1> QED
    BY <1>1, <1>2, <1>3, <1>4, <1>5 DEF Next

\* Nobody owns or claims the desktop at first, and every device is allowed.
LEMMA InitImplements == Init => Exclusive!Init /\ ClaimantInv
<1> SUFFICES ASSUME Init
             PROVE  Exclusive!Init /\ ClaimantInv
    OBVIOUS
<1>1. op = IdleOp /\ sessionLink = NoLink /\ granted = Clients /\ revoking = NoClient
    BY DEF Init
<1>2. granted \ {revoking} = Clients
    BY <1>1, GateConstants
<1>3. Exclusive!Init
    BY <1>1, <1>2, IdleIsNoClaim DEF Exclusive!Init
<1> QED
    BY <1>1, <1>3, IdleIsNoClaim DEF ClaimantInv, ClaimantIsNew, ClaimantHoldsLease, Busy

\* The host keeps the promise of ExclusiveSession: one owner, under the lease of
\* the claim that won an unowned desktop, replaced in place only by its own
\* device, and none whose access is going.
THEOREM HostImplementsExclusiveSession ==
    ASSUME ~EndpointQueryOnSession
    PROVE  Spec => ExclusiveSpec
<1>1. TypeInv /\ SoleInv /\ [Next]_vars => SoleInv'
    BY SoleInvStep
<1>2. TypeInv /\ SoleInv /\ ClaimantInv /\ [Next]_vars => ClaimantInv'
    BY StepImplements DEF Implements
<1>3. TypeInv /\ SoleInv /\ ClaimantInv /\ [Next]_vars => [Exclusive!Next]_(Exclusive!vars)
    BY StepImplements DEF Implements, AbstractStep
<1> QED
    BY <1>1, <1>2, <1>3, InitImplements, SoleInvInit, SystemInvariant, PTL
       DEF Spec, ExclusiveSpec, Exclusive!Spec
-----------------------------------------------------------------------------
(* Leases: a release that is late                                          *)

\* The leases that releases on their way give back.
Released == {r.lease : r \in {p \in posted : p.type = "release"}}

\* With the session's lease: those that no claim may have.
Taken == Released \cup (IF sessionLink = NoLink THEN {} ELSE {linkLease[sessionLink]})

\* A claim has a lease of its own, from its request on; what is on its way back
\* is nobody's any more.
LeasesApart ==
    /\ \A l \in Links : pending[l] # NoRequest =>
          pending[l].id <= asked /\ pending[l].id \notin Taken /\ pending[l].id # op.id
    /\ \A k, l \in Links :
          pending[k] # NoRequest /\ pending[l] # NoRequest /\ pending[k].id = pending[l].id => k = l
    /\ Busy => op.id \notin Taken
    /\ op.id <= asked
    /\ \A t \in Released : t <= asked
    /\ sessionLink # NoLink =>
          /\ linkLease[sessionLink] \in Leases /\ linkLease[sessionLink] <= asked
          /\ linkLease[sessionLink] \notin Released

\* A release adds its lease to what is on its way back; an acquire adds none.
LEMMA PostReleases ==
    ASSUME NEW token, NEW old, NEW l, NEW id, NEW snapshot, NEW takeover
    PROVE  /\ posted' = Post(ReleaseRequest(token)) =>
                Released' \subseteq Released \cup {token}
           /\ posted' = Post(AcquireRequest(l, id, snapshot, takeover)) => Released' = Released
           /\ posted' \subseteq posted => Released' \subseteq Released
<1>1. /\ ReleaseRequest(token).type = "release" /\ ReleaseRequest(token).lease = token
      /\ AcquireRequest(l, id, snapshot, takeover).type # "release"
    BY DEF ReleaseRequest, AcquireRequest
<1>2. /\ Post(ReleaseRequest(token)) \in {posted, posted \cup {ReleaseRequest(token)}}
      /\ Post(AcquireRequest(l, id, snapshot, takeover))
            \in {posted, posted \cup {AcquireRequest(l, id, snapshot, takeover)}}
    BY DEF Post
<1>3. \A t : t \in Released <=> \E r \in posted : r.type = "release" /\ r.lease = t
    BY DEF Released
<1>4. \A t : t \in Released' <=> \E r \in posted' : r.type = "release" /\ r.lease = t
    BY DEF Released
<1>5. ASSUME posted' = Post(ReleaseRequest(token))
      PROVE  Released' \subseteq Released \cup {token}
    <2>1. \A r \in posted' : r \in posted \/ r = ReleaseRequest(token)
        BY <1>2, <1>5
    <2> SUFFICES ASSUME NEW t \in Released' PROVE t \in Released \cup {token}
        OBVIOUS
    <2>2. PICK r \in posted' : r.type = "release" /\ r.lease = t
        BY <1>4
    <2>3. CASE r \in posted
        BY <1>3, <2>2, <2>3
    <2>4. CASE r = ReleaseRequest(token)
        BY <1>1, <2>2, <2>4
    <2> QED
        BY <2>1, <2>2, <2>3, <2>4
<1>6. ASSUME posted' = Post(AcquireRequest(l, id, snapshot, takeover))
      PROVE  Released' = Released
    <2>1. /\ \A r \in posted' : r \in posted \/ r = AcquireRequest(l, id, snapshot, takeover)
          /\ posted \subseteq posted'
        BY <1>2, <1>6
    <2>2. ASSUME NEW t \in Released PROVE t \in Released'
        <3>1. PICK r \in posted : r.type = "release" /\ r.lease = t
            BY <1>3
        <3> QED
            BY <1>4, <2>1, <3>1
    <2>3. ASSUME NEW t \in Released' PROVE t \in Released
        <3>1. PICK r \in posted' : r.type = "release" /\ r.lease = t
            BY <1>4
        <3>2. r \in posted
            BY <1>1, <2>1, <3>1
        <3> QED
            BY <1>3, <3>1, <3>2
    <2>4. Released \subseteq Released' /\ Released' \subseteq Released
        BY <2>2, <2>3
    <2> QED
        BY <2>4
<1>7. ASSUME posted' \subseteq posted
      PROVE  Released' \subseteq Released
    BY <1>3, <1>4, <1>7
<1> QED
    BY <1>5, <1>6, <1>7

\* fail() gives back the lease of the session that it ends.
LEMMA FailReleases ==
    ASSUME NEW F, Fail(F)
    PROVE  \/ sessionLink' = sessionLink /\ Released' \subseteq Released
           \/ /\ sessionLink # NoLink /\ sessionLink' = NoLink
              /\ Released' \subseteq Released \cup {linkLease[sessionLink]}
           \/ sessionLink = NoLink /\ NoLink \in F
<1>1. CASE sessionLink \in F
    BY <1>1, PostReleases DEF Fail, FailLinks, Cleared
<1>2. CASE sessionLink \notin F
    BY <1>2, PostReleases DEF Fail, FailLinks, Cleared
<1> QED
    BY <1>1, <1>2

\* Requests stay or are dropped, the claim stays or ends, and the session stays
\* or ends with the release of its lease.
LEMMA LeasesKept ==
    ASSUME TypeInv, LeasesApart, UNCHANGED asked,
           \A l \in Links : pending'[l] \in {pending[l], NoRequest},
           op' = IdleOp \/ (SameClaim /\ (Busy' => Busy)),
           \/ /\ sessionLink' = sessionLink /\ Released' \subseteq Released
              /\ sessionLink # NoLink => linkLease'[sessionLink] = linkLease[sessionLink]
           \/ /\ sessionLink # NoLink /\ sessionLink' = NoLink
              /\ Released' \subseteq Released \cup {linkLease[sessionLink]}
    PROVE  LeasesApart'
<1>1. \A l \in Links : pending[l] # NoRequest => pending[l].id \in Leases
    BY DEF TypeInv, SupervisorTypeOK, LinkTypeOK, Requests
<1>3. Taken' \subseteq Taken
    BY DEF Taken
<1>4. IdleOp.id = 0 /\ IdleOp.kind = "idle" /\ asked \in Nat
    BY DEF IdleOp, TypeInv, SupervisorTypeOK, LinkTypeOK
<1>5. \A l \in Links : pending'[l] # NoRequest =>
         /\ pending[l] # NoRequest /\ pending'[l] = pending[l] /\ pending[l].id <= asked
         /\ pending[l].id \notin Taken' /\ pending[l].id # op'.id
    BY <1>1, <1>3, <1>4, SessionNulls DEF LeasesApart, SameClaim
<1>6. op'.id <= asked
    BY <1>4 DEF LeasesApart, SameClaim
<1>7. Busy' => op.id \notin Taken' /\ op'.id = op.id
    BY <1>3, <1>4 DEF LeasesApart, SameClaim, Busy
<1>8. \A t \in Released' : t <= asked
    BY DEF LeasesApart
<1>9. sessionLink' # NoLink => /\ linkLease'[sessionLink'] \in Leases
                               /\ linkLease'[sessionLink'] <= asked
                               /\ linkLease'[sessionLink'] \notin Released'
    BY DEF LeasesApart
<1>10. \A k, l \in Links : pending'[k] # NoRequest /\ pending'[l] # NoRequest
                           /\ pending'[k].id = pending'[l].id => k = l
    BY <1>5 DEF LeasesApart
<1>11. \A l \in Links : pending'[l] # NoRequest => pending'[l].id \notin Taken'
    BY <1>5 DEF Taken
<1>12. Busy' => op'.id \notin Taken'
    BY <1>7 DEF Taken
<1> QED
    BY <1>5, <1>6, <1>8, <1>9, <1>10, <1>11, <1>12 DEF LeasesApart, Taken

\* A request takes a new number; a claim takes that of its request.
LEMMA LeasesRequest ==
    ASSUME TypeInv, SoleInv, LeasesApart, NEW l \in Links, Request(l), ~ResumeTransport(l)
    PROVE  LeasesApart'
<1>1. /\ \A k \in Links : pending[k] # NoRequest => pending[k].id \in Leases
      /\ pending \in [Links -> Requests \cup {NoRequest}] /\ asked \in Nat
      /\ linkLease \in [Links -> Leases \cup {NoLease}] /\ op.id \in Nat
      /\ sessionLink \in Links \cup {NoLink}
    <2>1. op.id \in Nat
        <3>1. CASE Busy
            BY <3>1, BusyIsClaim, SessionNulls
        <3>2. CASE ~Busy
            BY <3>2, NotBusyIsNoClaim DEF IdleOp
        <3> QED
            BY <3>1, <3>2
    <2> QED
        BY <2>1 DEF TypeInv, SupervisorTypeOK, LinkTypeOK, Requests, OwnerTypeOK
<1>2. CASE RequestRefused(l) \/ VerifiedNothingToDo(l) \/ TakeoverStale(l)
    <2>1. /\ UNCHANGED <<asked, op, sessionLink, linkLease, posted>>
          /\ pending' = [pending EXCEPT ![l] = NoRequest]
        BY <1>2 DEF RequestRefused, VerifiedNothingToDo, TakeoverStale, Takeover, Proceeds, Verified,
           ownerVars
    <2> QED
        BY <1>1, <2>1, LeasesKept, PostReleases DEF SameClaim, Busy
<1>3. ASSUME NEW takeover \in BOOLEAN, NEW token \in Tokens(Owner[l]),
             SessionRequest(l, takeover, token)
      PROVE  LeasesApart'
    <2>1. /\ asked' = asked + 1 /\ pending[l] = NoRequest
          /\ UNCHANGED <<op, sessionLink, linkLease, posted>>
        BY <1>3 DEF SessionRequest, ownerVars
    <2>2. /\ pending'[l].id = asked + 1
          /\ \A k \in Links : k # l => pending'[k] = pending[k]
        BY <1>1, <1>3 DEF SessionRequest
    <2>3. Released' = Released /\ Taken' = Taken
        BY <2>1 DEF Released, Taken
    <2>4. asked + 1 \notin Taken
        BY <1>1, SessionNulls DEF LeasesApart, Taken
    <2>5. op.id # asked + 1 /\ \A k \in Links : pending[k] # NoRequest => pending[k].id # asked + 1
        BY <1>1, SessionNulls DEF LeasesApart
    <2>6. \A k \in Links : pending'[k] # NoRequest =>
             /\ pending'[k].id <= asked' /\ pending'[k].id \notin Taken /\ pending'[k].id # op.id
        <3> SUFFICES ASSUME NEW k \in Links, pending'[k] # NoRequest
                     PROVE  /\ pending'[k].id <= asked' /\ pending'[k].id \notin Taken
                            /\ pending'[k].id # op.id
            OBVIOUS
        <3>1. CASE k = l
            BY <1>1, <2>1, <2>2, <2>4, <2>5, <3>1
        <3>2. CASE k # l
            <4>1. /\ pending'[k] = pending[k] /\ pending[k].id <= asked /\ pending[k].id \in Nat
                  /\ pending[k].id \notin Taken /\ pending[k].id # op.id
                BY <1>1, <2>2, <3>2, SessionNulls DEF LeasesApart
            <4> QED
                BY <1>1, <2>1, <4>1
        <3> QED
            BY <3>1, <3>2
    <2>7. \A k, j \in Links : pending'[k] # NoRequest /\ pending'[j] # NoRequest
                              /\ pending'[k].id = pending'[j].id => k = j
        BY <1>1, <2>1, <2>2, <2>5 DEF LeasesApart
    <2>8. op.id <= asked' /\ \A t \in Released : t \in Nat => t <= asked'
        BY <1>1, <2>1 DEF LeasesApart
    <2>9. \A t \in Released : t \in Nat
        <3>1. \A r \in posted : r.lease \in Leases \cup {NoLease}
            BY DEF TypeInv, SupervisorTypeOK, SystemTypeOK, AcquireRequests, ReleaseRequests
        <3>2. \A id \in Leases \cup {NoLease} : id \in Nat
            BY ONLY SessionNulls
        <3> QED
            BY <3>1, <3>2 DEF Released
    <2>10. sessionLink # NoLink => linkLease[sessionLink] <= asked'
        <3>1. sessionLink # NoLink => linkLease[sessionLink] \in Nat /\ linkLease[sessionLink] <= asked
            BY SessionNulls DEF LeasesApart
        <3> QED
            BY <1>1, <2>1, <3>1
    <2>11. \A k \in Links : pending'[k] # NoRequest => pending'[k].id \notin Taken'
        BY <2>1, <2>3, <2>6 DEF Taken
    <2>12. Busy' => op'.id \notin Taken'
        BY <2>1, <2>3 DEF LeasesApart, Busy, Taken
    <2> QED
        BY <2>1, <2>3, <2>6, <2>7, <2>8, <2>9, <2>10, <2>11, <2>12 DEF LeasesApart, Taken
<1>4. CASE QueryHost(l) \/ TakeoverClaims(l) \/ TakeoverEndsBrowser(l)
    <2>1. /\ Verified(l) /\ l # sessionLink /\ UNCHANGED <<asked, sessionLink>>
          /\ pending[l] # NoRequest /\ pending' = [pending EXCEPT ![l] = NoRequest]
          /\ hostState # "down"
        <3>1. /\ Verified(l) /\ ~(l = sessionLink /\ l \in admitted) /\ UNCHANGED sessionLink
            BY <1>4 DEF QueryHost, TakeoverClaims, TakeoverEndsBrowser, Takeover, Proceeds, ownerVars
        <3> QED
            BY <3>1, SessionNulls DEF Verified, SoleInv, SoleAdmission
    <2>2. op'.id = pending[l].id
        BY <1>4, <2>1 DEF QueryHost, TakeoverClaims, TakeoverEndsBrowser, StartAcquire, IdleOp
    <2>3. /\ Released' = Released
          /\ sessionLink # NoLink => linkLease'[sessionLink] = linkLease[sessionLink]
        <3>1. CASE QueryHost(l) \/ TakeoverEndsBrowser(l)
            BY <3>1 DEF QueryHost, TakeoverEndsBrowser, Released
        <3>2. CASE TakeoverClaims(l)
            BY <1>1, <2>1, <3>2, PostReleases DEF TakeoverClaims, StartAcquire
        <3> QED
            BY <1>4, <3>1, <3>2
    <2>4. Taken' = Taken
        BY <2>1, <2>3 DEF Taken
    <2>5. \A k \in Links : pending'[k] # NoRequest =>
             /\ k # l /\ pending'[k] = pending[k] /\ pending[k] # NoRequest
        BY <1>1, <2>1
    <2>6. \A k \in Links : pending'[k] # NoRequest =>
             /\ pending'[k].id <= asked' /\ pending'[k].id \notin Taken /\ pending'[k].id # op'.id
        BY <2>1, <2>2, <2>5 DEF LeasesApart
    <2>7. \A k \in Links : pending'[k] # NoRequest => pending'[k].id \notin Taken'
        BY <2>1, <2>3, <2>6 DEF Taken
    <2>8. op'.id \notin Taken' /\ op'.id <= asked
        BY <2>1, <2>2, <2>3 DEF LeasesApart, Taken
    <2>9. \A k, j \in Links : pending'[k] # NoRequest /\ pending'[j] # NoRequest
                              /\ pending'[k].id = pending'[j].id => k = j
        BY <2>5 DEF LeasesApart
    <2> QED
        BY <2>1, <2>3, <2>6, <2>7, <2>8, <2>9 DEF LeasesApart, Taken
<1> QED
    BY <1>2, <1>3, <1>4 DEF Request

\* A resumed session keeps its lease on another link.
LEMMA LeasesResume ==
    ASSUME TypeInv, LeasesApart, NEW l \in Links, ResumeTransport(l)
    PROVE  LeasesApart'
<1>1. /\ sessionLink \in Links /\ sessionLink # NoLink /\ sessionLink' = l /\ l # sessionLink
      /\ UNCHANGED <<asked, op, posted>> /\ l # NoLink
      /\ pending' = [pending EXCEPT ![l] = NoRequest]
    BY SessionNulls DEF ResumeTransport, Resumes, Verified, TypeInv, SupervisorTypeOK, OwnerTypeOK
<1>2. linkLease'[l] = linkLease[sessionLink]
    BY <1>1 DEF ResumeTransport, TypeInv, SupervisorTypeOK, LinkTypeOK
<1>3. Released' = Released /\ Taken' = Taken
    BY <1>1, <1>2 DEF Released, Taken
<1>4. \A k \in Links : pending'[k] # NoRequest => pending'[k] = pending[k]
    BY <1>1 DEF TypeInv, SupervisorTypeOK, LinkTypeOK
<1>5. \A k \in Links : pending'[k] # NoRequest =>
         pending'[k].id <= asked' /\ pending'[k].id \notin Taken' /\ pending'[k].id # op'.id
    BY <1>1, <1>2, <1>3, <1>4 DEF LeasesApart, Taken
<1>6. Busy' => op'.id \notin Taken'
    BY <1>1, <1>2, <1>3 DEF LeasesApart, Taken, Busy
<1> QED
    BY <1>1, <1>2, <1>3, <1>4, <1>5, <1>6 DEF LeasesApart, Taken

\* The end of the barrier: the claim's lease becomes the session's, or goes back.
LEMMA LeasesFinish ==
    ASSUME TypeInv, SoleInv, ClaimantInv, LeasesApart, BarrierReady \/ BarrierDeadline
    PROVE  LeasesApart'
<1>1. op.kind = "barrier" /\ Busy /\ sessionLink = NoLink /\ op.id \notin Taken
    BY DEF BarrierReady, BarrierDeadline, Busy, SoleInv, BarrierExclusive, ClaimantInv,
       ClaimantIsNew, LeasesApart
<1>2. PICK restored \in BOOLEAN : Finish(restored)
    BY DEF BarrierReady, BarrierDeadline
<1>3. op' = IdleOp /\ UNCHANGED <<linkLease, pending, asked>>
    BY <1>2 DEF Finish
<1>4. /\ op.link \in Links /\ op.id \in Leases /\ IdleOp.id = 0 /\ IdleOp.kind = "idle"
      /\ linkLease[op.link] = op.id /\ asked \in Nat
    BY <1>1, BusyIsClaim DEF IdleOp, ClaimantInv, ClaimantHoldsLease, TypeInv, SupervisorTypeOK,
       LinkTypeOK
<1>5. \/ sessionLink' = op.link /\ Released' = Released
      \/ sessionLink' = NoLink /\ Released' \subseteq Released \cup {op.id}
    <2>1. CASE restored /\ Alive(op.link) /\ Authorized(Owner[op.link])
        BY <1>2, <2>1 DEF Finish, Released
    <2>2. CASE ~(restored /\ Alive(op.link) /\ Authorized(Owner[op.link]))
        BY <1>1, <1>2, <2>2, PostReleases DEF Finish
    <2> QED
        BY <2>1, <2>2
<1>6. \A id : id \notin Taken /\ id # op.id => id \notin Taken'
    BY <1>1, <1>3, <1>4, <1>5 DEF Taken
<1>7. \A k \in Links : pending[k] # NoRequest =>
         pending[k].id <= asked /\ pending[k].id \notin Taken' /\ pending[k].id # 0
    <2>1. \A k \in Links : pending[k] # NoRequest => pending[k].id \in Leases
        BY DEF TypeInv, SupervisorTypeOK, LinkTypeOK, Requests
    <2> QED
        BY <1>6, <2>1, SessionNulls DEF LeasesApart
<1>8. ~Busy' /\ op'.id <= asked /\ \A t \in Released' : t <= asked
    BY <1>3, <1>4, <1>5 DEF Busy, LeasesApart
<1>9. sessionLink' # NoLink => /\ linkLease[sessionLink'] = op.id /\ op.id <= asked
                               /\ op.id \notin Released'
    BY <1>1, <1>4, <1>5 DEF LeasesApart, Taken
<1>10. \A k \in Links : pending'[k] # NoRequest =>
          pending'[k].id <= asked' /\ pending'[k].id \notin Taken' /\ pending'[k].id # op'.id
    BY <1>3, <1>4, <1>7 DEF Taken
<1> QED
    BY <1>3, <1>4, <1>8, <1>9, <1>10 DEF LeasesApart

\* What the callbacks and the host do for an operation keeps or ends its claim.
LEMMA LeasesAnswers ==
    ASSUME TypeInv, SoleInv, ClaimantInv, LeasesApart,
           \/ EndBrowserDone \/ HostAnswersQuery \/ QueryReply \/ ReplyLost \/ AcquireReply
           \/ \E okay \in BOOLEAN : DisplaySettles(okay)
           \/ \E r \in posted : HostServesRelease(r)
           \/ \E r \in posted, fence \in BOOLEAN : HostServesAcquire(r, fence)
    PROVE  LeasesApart'
<1>1. UNCHANGED <<asked, pending>>
    BY DEF EndBrowserDone, HostAnswersQuery, QueryReply, ReplyLost, AcquireReply, DisplaySettles,
       HostServesRelease, HostServesAcquire, linkVars, linkFlags
<1>2. op' = IdleOp \/ (SameClaim /\ (Busy' => Busy))
    <2>1. op' = op \/ Busy
        BY DEF EndBrowserDone, HostAnswersQuery, QueryReply, ReplyLost, AcquireReply,
           DisplaySettles, HostServesRelease, HostServesAcquire, Busy
    <2>2. Busy => op \in Operations
        BY BusyIsClaim
    <2>3. CASE EndBrowserDone \/ HostAnswersQuery \/ ReplyLost \/ AcquireReply
               \/ \E okay \in BOOLEAN : DisplaySettles(okay)
        BY <2>1, <2>2, <2>3 DEF EndBrowserDone, HostAnswersQuery, ReplyLost, AcquireReply,
           DisplaySettles, SameClaim, Operations, Busy
    <2>4. CASE QueryReply
        BY <2>1, <2>2, <2>4 DEF QueryReply, IssueChallenge, StartAcquire, IdleOp, SameClaim,
           Operations, Busy
    <2>5. CASE \/ \E r \in posted : HostServesRelease(r)
               \/ \E r \in posted, fence \in BOOLEAN : HostServesAcquire(r, fence)
        BY <2>1, <2>2, <2>5 DEF HostServesRelease, HostServesAcquire, SameClaim, Operations, Busy
    <2> QED
        BY <2>3, <2>4, <2>5
<1>3. \/ /\ sessionLink' = sessionLink /\ Released' \subseteq Released
         /\ sessionLink # NoLink => linkLease'[sessionLink] = linkLease[sessionLink]
      \/ /\ sessionLink # NoLink /\ sessionLink' = NoLink
         /\ Released' \subseteq Released \cup {linkLease[sessionLink]}
    <2>1. CASE EndBrowserDone \/ HostAnswersQuery \/ ReplyLost
               \/ (\E okay \in BOOLEAN : DisplaySettles(okay))
               \/ (\E r \in posted : HostServesRelease(r))
               \/ (\E r \in posted, fence \in BOOLEAN : HostServesAcquire(r, fence))
        <3>1. UNCHANGED <<sessionLink, linkLease>> /\ posted' \subseteq posted
            BY <2>1 DEF EndBrowserDone, HostAnswersQuery, ReplyLost, DisplaySettles,
               HostServesRelease, HostServesAcquire, linkVars, ownerVars
        <3> QED
            BY <3>1, PostReleases
    <2>2. CASE QueryReply
        <3>1. UNCHANGED sessionLink
            BY <2>2 DEF QueryReply, ownerVars
        <3>2. CASE UNCHANGED <<linkLease, posted>>
            BY <3>1, <3>2, PostReleases
        <3>3. CASE StartAcquire(op.link, op.id, op.answer.snapshot, op.takeover, op.against)
            <4>1. sessionLink # op.link
                BY <2>2 DEF QueryReply, Busy, ClaimantInv, ClaimantIsNew
            <4>2. sessionLink # NoLink => linkLease'[sessionLink] = linkLease[sessionLink]
                BY <3>3, <4>1 DEF StartAcquire, TypeInv, SupervisorTypeOK, LinkTypeOK, OwnerTypeOK
            <4> QED
                BY <3>1, <3>3, <4>2, PostReleases DEF StartAcquire
        <3> QED
            BY <2>2, <3>2, <3>3 DEF QueryReply, IssueChallenge
    <2>3. CASE AcquireReply
        <3>1. UNCHANGED linkLease
            BY <2>3 DEF AcquireReply
        <3>2. CASE UNCHANGED <<sessionLink, posted>>
            BY <3>1, <3>2, PostReleases
        <3>3. CASE Fail({k \in Holders : Alive(k)} \ {op.link})
            BY <3>1, <3>3, FailReleases DEF Holders
        <3> QED
            BY <2>3, <3>2, <3>3 DEF AcquireReply, ownerVars
    <2> QED
        BY <2>1, <2>2, <2>3
<1> QED
    BY <1>1, <1>2, <1>3, LeasesKept

\* Links that end, removals and the host's own steps give back the lease of the
\* session they end, unless the process that knew it is gone.
LEMMA LeasesEnds ==
    ASSUME TypeInv, LeasesApart, UNCHANGED <<asked, pending, linkLease, op>>,
           \/ UNCHANGED <<sessionLink, posted>>
           \/ \E F \in SUBSET Links : Fail(F)
           \/ posted' = {} /\ sessionLink' \in {sessionLink, NoLink}
    PROVE  LeasesApart'
<1>1. Busy' => Busy
    BY DEF Busy
<1>2. CASE UNCHANGED <<sessionLink, posted>>
    BY <1>1, <1>2, PostReleases, LeasesKept DEF SameClaim
<1>3. CASE \E F \in SUBSET Links : Fail(F)
    <2>1. PICK F \in SUBSET Links : Fail(F)
        BY <1>3
    <2>2. NoLink \notin F
        BY SessionNulls
    <2> QED
        BY <1>1, <2>1, <2>2, FailReleases, LeasesKept DEF SameClaim
<1>4. CASE posted' = {} /\ sessionLink' \in {sessionLink, NoLink}
    <2>1. Released' = {}
        BY <1>4 DEF Released
    <2> QED
        BY <1>1, <1>4, <2>1, LeasesKept DEF SameClaim
<1> QED
    BY <1>2, <1>3, <1>4

\* Every step keeps the leases apart.
LEMMA LeasesStep ==
    ASSUME TypeInv, SoleInv, ClaimantInv, LeasesApart, [Next]_vars
    PROVE  LeasesApart'
<1>1. ASSUME NEW l \in Links, LinkStep(l)
      PROVE  LeasesApart'
    <2>1. CASE Request(l)
        BY <2>1, LeasesRequest, LeasesResume
    <2>2. CASE DisplayResize(l) \/ (\E v2 \in BOOLEAN : ClipboardStart(l, v2)) \/ EndpointQuery(l)
        <3>1. UNCHANGED <<asked, pending, linkLease, op, sessionLink, posted>>
            BY <2>2 DEF DisplayResize, ClipboardStart, EndpointQuery, linkVars, linkFlags, ownerVars
        <3> QED
            BY <3>1, LeasesEnds
    <2>3. CASE HelperExits(l) \/ LinkFails(l) \/ RecoveryTimeout(l) \/ TransportLost(l)
        <3>1. UNCHANGED <<asked, pending, linkLease, op>>
            BY <2>3 DEF HelperExits, LinkFails, RecoveryTimeout, TransportLost, linkFlags
        <3>2. UNCHANGED <<sessionLink, posted>> \/ Fail({l})
            BY <2>3 DEF HelperExits, LinkFails, RecoveryTimeout, TransportLost, ownerVars
        <3> QED
            BY <3>1, <3>2, LeasesEnds
    <2> QED
        BY <1>1, <2>1, <2>2, <2>3 DEF LinkStep
<1>2. CASE OperationStep
    BY <1>2, LeasesAnswers, LeasesFinish DEF OperationStep, ExchangeStep
<1>3. CASE ServeRelease \/ ServeAbandoned
    BY <1>3, LeasesAnswers DEF ServeRelease, ServeAbandoned
<1>4. CASE AccessStep \/ HostStep
    <2>1. UNCHANGED <<asked, pending, linkLease, op>>
        BY <1>4 DEF AccessStep, Revoke, RevocationDone, HostStep, HostStopping, HostCrash,
           ServerExit, HostStopped, HostStart, linkVars, linkFlags
    <2>2. /\ {k \in Holders : Alive(k)} \in SUBSET Links
          /\ \A c : {k \in Holders : Alive(k) /\ Owner[k] = c} \in SUBSET Links
        BY HoldersAreLinks
    <2>3. \/ UNCHANGED <<sessionLink, posted>>
          \/ \E F \in SUBSET Links : Fail(F)
          \/ posted' = {} /\ sessionLink' \in {sessionLink, NoLink}
        <3>1. ASSUME NEW c \in Clients, Revoke(c)
              PROVE  \E F \in SUBSET Links : Fail(F)
            BY <2>2, <3>1 DEF Revoke
        <3>2. CASE HostStopping
            BY <2>2, <3>2 DEF HostStopping
        <3>3. CASE HostCrash \/ ServerExit
            BY <3>3 DEF HostCrash, ServerExit, FailLinks, Cleared, ownerVars
        <3> QED
            BY <1>4, <3>1, <3>2, <3>3 DEF AccessStep, RevocationDone, HostStep, HostStopped,
               HostStart, ownerVars
    <2> QED
        BY <2>1, <2>3, LeasesEnds
<1>5. CASE GateStep \/ UNCHANGED vars
    <2>1. UNCHANGED <<asked, pending, linkLease, op, sessionLink, posted>>
        BY <1>5 DEF GateStep, vars, linkVars, ownerVars
    <2> QED
        BY <2>1, LeasesEnds
<1> QED
    BY <1>1, <1>2, <1>3, <1>4, <1>5 DEF Next

-----------------------------------------------------------------------------
(* Agreement with the host                                                 *)

\* The host has granted the claim in progress.
Granted ==
    \/ op.kind = "barrier"
    \/ op.kind = "acquire" /\ op.run = hostRun /\ op.answer.known /\ op.answer.status

\* The host process has replaced the one that granted the claim.
NoDevice  == lease \notin Leases /\ certificate \in {NoClient, Browser}
Forgotten == hostRun > 0 /\ NoDevice

\* The host process knows link l as the owner of the lease, or no device at all.
KnownAs(l, token) == (lease = token /\ certificate = Owner[l]) \/ Forgotten

Acquires == {r \in posted : r.type = "acquire"}

\* As long as the host process runs and answers: the only acquire on its way is
\* that of the operation in progress, and the host knows the claimant once it has
\* granted the claim, the session until then.
Agreement ==
    /\ hostState = "up"
    /\ \A r, p \in Acquires : r = p
    /\ \A r \in Acquires : /\ op.kind = "acquire" /\ op.run = hostRun /\ ~op.answer.known
                           /\ r.lease = op.id /\ r.client = Owner[op.link]
    /\ Granted => KnownAs(op.link, op.id)
    /\ sessionLink # NoLink /\ ~Granted => KnownAs(sessionLink, linkLease[sessionLink])

\* A process that is being stopped may still serve an acquire that nobody waits
\* for; once it has exited nothing is left of it.
AgreementInv ==
    /\ hostState = "up" => Agreement
    /\ hostState # "up" => hostRun > 0
    /\ ~ServerAlive => posted = {} /\ NoDevice

\* The lease of the session, or of a claim, is one that no late release names.
LEMMA LeaseIsKnown ==
    ASSUME TypeInv, LeasesApart, Agreement, Granted \/ sessionLink # NoLink
    PROVE  (lease \in Leases /\ lease \notin Released) \/ Forgotten
<1>1. CASE Granted
    <2>1. Busy
        BY <1>1 DEF Granted, Busy
    <2> QED
        BY <1>1, <2>1, BusyIsClaim DEF Agreement, KnownAs, LeasesApart, Taken
<1>2. CASE ~Granted
    BY <1>2 DEF Agreement, KnownAs, LeasesApart
<1> QED
    BY <1>1, <1>2

\* The operation stays where it is with the host.
SameWithHost == /\ UNCHANGED <<hostState, hostRun>>
                /\ op'.kind = op.kind /\ op'.link = op.link /\ op'.id = op.id
                /\ op'.answer = op.answer /\ op'.run = op.run

\* A step that claims nothing and leaves the lease of its owner alone.
LEMMA AgreementQuiet ==
    ASSUME TypeInv, LeasesApart, Agreement, SameWithHost, Acquires' \subseteq Acquires,
           lease \in Leases /\ lease \notin Released => UNCHANGED <<lease, certificate>>,
           NoDevice => NoDevice',
           sessionLink' \in {sessionLink, NoLink},
           sessionLink' # NoLink => linkLease'[sessionLink] = linkLease[sessionLink]
    PROVE  Agreement'
<1>1. Granted' <=> Granted
    BY DEF SameWithHost, Granted
<1>2. Forgotten => Forgotten'
    BY DEF SameWithHost, Forgotten
<1>3. Granted' => KnownAs(op.link, op.id)'
    <2> SUFFICES ASSUME Granted, ~Forgotten PROVE KnownAs(op.link, op.id)'
        BY <1>1, <1>2 DEF KnownAs
    <2>1. UNCHANGED <<lease, certificate>>
        BY LeaseIsKnown
    <2>2. lease = op.id /\ certificate = Owner[op.link]
        BY DEF Agreement, KnownAs
    <2> QED
        BY <2>1, <2>2 DEF KnownAs, SameWithHost
<1>4. sessionLink' # NoLink /\ ~Granted' => KnownAs(sessionLink, linkLease[sessionLink])'
    <2> SUFFICES ASSUME sessionLink' # NoLink, ~Granted, ~Forgotten
                 PROVE  KnownAs(sessionLink, linkLease[sessionLink])'
        BY <1>1, <1>2 DEF KnownAs
    <2>1. UNCHANGED <<lease, certificate>>
        BY LeaseIsKnown
    <2>2. lease = linkLease[sessionLink] /\ certificate = Owner[sessionLink]
        BY DEF Agreement, KnownAs
    <2> QED
        BY <2>1, <2>2 DEF KnownAs
<1>5. \A r \in Acquires' : r \in Acquires
    OBVIOUS
<1> QED
    BY <1>3, <1>4, <1>5 DEF Agreement, SameWithHost

\* An operation begins, goes on or ends while the host has granted nothing.
LEMMA AgreementUngranted ==
    ASSUME Agreement, ~Granted, ~Granted', Acquires' = {},
           UNCHANGED <<hostState, hostRun, lease, certificate, sessionLink>>,
           sessionLink # NoLink => linkLease'[sessionLink] = linkLease[sessionLink]
    PROVE  Agreement'
<1>1. sessionLink' # NoLink => KnownAs(sessionLink, linkLease[sessionLink])'
    BY DEF Agreement, KnownAs, Forgotten, NoDevice
<1> QED
    BY <1>1 DEF Agreement

\* The acquire of the operation is posted.
LEMMA AgreementClaims ==
    ASSUME TypeInv, Agreement, ~Granted, op.kind # "acquire",
           NEW l \in Links, l # sessionLink, NEW id, NEW snapshot, NEW takeover, NEW against,
           StartAcquire(l, id, snapshot, takeover, against),
           UNCHANGED <<hostState, hostRun, lease, certificate, sessionLink>>
    PROVE  Agreement'
<1>1. Acquires = {} /\ hostState = "up"
    BY DEF Agreement
<1>2. Acquires' = {AcquireRequest(l, id, snapshot, takeover)}
    <2>1. posted' = posted \cup {AcquireRequest(l, id, snapshot, takeover)}
        BY <1>1 DEF StartAcquire, Post, ServerAlive
    <2>2. AcquireRequest(l, id, snapshot, takeover).type = "acquire"
        BY DEF AcquireRequest
    <2> QED
        BY <1>1, <2>1, <2>2 DEF Acquires
<1>3. /\ op'.kind = "acquire" /\ op'.link = l /\ op'.id = id /\ op'.run = hostRun
      /\ ~op'.answer.known
    BY <1>1 DEF StartAcquire, IdleOp, NoAnswer
<1>4. sessionLink # NoLink => linkLease'[sessionLink] = linkLease[sessionLink]
    BY DEF StartAcquire, TypeInv, SupervisorTypeOK, LinkTypeOK, OwnerTypeOK
<1>5. /\ AcquireRequest(l, id, snapshot, takeover).lease = id
      /\ AcquireRequest(l, id, snapshot, takeover).client = Owner[l]
    BY DEF AcquireRequest
<1>6. ~Granted'
    BY <1>3 DEF Granted
<1>7. sessionLink' # NoLink => KnownAs(sessionLink, linkLease[sessionLink])'
    BY <1>4 DEF Agreement, KnownAs, Forgotten, NoDevice
<1> QED
    BY <1>1, <1>2, <1>3, <1>5, <1>6, <1>7 DEF Agreement

\* No operation has an acquire under way but one that waits for its answer.
LEMMA NoAcquire ==
    ASSUME Agreement, op.kind # "acquire" \/ op.answer.known
    PROVE  Acquires = {}
BY DEF Agreement

LEMMA IdleIsUngranted ==
    /\ op' = IdleOp => ~Granted'
    /\ op = IdleOp => ~Granted
BY DEF IdleOp, Granted

\* What requests do.
LEMMA AgreementRequest ==
    ASSUME TypeInv, SoleInv, LeasesApart, Agreement, NEW l \in Links, Request(l)
    PROVE  Agreement'
<1>1. UNCHANGED <<hostState, hostRun, lease, certificate>>
    BY DEF Request, SessionRequest, RequestRefused, VerifiedNothingToDo, ResumeTransport,
       QueryHost, TakeoverStale, TakeoverClaims, TakeoverEndsBrowser, Takeover, Proceeds, Verified,
       gateVars, hostVars
<1>2. CASE \/ RequestRefused(l) \/ VerifiedNothingToDo(l) \/ TakeoverStale(l)
           \/ \E takeover \in BOOLEAN, token \in Tokens(Owner[l]) : SessionRequest(l, takeover, token)
    <2>1. UNCHANGED <<op, posted, sessionLink, linkLease>>
        BY <1>2 DEF SessionRequest, RequestRefused, VerifiedNothingToDo, TakeoverStale, Takeover,
           Proceeds, ownerVars
    <2> QED
        BY <1>1, <2>1, AgreementQuiet DEF SameWithHost, Acquires, NoDevice
<1>3. CASE ResumeTransport(l)
    <2>1. /\ op.kind = "idle" /\ sessionLink # NoLink /\ sessionLink' = l
          /\ Owner[sessionLink] = Owner[l] /\ UNCHANGED <<op, posted>> /\ sessionLink \in Links
        BY <1>3 DEF ResumeTransport, Resumes, Busy, TypeInv, SupervisorTypeOK, OwnerTypeOK
    <2>2. linkLease'[l] = linkLease[sessionLink]
        BY <1>3, <2>1 DEF ResumeTransport, Resumes, TypeInv, SupervisorTypeOK, LinkTypeOK
    <2>3. ~Granted /\ ~Granted' /\ Acquires = {} /\ Acquires' = {}
        BY <2>1, NoAcquire DEF Granted, Acquires
    <2>4. KnownAs(sessionLink, linkLease[sessionLink])'
        BY <1>1, <2>1, <2>2, <2>3 DEF Agreement, KnownAs, Forgotten, NoDevice
    <2> QED
        BY <1>1, <2>1, <2>3, <2>4 DEF Agreement
<1>4. CASE QueryHost(l) \/ TakeoverClaims(l) \/ TakeoverEndsBrowser(l)
    <2>1. /\ op.kind = "idle" /\ l # sessionLink /\ UNCHANGED sessionLink
        <3>1. /\ op.kind = "idle" /\ ~(l = sessionLink /\ l \in admitted) /\ UNCHANGED sessionLink
            BY <1>4 DEF QueryHost, TakeoverClaims, TakeoverEndsBrowser, Takeover, Proceeds, Busy,
               ownerVars
        <3> QED
            BY <3>1, SessionNulls DEF SoleInv, SoleAdmission
    <2>2. ~Granted /\ Acquires = {}
        BY <2>1, NoAcquire DEF Granted
    <2>3. CASE QueryHost(l) \/ TakeoverEndsBrowser(l)
        <3>1. /\ op'.kind \in {"query", "browser"}
              /\ UNCHANGED <<linkLease, posted>>
            BY <2>3 DEF QueryHost, TakeoverEndsBrowser, IdleOp
        <3>2. ~Granted' /\ Acquires' = {}
            BY <2>2, <3>1 DEF Granted, Acquires
        <3> QED
            BY <1>1, <2>1, <2>2, <3>1, <3>2, AgreementUngranted
    <2>4. CASE TakeoverClaims(l)
        BY <1>1, <2>1, <2>2, <2>4, AgreementClaims DEF TakeoverClaims
    <2> QED
        BY <1>4, <2>3, <2>4
<1> QED
    BY <1>2, <1>3, <1>4 DEF Request

\* A release does nothing to a lease that it does not name.
LEMMA ReleaseServed ==
    ASSUME NEW r \in posted, HostServesRelease(r), lease \notin Released
    PROVE  UNCHANGED <<lease, certificate>>
<1>1. r.lease \in Released
    BY DEF HostServesRelease, Released
<1> QED
    BY <1>1 DEF HostServesRelease, ReleaseLease, OwnsLease, gateVars

\* Only a grant gives the host's lease to a claim, and its answer says so.
LEMMA AgreementServes ==
    ASSUME TypeInv, LeasesApart, Agreement, ~FenceMayTimeOut,
           NEW r \in posted, NEW fence \in BOOLEAN, HostServesAcquire(r, fence)
    PROVE  Agreement'
<1>1. /\ r \in Acquires /\ op.kind = "acquire" /\ ~op.answer.known /\ r.lease = op.id
      /\ r.client = Owner[op.link] /\ fence /\ posted' = posted \ {r}
      /\ op.run = hostRun /\ UNCHANGED <<sessionLink, linkLease, hostState, hostRun>>
    BY DEF HostServesAcquire, Acquires, Agreement, linkVars, ownerVars, hostVars
<1>2. Acquires' = {}
    BY <1>1 DEF Agreement, Acquires
<1>3. op \in Operations
    BY <1>1, BusyIsClaim DEF Busy
<1> DEFINE granted1 == AcquireGranted(r.client, r.snapshot, r.takeover)
<1>4. /\ op'.kind = "acquire" /\ op'.link = op.link /\ op'.id = op.id /\ op'.run = op.run
      /\ op'.answer.known /\ (op'.answer.status <=> granted1)
    <2> DEFINE reply == [NoAnswer EXCEPT !.known = TRUE, !.status = granted1 /\ fence]
    <2>1. op' = [op EXCEPT !.answer = reply]
        BY <1>1 DEF HostServesAcquire
    <2>2. reply.known /\ (reply.status <=> granted1 /\ fence)
        <3>1. reply.known
            BY DEF NoAnswer
        <3>2. reply.status = (granted1 /\ fence)
            BY DEF NoAnswer
        <3> HIDE DEF reply, granted1
        <3> QED
            BY <3>1, <3>2
    <2> HIDE DEF reply, granted1
    <2>3. /\ op'.kind = "acquire" /\ op'.link = op.link /\ op'.id = op.id /\ op'.run = op.run
          /\ op'.answer = reply
        BY <1>1, <1>3, <2>1 DEF Operations
    <2>4. op'.answer.known /\ (op'.answer.status <=> granted1 /\ fence)
        BY <2>2, <2>3
    <2> QED
        BY <1>1, <2>3, <2>4
<1>5. ~Granted
    BY <1>1 DEF Granted
<1>6. CASE granted1
    <2>1. lease' = r.lease /\ certificate' = r.client
        BY <1>6 DEF HostServesAcquire, Acquire, Claim
    <2>2. Granted' /\ KnownAs(op.link, op.id)'
        BY <1>1, <1>4, <1>6, <2>1 DEF Granted, KnownAs
    <2> QED
        BY <1>1, <1>2, <1>4, <2>2 DEF Agreement
<1>7. CASE ~granted1
    <2>1. UNCHANGED <<lease, certificate>>
        BY <1>7 DEF HostServesAcquire, Acquire, gateVars
    <2>2. ~Granted'
        BY <1>4, <1>7 DEF Granted
    <2> QED
        BY <1>1, <1>2, <1>5, <2>1, <2>2, AgreementUngranted
<1> QED
    BY <1>6, <1>7

\* The callbacks, of which none is lost.
LEMMA AgreementCallbacks ==
    ASSUME TypeInv, SoleInv, ClaimantInv, LeasesApart, Agreement, ~RepliesMayBeLost,
           \/ EndBrowserDone \/ HostAnswersQuery \/ QueryReply \/ ReplyLost \/ AcquireReply
           \/ \E okay \in BOOLEAN : DisplaySettles(okay)
           \/ BarrierReady \/ BarrierDeadline
    PROVE  Agreement'
<1>1. /\ UNCHANGED <<hostState, hostRun, lease, certificate>> /\ op \in Operations /\ Busy
      /\ op.link # sessionLink /\ op.link \in Links /\ hostState = "up"
    <2>1. UNCHANGED <<hostState, hostRun, lease, certificate>> /\ Busy
        BY DEF EndBrowserDone, HostAnswersQuery, QueryReply, ReplyLost, AcquireReply,
           DisplaySettles, BarrierReady, BarrierDeadline, Finish, gateVars, hostVars, Busy
    <2> QED
        BY <2>1, BusyIsClaim DEF ClaimantInv, ClaimantIsNew, Agreement
<1>2. CASE ReplyLost
    <2>1. op.run # hostRun /\ op.kind # "barrier" /\ op' = IdleOp
          /\ UNCHANGED <<sessionLink, linkLease, posted>>
        BY <1>1, <1>2 DEF ReplyLost, ServerAlive, linkVars, ownerVars
    <2>2. ~Granted /\ Acquires' = {}
        BY <2>1 DEF Granted, Agreement, Acquires
    <2> QED
        BY <1>1, <2>1, <2>2, IdleIsUngranted, AgreementUngranted
<1>3. CASE EndBrowserDone \/ HostAnswersQuery
    <2>1. /\ op.kind \in {"browser", "query"} /\ op'.kind = "query"
          /\ UNCHANGED <<sessionLink, linkLease, posted>>
        BY <1>1, <1>3 DEF EndBrowserDone, HostAnswersQuery, Operations, linkVars, ownerVars
    <2>2. ~Granted /\ ~Granted' /\ Acquires' = {}
        BY <2>1, NoAcquire DEF Granted, Acquires
    <2> QED
        BY <1>1, <2>1, <2>2, AgreementUngranted
<1>4. CASE QueryReply
    <2>1. op.kind = "query" /\ UNCHANGED sessionLink /\ ~Granted /\ Acquires = {}
        BY <1>4, NoAcquire DEF QueryReply, ownerVars, Granted
    <2>2. CASE op' = IdleOp /\ UNCHANGED <<linkLease, posted>>
        <3>1. Acquires' = {}
            BY <2>1, <2>2 DEF Acquires
        <3> QED
            BY <1>1, <2>1, <2>2, <3>1, IdleIsUngranted, AgreementUngranted
    <2>3. CASE StartAcquire(op.link, op.id, op.answer.snapshot, op.takeover, op.against)
        BY <1>1, <2>1, <2>3, AgreementClaims
    <2> QED
        BY <1>4, <2>2, <2>3 DEF QueryReply, IssueChallenge
<1>5. CASE AcquireReply
    <2>1. op.kind = "acquire" /\ op.answer.known /\ UNCHANGED linkLease /\ Acquires = {}
        BY <1>5, NoAcquire DEF AcquireReply
    <2>2. CASE op.answer.status
        <3>1. /\ Fail({k \in Holders : Alive(k)} \ {op.link})
              /\ op'.kind = "barrier" /\ op'.link = op.link /\ op'.id = op.id /\ op'.run = op.run
            BY <1>1, <1>5, <2>2 DEF AcquireReply, Operations
        <3>2. sessionLink' = NoLink
            BY <1>1, <3>1 DEF Fail, FailLinks, Cleared, SoleInv, SoleAdmission, Holders
        <3>3. Acquires' = {}
            <4>1. \A r \in posted' : r \in posted \/ r.type = "release"
                BY <3>1 DEF Fail, Post, ReleaseRequest
            <4> QED
                BY <2>1, <4>1 DEF Acquires
        <3>4. KnownAs(op.link, op.id)' /\ Granted'
            <4>1. Granted
                BY <1>5, <2>1, <2>2 DEF AcquireReply, ReplyValid, Granted
            <4>2. KnownAs(op.link, op.id)
                BY <4>1 DEF Agreement
            <4> QED
                BY <1>1, <3>1, <4>2 DEF Granted, KnownAs, Forgotten, NoDevice
        <3> QED
            BY <1>1, <3>1, <3>2, <3>3, <3>4 DEF Agreement
    <2>3. CASE ~op.answer.status
        <3>1. op' = IdleOp /\ UNCHANGED <<sessionLink, posted>>
            BY <1>5, <2>3 DEF AcquireReply, ownerVars
        <3>2. ~Granted /\ Acquires' = {}
            BY <2>1, <2>3, <3>1 DEF Granted, Acquires
        <3> QED
            BY <1>1, <2>1, <3>1, <3>2, IdleIsUngranted, AgreementUngranted
    <2> QED
        BY <2>2, <2>3
<1>6. CASE \E okay \in BOOLEAN : DisplaySettles(okay)
    <2>1. UNCHANGED <<posted, sessionLink, linkLease>> /\ SameWithHost
        BY <1>1, <1>6 DEF DisplaySettles, linkVars, ownerVars, SameWithHost, Operations
    <2> QED
        BY <1>1, <2>1, AgreementQuiet DEF Acquires, NoDevice
<1>7. CASE BarrierReady \/ BarrierDeadline
    <2>1. op.kind = "barrier" /\ sessionLink = NoLink /\ Granted /\ Acquires = {}
          /\ linkLease[op.link] = op.id
        BY <1>1, <1>7, NoAcquire DEF BarrierReady, BarrierDeadline, SoleInv, BarrierExclusive, Granted,
           ClaimantInv, ClaimantHoldsLease
    <2>2. PICK restored \in BOOLEAN : Finish(restored)
        BY <1>7 DEF BarrierReady, BarrierDeadline
    <2>3. op' = IdleOp /\ linkLease' = linkLease
        BY <2>2 DEF Finish
    <2>4. Acquires' = {}
        <3>1. \A r \in posted' : r \in posted \/ r.type = "release"
            BY <2>2 DEF Finish, Post, ReleaseRequest
        <3> QED
            BY <2>1, <3>1 DEF Acquires
    <2>5. sessionLink' \in {NoLink, op.link}
        BY <2>1, <2>2 DEF Finish
    <2>6. sessionLink' # NoLink => KnownAs(sessionLink, linkLease[sessionLink])'
        BY <1>1, <2>1, <2>3, <2>5 DEF Agreement, KnownAs, Forgotten, NoDevice
    <2> QED
        BY <1>1, <2>3, <2>4, <2>6, IdleIsUngranted DEF Agreement
<1> QED
    BY <1>2, <1>3, <1>4, <1>5, <1>6, <1>7

\* What the gate does by itself leaves a claim of the supervisor alone.
LEMMA GateKeepsClaim ==
    ASSUME GateEnvironment
    PROVE  /\ lease \in Leases => UNCHANGED <<lease, certificate>>
           /\ NoDevice => NoDevice'
BY GateConstants DEF GateEnvironment, Launch, Cancel, RtspAnnounce, RtspDrop, StreamEnd,
   BrowserReserve, BrowserRelease, NoDevice

\* Links and removals fail links.
LEMMA AgreementOthers ==
    ASSUME TypeInv, LeasesApart, Agreement,
           \/ \E l \in Links : LinkStep(l) /\ ~Request(l)
           \/ AccessStep \/ GateStep \/ UNCHANGED vars
    PROVE  Agreement'
<1>1. UNCHANGED <<hostState, hostRun, op, linkLease>>
    BY DEF LinkStep, DisplayResize, ClipboardStart, HelperExits, LinkFails, RecoveryTimeout,
       TransportLost, EndpointQuery, AccessStep, Revoke, RevocationDone, GateStep, vars, hostVars,
       linkVars
<1>2. (lease \in Leases => UNCHANGED <<lease, certificate>>) /\ (NoDevice => NoDevice')
    <2>1. CASE GateStep
        BY <2>1, GateKeepsClaim DEF GateStep
    <2>2. CASE ~GateStep
        <3>1. UNCHANGED <<lease, certificate>>
            BY <2>2 DEF LinkStep, DisplayResize, ClipboardStart, HelperExits, LinkFails,
               RecoveryTimeout, TransportLost, EndpointQuery, AccessStep, Revoke, RevocationDone,
               RemoveTrust, vars, gateVars
        <3> QED
            BY <3>1 DEF NoDevice
    <2> QED
        BY <2>1, <2>2
<1>3. UNCHANGED <<sessionLink, posted>> \/ \E F : Fail(F)
    BY DEF LinkStep, DisplayResize, ClipboardStart, HelperExits, LinkFails, RecoveryTimeout,
       TransportLost, EndpointQuery, AccessStep, Revoke, RevocationDone, GateStep, vars, ownerVars
<1>4. sessionLink' \in {sessionLink, NoLink} /\ Acquires' \subseteq Acquires
    <2>1. CASE UNCHANGED <<sessionLink, posted>>
        BY <2>1 DEF Acquires
    <2>2. CASE \E F : Fail(F)
        <3>1. \A r \in posted' : r \in posted \/ r.type = "release"
            BY <2>2 DEF Fail, Post, ReleaseRequest
        <3> QED
            BY <2>2, <3>1 DEF Acquires, Fail, FailLinks, Cleared
    <2> QED
        BY <1>3, <2>1, <2>2
<1> QED
    BY <1>1, <1>2, <1>4, AgreementQuiet DEF SameWithHost

\* Only its own steps replace the host process.
LEMMA HostStays ==
    ASSUME [Next]_vars, ~HostStep
    PROVE  UNCHANGED <<hostState, hostRun>>
<1>1. ASSUME NEW l \in Links, LinkStep(l)
      PROVE  UNCHANGED <<hostState, hostRun>>
    <2>1. CASE Request(l)
        BY <2>1 DEF Request, SessionRequest, RequestRefused, VerifiedNothingToDo, ResumeTransport,
           QueryHost, TakeoverStale, TakeoverClaims, TakeoverEndsBrowser, Takeover, Proceeds,
           Verified, hostVars
    <2>2. CASE DisplayResize(l) \/ (\E v2 \in BOOLEAN : ClipboardStart(l, v2)) \/ HelperExits(l)
        BY <2>2 DEF DisplayResize, ClipboardStart, HelperExits, hostVars
    <2>3. CASE LinkFails(l) \/ RecoveryTimeout(l) \/ TransportLost(l) \/ EndpointQuery(l)
        BY <2>3 DEF LinkFails, RecoveryTimeout, TransportLost, EndpointQuery, hostVars
    <2> QED
        BY <1>1, <2>1, <2>2, <2>3 DEF LinkStep
<1>2. ASSUME NEW r \in posted, NEW fence \in BOOLEAN, HostServesAcquire(r, fence)
      PROVE  UNCHANGED <<hostState, hostRun>>
    BY <1>2 DEF HostServesAcquire, hostVars
<1>3. ASSUME NEW r \in posted, HostServesRelease(r)
      PROVE  UNCHANGED <<hostState, hostRun>>
    BY <1>3 DEF HostServesRelease, hostVars
<1>4. CASE OperationStep
    <2>1. CASE EndBrowserDone \/ HostAnswersQuery \/ QueryReply \/ ReplyLost \/ AcquireReply
        BY <2>1 DEF EndBrowserDone, HostAnswersQuery, QueryReply, ReplyLost, AcquireReply, hostVars
    <2>2. CASE (\E okay \in BOOLEAN : DisplaySettles(okay)) \/ BarrierReady \/ BarrierDeadline
        BY <2>2 DEF DisplaySettles, BarrierReady, BarrierDeadline, Finish, hostVars
    <2> QED
        BY <1>2, <1>4, <2>1, <2>2 DEF OperationStep, ExchangeStep
<1>5. CASE ServeRelease \/ ServeAbandoned
    BY <1>2, <1>3, <1>5 DEF ServeRelease, ServeAbandoned
<1>6. CASE AccessStep \/ GateStep \/ UNCHANGED vars
    BY <1>6 DEF AccessStep, Revoke, RevocationDone, GateStep, vars, hostVars
<1> QED
    BY <1>1, <1>4, <1>5, <1>6 DEF Next, hostVars

\* A new process knows no device, and nothing of the old one's is on its way.
LEMMA AgreementStarts ==
    ASSUME TypeInv, AgreementInv, HostStart
    PROVE  Agreement'
<1>1. /\ hostState' = "up" /\ hostRun' = hostRun + 1 /\ hostRun \in Nat
      /\ UNCHANGED <<posted, lease, certificate>> /\ ~ServerAlive
    BY DEF HostStart, gateVars, ServerAlive, TypeInv, SupervisorTypeOK, SystemTypeOK
<1>2. posted' = {} /\ Forgotten'
    BY <1>1 DEF AgreementInv, Forgotten, NoDevice
<1> QED
    BY <1>1, <1>2 DEF Agreement, Acquires, KnownAs

\* Nothing reaches a process that has exited.
LEMMA NothingReachesExited ==
    ASSUME AgreementInv, [Next]_vars, ~ServerAlive'
    PROVE  posted' = {} /\ NoDevice'
<1>1. CASE HostCrash \/ ServerExit
    BY <1>1, GateConstants DEF HostCrash, ServerExit, ProcessExit, NoDevice
<1>2. ASSUME ~HostCrash, ~ServerExit
      PROVE  UNCHANGED <<posted, lease, certificate>> /\ ~ServerAlive
    <2>1. CASE HostStep
        BY <1>2, <2>1 DEF HostStep, HostStopping, HostStopped, HostStart, ServerAlive, gateVars,
           ownerVars
    <2>2. CASE ~HostStep
        <3>1. UNCHANGED hostState
            BY <2>2, HostStays
        <3>2. ~ServerAlive
            BY <3>1 DEF ServerAlive
        <3>3. \A request : Post(request) = posted
            BY <3>2 DEF Post
        <3>4. \A F : Fail(F) => UNCHANGED posted
            BY <3>3 DEF Fail
        <3>5. ASSUME NEW l \in Links, Request(l)
              PROVE  UNCHANGED <<posted, lease, certificate>>
            BY <3>3, <3>5 DEF Request, SessionRequest, RequestRefused, VerifiedNothingToDo,
               ResumeTransport, QueryHost, TakeoverStale, TakeoverClaims, TakeoverEndsBrowser,
               Takeover, Proceeds, Verified, StartAcquire, gateVars
        <3>6. ASSUME NEW l \in Links, LinkStep(l), ~Request(l)
              PROVE  UNCHANGED <<posted, lease, certificate>>
            BY <3>4, <3>6 DEF LinkStep, DisplayResize, ClipboardStart, HelperExits, LinkFails,
               RecoveryTimeout, TransportLost, EndpointQuery, ownerVars, gateVars
        <3>7. CASE AccessStep
            BY <3>2, <3>4, <3>7 DEF AccessStep, Revoke, RevocationDone, RemoveTrust, gateVars
        <3>8. CASE OperationStep
            <4>1. \A r, fence : ~HostServesAcquire(r, fence)
                BY <3>2 DEF HostServesAcquire
            <4>2. CASE QueryReply
                BY <3>2, <3>3, <4>2 DEF QueryReply, IssueChallenge, StartAcquire, gateVars
            <4>3. CASE AcquireReply \/ EndBrowserDone \/ HostAnswersQuery \/ ReplyLost
                BY <3>2, <3>4, <4>3 DEF AcquireReply, EndBrowserDone, HostAnswersQuery, ReplyLost, gateVars
            <4>4. CASE (\E okay \in BOOLEAN : DisplaySettles(okay)) \/ BarrierReady \/ BarrierDeadline
                BY <3>2, <3>3, <4>4 DEF DisplaySettles, BarrierReady, BarrierDeadline, Finish, gateVars
            <4> QED
                BY <3>8, <4>1, <4>2, <4>3, <4>4 DEF OperationStep, ExchangeStep
        <3>9. ~ServeRelease /\ ~ServeAbandoned /\ ~GateStep
            BY <3>2 DEF ServeRelease, ServeAbandoned, GateStep, HostServesRelease, HostServesAcquire
        <3>10. CASE UNCHANGED vars
            BY <3>2, <3>10 DEF vars, gateVars
        <3> QED
            BY <2>2, <3>2, <3>5, <3>6, <3>7, <3>8, <3>9, <3>10 DEF Next
    <2> QED
        BY <2>1, <2>2
<1> QED
    BY <1>1, <1>2 DEF AgreementInv, NoDevice

\* The process that stops, or is down, is not the one of the start.
LEMMA StoppedIsCounted ==
    ASSUME TypeInv, AgreementInv, [Next]_vars, hostState' # "up"
    PROVE  hostRun' > 0
<1>1. hostRun \in Nat
    BY DEF TypeInv, SupervisorTypeOK, SystemTypeOK
<1>2. CASE HostStopping \/ HostCrash
    BY <1>1, <1>2 DEF HostStopping, HostCrash
<1>3. CASE ServerExit \/ HostStopped
    <2>1. hostState # "up" /\ UNCHANGED hostRun
        BY <1>3 DEF ServerExit, HostStopped
    <2> QED
        BY <2>1 DEF AgreementInv
<1>4. ~HostStart
    BY DEF HostStart
<1>5. CASE ~HostStep
    BY <1>5, HostStays DEF AgreementInv
<1> QED
    BY <1>2, <1>3, <1>4, <1>5 DEF HostStep

\* Every step keeps the agreement, and a new host process begins with it.
LEMMA AgreementStep ==
    ASSUME TypeInv, SoleInv, ClaimantInv, LeasesApart, AgreementInv, [Next]_vars,
           ~FenceMayTimeOut, ~RepliesMayBeLost
    PROVE  AgreementInv'
<1> SUFFICES ASSUME hostState' = "up"
             PROVE  Agreement'
    BY NothingReachesExited, StoppedIsCounted DEF AgreementInv
<1>1. CASE HostStep
    <2>1. HostStart
        BY <1>1 DEF HostStep, HostStopping, HostCrash, ServerExit, HostStopped
    <2> QED
        BY <2>1, AgreementStarts
<1>2. ASSUME ~HostStep PROVE Agreement
    BY <1>2, HostStays DEF AgreementInv
<1>3. ASSUME NEW r \in posted, HostServesRelease(r)
      PROVE  Agreement'
    <2>1. /\ UNCHANGED <<hostState, hostRun, op, sessionLink, linkLease>> /\ posted' = posted \ {r}
        BY <1>3 DEF HostServesRelease, hostVars, linkVars, ownerVars
    <2>2. Agreement
        BY <2>1 DEF AgreementInv
    <2>3. NoDevice => NoDevice'
        BY <1>3, GateConstants DEF HostServesRelease, ReleaseLease, NoDevice, gateVars
    <2> QED
        BY <1>3, <2>1, <2>2, <2>3, ReleaseServed, AgreementQuiet DEF SameWithHost, Acquires
<1>4. ASSUME NEW r \in posted, NEW fence \in BOOLEAN, HostServesAcquire(r, fence)
      PROVE  Agreement'
    <2>1. Agreement
        BY <1>4 DEF HostServesAcquire, hostVars, AgreementInv
    <2> QED
        BY <1>4, <2>1, AgreementServes
<1>5. ASSUME NEW l \in Links, LinkStep(l), ~HostStep
      PROVE  Agreement'
    BY <1>2, <1>5, AgreementRequest, AgreementOthers
<1>6. CASE OperationStep /\ ~HostStep
    BY <1>2, <1>4, <1>6, AgreementCallbacks DEF OperationStep, ExchangeStep
<1>7. CASE (AccessStep \/ GateStep \/ UNCHANGED vars) /\ ~HostStep
    BY <1>2, <1>7, AgreementOthers
<1> QED
    BY <1>1, <1>3, <1>4, <1>5, <1>6, <1>7 DEF Next, ServeRelease, ServeAbandoned

-----------------------------------------------------------------------------
(* Leases and agreement                                                    *)

\* Nothing is on its way, and nobody has a lease, at first.
LEMMA LeasesInit == Init => LeasesApart /\ AgreementInv
<1> SUFFICES ASSUME Init
             PROVE  LeasesApart /\ AgreementInv
    OBVIOUS
<1>1. op = IdleOp /\ sessionLink = NoLink /\ posted = {} /\ asked = 0 /\ hostState = "up"
      /\ \A l \in Links : pending[l] = NoRequest
    BY DEF Init
<1>2. Released = {} /\ Acquires = {} /\ ~Granted /\ IdleOp.id = 0 /\ ~Busy
    BY <1>1, IdleIsUngranted DEF Released, Acquires, IdleOp, Busy
<1> QED
    BY <1>1, <1>2 DEF LeasesApart, AgreementInv, Agreement, ServerAlive

\* A release that is late, however many sessions later, gives back neither the
\* lease of the session of that moment nor that of a claim in progress: with host
\* restarts, lost replies and removals.
THEOREM LateReleaseSpares ==
    ASSUME ~EndpointQueryOnSession
    PROVE  Spec => [](\A r \in posted : r.type = "release" =>
                         /\ sessionLink # NoLink => r.lease # linkLease[sessionLink]
                         /\ Busy => r.lease # op.id)
<1> DEFINE Inv == SoleInv /\ ClaimantInv /\ LeasesApart
           Spared == \A r \in posted : r.type = "release" =>
                         /\ sessionLink # NoLink => r.lease # linkLease[sessionLink]
                         /\ Busy => r.lease # op.id
<1>1. Init => Inv
    BY SoleInvInit, InitImplements, LeasesInit
<1>2. TypeInv /\ Inv /\ [Next]_vars => Inv'
    BY SoleInvStep, StepImplements, LeasesStep DEF Implements
<1>3. Inv => Spared
    BY DEF LeasesApart, Released, Taken
<1> HIDE DEF Inv
<1> QED
    BY <1>1, <1>2, <1>3, SystemInvariant, PTL DEF Spec

\* While a host process that is not being stopped answers and meets its input
\* fences, it agrees with PeerManager on the owner of the session, whatever resumes,
\* takeovers, removals, late releases and replacements of the process interleave: the
\* same lease, the same certificate and no other device's stream, or, in a process
\* that has replaced the one of the grant, no device at all.
THEOREM HostAgrees ==
    ASSUME ~EndpointQueryOnSession, ~FenceMayTimeOut, ~RepliesMayBeLost
    PROVE  Spec => []AdmittedOwnsHost
<1> DEFINE Inv == SoleInv /\ ClaimantInv /\ LeasesApart /\ AgreementInv
<1>1. Init => Inv
    BY SoleInvInit, InitImplements, LeasesInit
<1>2. TypeInv /\ Inv /\ [Next]_vars => Inv'
    BY SoleInvStep, StepImplements, LeasesStep, AgreementStep DEF Implements
<1>3. TypeInv /\ Inv => AdmittedOwnsHost
    <2> SUFFICES ASSUME TypeInv, Inv, sessionLink # NoLink, op.kind # "acquire",
                        hostState # "stopping",
                        ~(hostRun > 0 /\ certificate \in {NoClient, Browser})
                 PROVE  /\ lease = linkLease[sessionLink] /\ certificate = Owner[sessionLink]
                        /\ \A s \in streams : s.client = Owner[sessionLink]
        BY DEF AdmittedOwnsHost
    <2>1. op.kind # "barrier"
        BY DEF SoleInv, BarrierExclusive, ClaimantInv, ClaimantIsNew, Busy
    <2>2. hostState = "up"
        <3>1. hostState \in {"up", "stopping", "exited", "down"}
            BY DEF TypeInv, SupervisorTypeOK, SystemTypeOK
        <3>2. ServerAlive
            BY DEF AgreementInv, ServerAlive, NoDevice
        <3> QED
            BY <3>1, <3>2 DEF ServerAlive
    <2>3. lease = linkLease[sessionLink] /\ certificate = Owner[sessionLink]
        BY <2>1, <2>2 DEF AgreementInv, Agreement, Granted, KnownAs, Forgotten, NoDevice
    <2>4. certificate # NoClient /\ FencedStreams
        BY <2>3, SessionNulls, GateConstants DEF TypeInv, SupervisorTypeOK, OwnerTypeOK, GateInv
    <2> QED
        BY <2>3, <2>4 DEF FencedStreams
<1> HIDE DEF Inv
<1> QED
    BY <1>1, <1>2, <1>3, SystemInvariant, PTL DEF Spec
=============================================================================

---------------------------- MODULE PeerBinding ----------------------------
(***************************************************************************)
(* Binding two devices (app/backend/peermanager.cpp): a request, an        *)
(* approval by the user or an invitation, authorization in the host's      *)
(* trust, and the commit of two saved records over one connection that may *)
(* be lost between any two messages.  Also removal and the restart of a    *)
(* device.                                                                 *)
(*                                                                         *)
(* A connection is used once.  What PeerManager keeps of it is one record  *)
(* at each end (`end'), and one queue of messages towards each end         *)
(* (`inbox').  The transaction number of a request is its connection.      *)
(***************************************************************************)
EXTENDS Integers, Sequences, FiniteSets

CONSTANTS
    Devices,        \* devices that may be bound
    Connections,    \* connections; each is used once
    None,           \* no connection, no task
    MaxInvites,     \* bound: invitations of one device
    MaxCrashes,     \* bound: restarts of all devices
    SavesFail,      \* whether writing peers.json may fail
    TrustFails      \* whether the host may refuse, or its reply be lost

ASSUME BindingConstants ==
    /\ None \notin Connections
    /\ MaxInvites \in Nat /\ MaxCrashes \in Nat
    /\ SavesFail \in BOOLEAN /\ TrustFails \in BOOLEAN

VARIABLES
    clientOnly, \* m_ClientOnly: the devices without a host; it never changes
    route,      \* the two devices of each connection, or <<>>
    end,        \* PeerManager::Link, at each end of each connection
    inbox,      \* messages on their way to each end
    link,       \* m_Link of each device
    store,      \* m_Peers: what each device remembers of the others
    disk,       \* peers.json
    task,       \* the trust update of each device that is under way
    trusted,    \* the devices that each host lets in
    late,       \* updates of each host that were given up on before it served them
    invite,     \* the valid invitation of each device, or 0
    issued,     \* number of invitations so far
    dialog,     \* the request that the user of each device looks at
    approved,   \* history: the requests that a user has agreed to
    invited,    \* history: the connections that used an invitation
    withdrawn,  \* history: <<d, p>>: d took back what it last told p
    crashes     \* number of restarts so far

endVars     == <<route, end, inbox>>
peerVars    == <<store, disk>>
trustVars   == <<task, trusted>>
inviteVars  == <<invite, issued, invited>>
userVars   == <<dialog, approved>>
lifeVars   == <<crashes, clientOnly, late>>
vars == <<endVars, link, peerVars, trustVars, inviteVars, userVars, withdrawn, lifeVars>>

-----------------------------------------------------------------------------
Fresh == [requested |-> FALSE, accepted |-> FALSE, localReady |-> FALSE,
          remoteReady |-> FALSE, hostReadySent |-> FALSE, ended |-> FALSE]

\* A saved device: its record is written (grant), its access is saved (granted),
\* the binding is complete (ready).
Records == {"none", "saved", "granted", "ready"}
Tasks   == [add : BOOLEAN, peer : Devices, reply : {"none", "ok", "failed"}]
GivenUp == [add : BOOLEAN, peer : Devices]
Kinds   == {"request", "pending", "accept", "reject", "ready", "client-ready", "bound"}
Sides   == {"from", "to"}

Other(s)   == IF s = "from" THEN "to" ELSE "from"
At(c, s)   == route[c][IF s = "from" THEN 1 ELSE 2]
Peer(c, s) == At(c, Other(s))

\* m_Link is a live link that has this device at one end.
PendingIsOpen(d) ==
    \E s \in Sides : route[link[d]] # <<>> /\ At(link[d], s) = d /\ ~end[link[d]][s].ended

\* The types, and what m_Link refers to.
TypeOK ==
    /\ clientOnly \subseteq Devices
    /\ route \in [Connections -> {<<>>} \cup (Devices \X Devices)]
    /\ end \in [Connections -> [Sides -> [DOMAIN Fresh -> BOOLEAN]]]
    /\ \A c \in Connections, s \in Sides : \A i \in 1..Len(inbox[c][s]) :
          inbox[c][s][i] \in [kind : Kinds, token : 0..MaxInvites]
    /\ link \in [Devices -> Connections \cup {None}]
    /\ \A d \in Devices : link[d] # None => PendingIsOpen(d)
    /\ store \in [Devices -> [Devices -> Records]]
    /\ disk \in [Devices -> [Devices -> Records]]
    /\ \A d \in Devices : task[d] = None \/ task[d] \in Tasks
    /\ trusted \in [Devices -> SUBSET Devices]
    /\ late \in [Devices -> SUBSET GivenUp]
    /\ invite \in [Devices -> 0..MaxInvites] /\ issued \in [Devices -> 0..MaxInvites]
    /\ dialog \in [Devices -> Connections \cup {None}]
    /\ approved \subseteq Connections
    /\ invited \subseteq Connections
    /\ withdrawn \subseteq Devices \X Devices
    /\ crashes \in 0..MaxCrashes

Init ==
    /\ clientOnly \in SUBSET Devices
    /\ route = [c \in Connections |-> <<>>]
    /\ end = [c \in Connections |-> [s \in Sides |-> Fresh]]
    /\ inbox = [c \in Connections |-> [s \in Sides |-> <<>>]]
    /\ link = [d \in Devices |-> None]
    /\ store = [d \in Devices |-> [p \in Devices |-> "none"]] /\ disk = store
    /\ task = [d \in Devices |-> None]
    /\ trusted = [d \in Devices |-> {}] /\ late = trusted
    /\ invite = [d \in Devices |-> 0] /\ issued = invite
    /\ dialog = [d \in Devices |-> None]
    /\ approved = {} /\ invited = {} /\ withdrawn = {}
    /\ crashes = 0

-----------------------------------------------------------------------------
Open(c, s) == route[c] # <<>> /\ ~end[c][s].ended
Saves      == {TRUE} \cup {~SavesFail}
Asked(add, p) == [add |-> add, peer |-> p, reply |-> "none"]

\* Whether the connection binds a viewer: only one side has a host.
ForViewer(c) == route[c][1] \in clientOnly

busy(d) == link[d] # None \/ task[d] # None

\* requestId: the request that waits for the approval of the user of d.
requestId(d) ==
    IF /\ link[d] # None /\ At(link[d], "to") = d
       /\ end[link[d]]["to"].requested /\ ~end[link[d]]["to"].accepted
    THEN link[d] ELSE None

Msg(kind) == <<[kind |-> kind, token |-> 0]>>

\* The end s becomes e, has read its first message if `read', and sends some.
Update(c, s, e, read, out) ==
    /\ end' = [end EXCEPT ![c][s] = e]
    /\ inbox' = [inbox EXCEPT ![c][s] = IF read THEN Tail(@) ELSE @,
                              ![c][Other(s)] = @ \o out]
    /\ UNCHANGED route

\* Mutant: the slot of a failed request stays taken.
LinkKept(c, s) == link

LinkCleared(c, s) ==
    [link EXCEPT ![At(c, s)] = IF link[At(c, s)] = c THEN None ELSE @]

\* fail(): the link ends.
Fails(c, s, e, read, out) ==
    /\ Update(c, s, [e EXCEPT !.ended = TRUE], read, out)
    /\ link' = LinkCleared(c, s)

\* Writes `value' for the peer; d's table is kept in memory if that fails.
Remember(d, p, value) == store' = [store EXCEPT ![d][p] = value]
SaveAll(d) == disk' = [disk EXCEPT ![d] = store'[d]]

-----------------------------------------------------------------------------
(* The grant: save the record, let the peer in, save that, tell the peer.  *)

\* Mutant: the record is saved only after the host lets the peer in.
SavedLater(d) == UNCHANGED disk

SavedFirst(d) == SaveAll(d)

\* grant(): `read' and `out' are of the message that led to it.
Grant(c, s, e, read, out) ==
    LET d == At(c, s) p == Peer(c, s)
    IN  \E saved \in Saves :
          /\ Remember(d, p, "saved")
          /\ withdrawn' = withdrawn \cup {<<d, p>>}
          /\ IF saved
             THEN /\ SavedFirst(d)
                  /\ task' = [task EXCEPT ![d] = Asked(TRUE, p)]
                  /\ link' = [link EXCEPT ![d] = c]
                  /\ Update(c, s, e, read, out)
             ELSE /\ UNCHANGED <<disk, task>>
                  /\ Fails(c, s, e, read, out)
          /\ UNCHANGED trusted

\* Mutant: a binding is complete when the local grant is.
CompleteAlone(c, e) == e.localReady

Complete(c, e) == e.localReady /\ e.remoteReady /\ (e.hostReadySent \/ ForViewer(c))

\* finish(): the binding is complete when both ends have saved their grant.
Finish(c, s, e, read, out) ==
    LET d == At(c, s) p == Peer(c, s)
    IN  IF Complete(c, e)
        THEN \E saved \in Saves :
               IF saved
               THEN /\ Remember(d, p, "ready") /\ SaveAll(d)
                    /\ Fails(c, s, e, read,
                             IF ForViewer(c) /\ s = "to" THEN out \o Msg("bound") ELSE out)
               ELSE Fails(c, s, e, read, out) /\ UNCHANGED peerVars
        ELSE Update(c, s, e, read, out) /\ UNCHANGED <<peerVars, link>>

\* The host has authorized the peer of the pending link.
Authorized(d) ==
    LET c == link[d]
        s == IF At(c, "to") = d THEN "to" ELSE "from"
        e == [end[c][s] EXCEPT !.localReady = TRUE]
    IN  \E saved \in Saves :
          /\ Remember(d, Peer(c, s), "granted")
          /\ IF saved
             THEN /\ SaveAll(d) /\ UNCHANGED link
                  /\ withdrawn' = withdrawn \ {<<d, Peer(c, s)>>}
                  /\ IF ForViewer(c)
                     THEN Update(c, s, [e EXCEPT !.hostReadySent = TRUE], FALSE, Msg("ready"))
                     ELSE Update(c, s, e, FALSE, <<>>)
             ELSE /\ UNCHANGED <<disk, withdrawn>>
                  /\ Fails(c, s, e, FALSE, <<>>)

\* granted(), for a removal.
Removed(d) ==
    \E saved \in Saves :
      IF task[d].reply = "ok" /\ saved
      THEN Remember(d, task[d].peer, "none") /\ SaveAll(d)
      ELSE UNCHANGED peerVars

\* granted(): the host's answer to the update.
Granted(d) ==
    /\ task[d] # None /\ task[d].reply # "none"
    /\ task' = [task EXCEPT ![d] = None]
    /\ IF ~task[d].add
       THEN Removed(d) /\ UNCHANGED <<endVars, link, withdrawn>>
       ELSE IF link[d] = None
       THEN UNCHANGED <<endVars, link, peerVars, withdrawn>>
       ELSE IF task[d].reply = "ok"
       THEN Authorized(d)
       ELSE LET c == link[d] s == IF At(c, "to") = d THEN "to" ELSE "from"
            IN  Fails(c, s, end[c][s], FALSE, <<>>) /\ UNCHANGED <<peerVars, withdrawn>>
    /\ UNCHANGED <<trusted, inviteVars, userVars, lifeVars>>

\* The host can pair: sendReady of a mutual binding.
HostReady(c, s) ==
    /\ Open(c, s) /\ ~ForViewer(c)
    /\ end[c][s].localReady /\ ~end[c][s].hostReadySent
    /\ Finish(c, s, [end[c][s] EXCEPT !.hostReadySent = TRUE], FALSE, Msg("ready"))
    /\ UNCHANGED <<trustVars, inviteVars, userVars, withdrawn, lifeVars>>

-----------------------------------------------------------------------------
(* Messages                                                                *)

\* request(): the user of d asks p, perhaps with an invitation.
Request(c, d, p) ==
    /\ route[c] = <<>> /\ d # p /\ p \notin clientOnly
    /\ ~busy(d)
    /\ \E token \in 0..issued[p] :
          /\ token # 0 => d \in clientOnly
          /\ inbox' = [inbox EXCEPT ![c]["to"] = <<[kind |-> "request", token |-> token]>>]
    /\ route' = [route EXCEPT ![c] = <<d, p>>]
    /\ link' = [link EXCEPT ![d] = c]
    /\ UNCHANGED <<end, peerVars, trustVars, inviteVars, userVars, withdrawn, lifeVars>>

\* Mutant: an invitation is used up only by a success.
InviteStays(d) == UNCHANGED invite

InviteConsumed(d) == invite' = [invite EXCEPT ![d] = 0]

\* A request arrives: refused when busy or when its invitation is not the valid
\* one, put to the user, or approved by the invitation.
ReceiveRequest(c, token) ==
    LET d == At(c, "to")
        e == [end[c]["to"] EXCEPT !.requested = TRUE]
    IN  IF busy(d) \/ (token # 0 /\ token # invite[d])
        THEN /\ Fails(c, "to", end[c]["to"], TRUE, <<>>)
             /\ UNCHANGED <<peerVars, trustVars, inviteVars, withdrawn>>
        ELSE /\ UNCHANGED issued
             /\ IF token # 0
                THEN /\ InviteConsumed(d)
                     /\ invited' = invited \cup {c}
                     /\ Grant(c, "to", [e EXCEPT !.accepted = TRUE], TRUE,
                              Msg("pending") \o Msg("accept"))
                ELSE /\ Update(c, "to", e, TRUE, Msg("pending"))
                     /\ link' = [link EXCEPT ![d] = c]
                     /\ UNCHANGED <<peerVars, trustVars, invite, invited, withdrawn>>

\* A viewer saves the host that has authorized it, and says so.
ViewerSaves(c, e) ==
    LET d == At(c, "from") p == Peer(c, "from")
    IN  \E saved \in Saves :
          IF saved
          THEN /\ Remember(d, p, "granted") /\ SaveAll(d)
               /\ withdrawn' = withdrawn \ {<<d, p>>}
               /\ Update(c, "from", [e EXCEPT !.localReady = TRUE, !.remoteReady = TRUE],
                         TRUE, Msg("client-ready"))
               /\ UNCHANGED link
          ELSE /\ Fails(c, "from", e, TRUE, <<>>)
               /\ UNCHANGED <<peerVars, withdrawn>>

\* What an end that is in state e may be told.
Expected(c, s, e, kind) ==
    CASE kind = "pending" -> s = "from" /\ ~e.requested /\ ~e.accepted
      [] kind = "accept" -> s = "from" /\ ~e.accepted /\ (ForViewer(c) => e.requested)
      [] kind = "ready" -> e.accepted /\ ~e.remoteReady /\ (ForViewer(c) => s = "from")
      [] kind = "client-ready" ->
            ForViewer(c) /\ s = "to" /\ e.accepted /\ e.localReady /\ ~e.remoteReady
      [] kind = "bound" -> ForViewer(c) /\ s = "from" /\ e.localReady /\ e.remoteReady
      [] OTHER -> FALSE

\* receive(): a message of the protocol; an unexpected one ends the link.
Receive(c, s) ==
    /\ Open(c, s) /\ inbox[c][s] # <<>>
    /\ LET m == Head(inbox[c][s])
           e == end[c][s]
           told == <<trustVars, withdrawn>>
       IN  CASE m.kind = "request" -> ReceiveRequest(c, m.token)
             [] m.kind # "request" /\ ~Expected(c, s, e, m.kind) ->
                  /\ Fails(c, s, e, TRUE, <<>>)
                  /\ UNCHANGED <<peerVars, inviteVars, told>>
             [] OTHER ->
                  /\ UNCHANGED inviteVars
                  /\ CASE m.kind = "pending" ->
                            /\ Update(c, s, [e EXCEPT !.requested = TRUE], TRUE, <<>>)
                            /\ UNCHANGED <<link, peerVars, told>>
                       [] m.kind = "accept" /\ ForViewer(c) ->
                            /\ Update(c, s, [e EXCEPT !.accepted = TRUE], TRUE, <<>>)
                            /\ UNCHANGED <<link, peerVars, told>>
                       [] m.kind = "accept" /\ ~ForViewer(c) ->
                            Grant(c, s, [e EXCEPT !.accepted = TRUE], TRUE, <<>>)
                       [] m.kind = "ready" /\ ForViewer(c) ->
                            ViewerSaves(c, e) /\ UNCHANGED trustVars
                       [] OTHER ->
                            /\ Finish(c, s, [e EXCEPT !.remoteReady = TRUE], TRUE, <<>>)
                            /\ UNCHANGED told
    /\ UNCHANGED <<userVars, lifeVars>>

\* The connection is lost, a timer expires (10 s, 60 s, 120 s) or the user cancels.
LinkLost(c, s) ==
    /\ Open(c, s)
    /\ Fails(c, s, end[c][s], FALSE, <<>>)
    /\ UNCHANGED <<peerVars, trustVars, inviteVars, userVars, withdrawn, lifeVars>>

-----------------------------------------------------------------------------
(* The users                                                               *)

\* The user of d sees the request that waits.  It may be gone when he answers.
Shown(d) ==
    /\ requestId(d) \notin {None, dialog[d]}
    /\ dialog' = [dialog EXCEPT ![d] = requestId(d)]
    /\ UNCHANGED <<endVars, link, peerVars, trustVars, inviteVars, approved, withdrawn, lifeVars>>

\* Mutant: the answer is for whatever request waits.
WhateverWaits(d) == requestId(d) # None

StillWaits(d) == requestId(d) = dialog[d]

\* approve() and reject(), with the transaction that was shown.
Approve(d) ==
    /\ dialog[d] # None
    /\ approved' = approved \cup {dialog[d]}
    /\ dialog' = [dialog EXCEPT ![d] = None]
    /\ IF StillWaits(d)
       THEN Grant(link[d], "to", [end[link[d]]["to"] EXCEPT !.accepted = TRUE], FALSE, Msg("accept"))
       ELSE UNCHANGED <<endVars, link, peerVars, trustVars, withdrawn>>
    /\ UNCHANGED <<inviteVars, lifeVars>>

Reject(d) ==
    /\ dialog[d] # None
    /\ dialog' = [dialog EXCEPT ![d] = None]
    /\ IF StillWaits(d)
       THEN Fails(link[d], "to", end[link[d]]["to"], FALSE, Msg("reject"))
       ELSE UNCHANGED <<endVars, link>>
    /\ UNCHANGED <<peerVars, trustVars, inviteVars, approved, withdrawn, lifeVars>>

\* An invitation that nobody could use is left out.
CreateInvitation(d) ==
    /\ d \notin clientOnly /\ clientOnly # {} /\ ~busy(d)
    /\ issued[d] < MaxInvites
    /\ issued' = [issued EXCEPT ![d] = issued[d] + 1]
    /\ invite' = [invite EXCEPT ![d] = issued[d] + 1]
    /\ UNCHANGED <<endVars, link, peerVars, trustVars, invited, userVars, withdrawn, lifeVars>>

\* revokeInvitation, or it expires.
RevokeInvitation(d) ==
    /\ invite[d] # 0
    /\ invite' = [invite EXCEPT ![d] = 0]
    /\ UNCHANGED <<endVars, link, peerVars, trustVars, issued, invited, userVars,
                   withdrawn, lifeVars>>

\* revoke(), removeDevice() and beginRevocation(): a viewer only forgets.
Revoke(d, p) ==
    /\ ~busy(d) /\ store[d][p] # "none"
    /\ withdrawn' = withdrawn \cup {<<d, p>>}
    /\ IF d \in clientOnly
       THEN /\ \E saved \in Saves : IF saved THEN Remember(d, p, "none") /\ SaveAll(d)
                                             ELSE UNCHANGED peerVars
            /\ UNCHANGED task
       ELSE /\ task' = [task EXCEPT ![d] = Asked(FALSE, p)]
            /\ UNCHANGED peerVars
    /\ UNCHANGED <<endVars, link, trusted, inviteVars, userVars, lifeVars>>

-----------------------------------------------------------------------------
(* The host's trust, and restarts                                          *)

Applied(d, add, p) ==
    trusted' = [trusted EXCEPT ![d] = IF add THEN @ \cup {p} ELSE @ \ {p}]

\* The host serves one request at a time, in the order in which they came.
InOrder(d) == late[d] = {}

\* The running host, or the worker that edits its state file, serves the update.
TrustServed(d) ==
    /\ task[d] # None /\ task[d].reply = "none"
    /\ \/ /\ InOrder(d) /\ Applied(d, task[d].add, task[d].peer)
          /\ task' = [task EXCEPT ![d].reply = "ok"]
       \/ TrustFails /\ task' = [task EXCEPT ![d].reply = "failed"] /\ UNCHANGED trusted
    /\ UNCHANGED <<endVars, link, peerVars, inviteVars, userVars, withdrawn, lifeVars>>

\* No answer in time, or it is lost: an update that the host has not served yet
\* may still be.
TrustReplyLost(d) ==
    /\ TrustFails
    /\ task[d] # None /\ task[d].reply # "failed"
    /\ task' = [task EXCEPT ![d].reply = "failed"]
    /\ late' = IF task[d].reply = "ok" THEN late
               ELSE [late EXCEPT ![d] = @ \cup {[add |-> task[d].add, peer |-> task[d].peer]}]
    /\ UNCHANGED <<endVars, link, peerVars, trusted, inviteVars, userVars, withdrawn,
                   crashes, clientOnly>>

\* The host serves an update that was given up on, or it ends before.
LateServed(d) ==
    \E u \in late[d] :
       /\ late' = [late EXCEPT ![d] = @ \ {u}]
       /\ Applied(d, u.add, u.peer) \/ UNCHANGED trusted
       /\ UNCHANGED <<endVars, link, peerVars, task, inviteVars, userVars, withdrawn,
                      crashes, clientOnly>>

\* The application ends at any point and starts again from what was saved.
Restart(d) ==
    /\ crashes < MaxCrashes
    /\ crashes' = crashes + 1
    /\ end' = [c \in Connections |-> [s \in Sides |->
                  IF route[c] # <<>> /\ At(c, s) = d
                  THEN [end[c][s] EXCEPT !.ended = TRUE] ELSE end[c][s]]]
    /\ link' = [link EXCEPT ![d] = None]
    /\ store' = [store EXCEPT ![d] = disk[d]]
    /\ task' = [task EXCEPT ![d] = None]
    /\ invite' = [invite EXCEPT ![d] = 0]
    /\ dialog' = [dialog EXCEPT ![d] = None]
    /\ UNCHANGED <<route, inbox, disk, trusted, late, issued, invited, approved, withdrawn,
                   clientOnly>>

-----------------------------------------------------------------------------
User ==
    \/ \E c \in Connections, d, p \in Devices : Request(c, d, p)
    \/ \E d \in Devices : Shown(d) \/ Approve(d) \/ Reject(d)
    \/ \E d \in Devices : CreateInvitation(d) \/ RevokeInvitation(d)
    \/ \E d, p \in Devices : Revoke(d, p)

Next ==
    \/ User
    \/ \E c \in Connections, s \in Sides : Receive(c, s) \/ HostReady(c, s) \/ LinkLost(c, s)
    \/ \E d \in Devices :
          Granted(d) \/ TrustServed(d) \/ TrustReplyLost(d) \/ LateServed(d) \/ Restart(d)

Spec == Init /\ [][Next]_vars

-----------------------------------------------------------------------------
(* Properties                                                              *)

\* "Binding is complete only after both endpoints report their local grant
\* persisted" (docs/PEER_BINDING.md:54): the other end of a complete binding has
\* saved it and lets this device in, unless it has taken that back since.
ReadyIsMutual ==
    \A d, p \in Devices :
        (store[d][p] = "ready" /\ <<p, d>> \notin withdrawn) =>
            /\ disk[p][d] \in {"granted", "ready"}
            /\ p \notin clientOnly => d \in trusted[p]

\* A device that is let in is listed, also after a restart: its access can be
\* removed.
TrustedIsListed ==
    \A d, p \in Devices : p \in trusted[d] => disk[d][p] # "none"

\* Nobody is let in whom the user did not ask, or approve when he was shown the
\* request, or who did not bring an invitation; an invitation is used once.
OnlyApproved ==
    /\ \A c \in Connections : end[c]["to"].accepted => c \in approved \cup invited
    /\ \A d \in Devices : \A p \in trusted[d] :
          \E c \in Connections :
             \/ route[c] = <<d, p>>
             \/ route[c] = <<p, d>> /\ c \in approved \cup invited
    /\ \A d \in Devices : Cardinality({c \in invited : At(c, "to") = d}) <= issued[d]
=============================================================================

------------------------- MODULE PeerBinding_proofs -------------------------
(***************************************************************************)
(* Proofs about PeerBinding for any number of devices, connections,        *)
(* invitations and restarts, with saves and trust updates that fail.       *)
(*                                                                         *)
(* None of the three safety properties is inductive.  What they need in    *)
(* common is what a message on its way and a trust update under way stand  *)
(* for:                                                                    *)
(*   - an end that says it is ready (by its flag, or by a message that is  *)
(*     still in the other end's queue) has saved its grant and let the     *)
(*     peer in, in memory and on disk (`Promised');                        *)
(*   - while an update is under way the device has taken back what it told *)
(*     that peer before, and an update that lets a peer in is for the      *)
(*     device at the other end of m_Link (`Grounded');                     *)
(*   - the same goes for an update that was given up on and that the host  *)
(*     may still serve (`LateGrounded').                                   *)
(* A grant that is repeated or taken back meanwhile makes these promises   *)
(* void, which is why they speak of `withdrawn'.                           *)
(***************************************************************************)
EXTENDS PeerBinding, FiniteSetTheorems, SequenceTheorems, TLAPS

-----------------------------------------------------------------------------
(* The invariant                                                           *)

Messages == [kind : Kinds, token : 0..MaxInvites]

Flags == {"requested", "accepted", "localReady", "remoteReady", "hostReadySent", "ended"}

EndTyped ==
    /\ clientOnly \subseteq Devices
    /\ route \in [Connections -> {<<>>} \cup (Devices \X Devices)]
    /\ end \in [Connections -> [Sides -> [Flags -> BOOLEAN]]]
    /\ inbox \in [Connections -> [Sides -> Seq(Messages)]]
    /\ link \in [Devices -> Connections \cup {None}]

\* What the users do, and the bounds.
UsersTyped ==
    /\ invite \in [Devices -> 0..MaxInvites] /\ issued \in [Devices -> 0..MaxInvites]
    /\ dialog \in [Devices -> Connections \cup {None}]
    /\ approved \subseteq Connections /\ invited \subseteq Connections
    /\ crashes \in 0..MaxCrashes

DeviceTyped ==
    /\ store \in [Devices -> [Devices -> Records]]
    /\ disk \in [Devices -> [Devices -> Records]]
    /\ task \in [Devices -> Tasks \cup {None}]
    /\ trusted \in [Devices -> SUBSET Devices]
    /\ withdrawn \subseteq Devices \X Devices
    /\ UsersTyped

\* The messages that wait for one end, by their kind.
KindsOf(q) == {q[i].kind : i \in 1..Len(q)}
Waiting(c, s) == KindsOf(inbox[c][s])

\* A connection leads from one device to another that has a host, and requests
\* are sent to that one.
Routed ==
    \A c \in Connections :
        /\ route[c] = <<>> => \A s \in Sides : end[c][s] = Fresh /\ inbox[c][s] = <<>>
        /\ route[c] # <<>> => At(c, "from") # At(c, "to") /\ At(c, "to") \notin clientOnly
        /\ "request" \notin Waiting(c, "from")

LinksOpen == \A d \in Devices : link[d] # None => PendingIsOpen(d)

WireInv == EndTyped /\ DeviceTyped /\ Routed /\ LinksOpen

\* In memory and on disk.
Listed(d, p) == store[d][p] # "none" /\ disk[d][p] # "none"

Agreed == approved \cup invited

\* The user of d asked p or agreed to its request.
Wanted(d, p) ==
    \E c \in Connections : route[c] = <<d, p>> \/ (route[c] = <<p, d>> /\ c \in Agreed)

\* What a trust update under way stands for.
Grounded(d) ==
    task[d] # None =>
        /\ d \notin clientOnly
        /\ <<d, task[d].peer>> \in withdrawn
        /\ task[d].add =>
              /\ Listed(d, task[d].peer) /\ Wanted(d, task[d].peer)
              /\ link[d] # None =>
                    \E s \in Sides : At(link[d], s) = d /\ Peer(link[d], s) = task[d].peer
        /\ task[d].reply = "ok" => (task[d].add <=> task[d].peer \in trusted[d])

TaskGrounded == \A d \in Devices : Grounded(d)

TrustGrounded ==
    \A d \in Devices : \A p \in trusted[d] : d \notin clientOnly /\ Listed(d, p) /\ Wanted(d, p)

AcceptedIsAgreed == \A c \in Connections : end[c]["to"].accepted => c \in Agreed

\* Every invitation used or still valid was issued.
InvitesIssued ==
    /\ IsFiniteSet(invited) /\ \A c \in invited : route[c] # <<>>
    /\ \A d \in Devices :
          Cardinality({c \in invited : At(c, "to") = d}) + (IF invite[d] # 0 THEN 1 ELSE 0)
            <= issued[d]

\* d has authorized p, and both its memory and its disk say so.
Holds(d, p) ==
    /\ store[d][p] \in {"granted", "ready"} /\ disk[d][p] \in {"granted", "ready"}
    /\ d \notin clientOnly => p \in trusted[d]

\* What d told p still stands, unless it has taken it back.
Stands(d, p) == <<d, p>> \in withdrawn \/ Holds(d, p)

ReadyKinds == {"ready", "client-ready", "bound"}

\* An end that is ready has granted, what an end was told was true, and a
\* complete binding was told.
Promised ==
    \A c \in Connections, s \in Sides :
        /\ end[c][s].localReady => Stands(At(c, s), Peer(c, s))
        /\ end[c][s].remoteReady \/ Waiting(c, s) \cap ReadyKinds # {} => end[c][Other(s)].localReady

ReadyTold ==
    \A d, p \in Devices : "ready" \in {store[d][p], disk[d][p]} => Stands(p, d)

GrantInv == TaskGrounded /\ TrustGrounded /\ AcceptedIsAgreed /\ InvitesIssued
BindingInv == WireInv /\ GrantInv /\ Promised /\ ReadyTold

\* What an update that the host may still serve late stands for.  While there is
\* one, the host serves no later one.
LateIs(d) ==
    late[d] # {} =>
        /\ d \notin clientOnly /\ ~(task[d] # None /\ task[d].reply = "ok")
        /\ \A u \in late[d] :
              /\ <<d, u.peer>> \in withdrawn
              /\ u.add => Listed(d, u.peer) /\ Wanted(d, u.peer)

LateGrounded == late \in [Devices -> SUBSET GivenUp] /\ \A d \in Devices : LateIs(d)

WholeInv == BindingInv /\ LateGrounded

-----------------------------------------------------------------------------
(* Connections and queues                                                  *)

LEMMA SidesDiffer ==
    \A s \in Sides : Other(s) \in Sides /\ Other(s) # s /\ Other(Other(s)) = s
  BY DEF Sides, Other

\* The two ends of a connection that is in use.
LEMMA Ends ==
    ASSUME EndTyped, Routed, NEW c \in Connections, route[c] # <<>>
    PROVE  /\ route[c] = <<At(c, "from"), At(c, "to")>>
           /\ \A s \in Sides : At(c, s) \in Devices /\ Peer(c, s) \in Devices /\ At(c, s) # Peer(c, s)
           /\ At(c, "to") \notin clientOnly /\ (ForViewer(c) <=> At(c, "from") \in clientOnly)
           /\ Peer(c, "to") = At(c, "from") /\ Peer(c, "from") = At(c, "to")
<1>1. PICK d, p \in Devices : route[c] = <<d, p>>
  BY DEF EndTyped
<1>2. At(c, "from") = d /\ At(c, "to") = p
  BY <1>1 DEF At
<1>3. Peer(c, "to") = At(c, "from") /\ Peer(c, "from") = At(c, "to")
  BY DEF Peer, Other
<1>4. d # p /\ p \notin clientOnly
  BY <1>2 DEF Routed
<1> QED  BY <1>1, <1>2, <1>3, <1>4 DEF Sides, ForViewer

LEMMA Queues ==
    ASSUME NEW q \in Seq(Messages)
    PROVE  /\ \A r \in Seq(Messages) : q \o r \in Seq(Messages) /\ KindsOf(q \o r) \subseteq KindsOf(q) \cup KindsOf(r)
           /\ q # <<>> => /\ Tail(q) \in Seq(Messages) /\ KindsOf(Tail(q)) \subseteq KindsOf(q)
                          /\ Head(q) \in Messages /\ Head(q).kind \in KindsOf(q)
<1>1. ASSUME NEW r \in Seq(Messages)
      PROVE  q \o r \in Seq(Messages) /\ KindsOf(q \o r) \subseteq KindsOf(q) \cup KindsOf(r)
  <2>1. q \o r \in Seq(Messages)
    OBVIOUS
  <2>2. ASSUME NEW i \in 1..Len(q \o r)
        PROVE  \/ \E j \in 1..Len(q) : (q \o r)[i] = q[j]
               \/ \E j \in 1..Len(r) : (q \o r)[i] = r[j]
    <3>1. CASE i <= Len(q)
      BY <3>1
    <3>2. CASE i > Len(q)
      <4>1. i - Len(q) \in 1..Len(r) /\ (q \o r)[i] = r[i - Len(q)]
        BY <3>2
      <4> QED  BY <4>1
    <3> QED  BY <3>1, <3>2
  <2> QED  BY <2>1, <2>2 DEF KindsOf
<1>2. ASSUME q # <<>>
      PROVE  /\ Tail(q) \in Seq(Messages) /\ KindsOf(Tail(q)) \subseteq KindsOf(q)
             /\ Head(q) \in Messages /\ Head(q).kind \in KindsOf(q)
  <2>1. Tail(q) \in Seq(Messages) /\ Len(Tail(q)) = Len(q) - 1 /\ Len(q) \in Nat \ {0}
    BY <1>2, HeadTailProperties
  <2>2. \A i \in 1..Len(Tail(q)) : i + 1 \in 1..Len(q) /\ Tail(q)[i] = q[i + 1]
    BY <1>2, <2>1, HeadTailProperties
  <2>3. Head(q) = q[1] /\ 1 \in 1..Len(q) /\ Head(q) \in Messages
    BY <1>2, <2>1, HeadTailProperties
  <2> QED  BY <2>1, <2>2, <2>3 DEF KindsOf
<1> QED  BY <1>1, <1>2

LEMMA Notices ==
    ASSUME NEW k \in Kinds
    PROVE  Msg(k) \in Seq(Messages) /\ KindsOf(Msg(k)) = {k}
<1>1. 0 \in 0..MaxInvites
  BY BindingConstants DEF BindingConstants
<1>2. Msg(k) = <<[kind |-> k, token |-> 0]>> /\ Len(Msg(k)) = 1 /\ Msg(k)[1].kind = k
  BY DEF Msg
<1>3. Msg(k) \in Seq(Messages)
  BY <1>1, <1>2 DEF Messages
<1> QED  BY <1>2, <1>3 DEF KindsOf

LEMMA NoNotice == <<>> \in Seq(Messages) /\ KindsOf(<<>>) = {}
  BY DEF KindsOf

\* What a step does to one end and the two queues of its connection.
Changed(c, s, e, kinds) ==
    /\ route' = route
    /\ end' \in [Connections -> [Sides -> [Flags -> BOOLEAN]]]
    /\ inbox' \in [Connections -> [Sides -> Seq(Messages)]]
    /\ \A c2 \in Connections, s2 \in Sides :
          /\ end'[c2][s2] = IF c2 = c /\ s2 = s THEN e ELSE end[c2][s2]
          /\ c2 # c => inbox'[c2][s2] = inbox[c2][s2]
          /\ Waiting(c2, s2)' \subseteq
                Waiting(c2, s2) \cup (IF c2 = c /\ s2 = Other(s) THEN kinds ELSE {})

LEMMA Updates ==
    ASSUME EndTyped, NEW c \in Connections, NEW s \in Sides, NEW e \in [Flags -> BOOLEAN],
           NEW read \in BOOLEAN, read => inbox[c][s] # <<>>, NEW out \in Seq(Messages),
           Update(c, s, e, read, out)
    PROVE  Changed(c, s, e, KindsOf(out))
<1> DEFINE mine == IF read THEN Tail(inbox[c][s]) ELSE inbox[c][s]
           its  == inbox[c][Other(s)] \o out
<1>1. /\ end' = [end EXCEPT ![c][s] = e]
      /\ inbox' = [inbox EXCEPT ![c][s] = IF read THEN Tail(@) ELSE @, ![c][Other(s)] = @ \o out]
  BY DEF Update
<1>2. /\ \A c2 \in Connections : c2 # c => inbox'[c2] = inbox[c2]
      /\ inbox'[c][s] = mine /\ inbox'[c][Other(s)] = its
      /\ DOMAIN inbox' = Connections /\ DOMAIN inbox'[c] = Sides
  BY <1>1, SidesDiffer DEF EndTyped
<1>3. /\ mine \in Seq(Messages) /\ its \in Seq(Messages)
      /\ KindsOf(mine) \subseteq Waiting(c, s)
      /\ KindsOf(its) \subseteq Waiting(c, Other(s)) \cup KindsOf(out)
  <2>1. inbox[c][s] \in Seq(Messages) /\ inbox[c][Other(s)] \in Seq(Messages)
    BY SidesDiffer DEF EndTyped
  <2> QED  BY <2>1, Queues DEF Waiting
<1> HIDE DEF mine, its
<1>4. \A s2 \in Sides : s2 = s \/ s2 = Other(s)
  BY DEF Sides, Other
<1>5. inbox' \in [Connections -> [Sides -> Seq(Messages)]]
  <2>1. ASSUME NEW c2 \in Connections
        PROVE  inbox'[c2] \in [Sides -> Seq(Messages)]
    <3>1. CASE c2 # c
      BY <1>2, <3>1 DEF EndTyped
    <3>2. CASE c2 = c
      <4>1. \A s2 \in Sides : inbox'[c][s2] \in Seq(Messages)
        BY <1>2, <1>3, <1>4
      <4>2. inbox'[c] = [s2 \in Sides |-> inbox'[c][s2]]
        BY <1>1, <1>2 DEF EndTyped
      <4> QED  BY <3>2, <4>1, <4>2
    <3> QED  BY <3>1, <3>2
  <2>2. inbox' = [c2 \in Connections |-> inbox'[c2]]
    BY <1>1, <1>2 DEF EndTyped
  <2> QED  BY <2>1, <2>2
<1>6. \A c2 \in Connections, s2 \in Sides :
          /\ c2 # c => inbox'[c2][s2] = inbox[c2][s2]
          /\ Waiting(c2, s2)' \subseteq
                Waiting(c2, s2) \cup (IF c2 = c /\ s2 = Other(s) THEN KindsOf(out) ELSE {})
  BY <1>2, <1>3, <1>4, SidesDiffer DEF Waiting
<1>7. /\ end' \in [Connections -> [Sides -> [Flags -> BOOLEAN]]]
      /\ \A c2 \in Connections, s2 \in Sides :
            end'[c2][s2] = IF c2 = c /\ s2 = s THEN e ELSE end[c2][s2]
  BY <1>1 DEF EndTyped
<1>8. route' = route
  BY DEF Update
<1> QED  BY <1>5, <1>6, <1>7, <1>8 DEF Changed

-----------------------------------------------------------------------------
(* Types and links                                                         *)

\* One end of a connection in use moves on or ends.
Moved(c, s, e, kinds) ==
    /\ Changed(c, s, e, kinds) /\ UNCHANGED clientOnly
    /\ link' \in [Devices -> Connections \cup {None}]
    /\ \/ ~e.ended /\ \A d \in Devices : link'[d] = link[d] \/ (d = At(c, s) /\ link'[d] = c)
       \/ e.ended /\ \A d \in Devices : link'[d] = IF d = At(c, s) /\ link[d] = c THEN None ELSE link[d]

LEMMA MovedKeepsWire ==
    ASSUME EndTyped, Routed, LinksOpen, NEW c \in Connections, NEW s \in Sides, Open(c, s),
           NEW e \in [Flags -> BOOLEAN],
           NEW kinds, s = "to" => "request" \notin kinds, Moved(c, s, e, kinds)
    PROVE  EndTyped' /\ Routed' /\ LinksOpen'
<1>1. \A c2, s2 : At(c2, s2)' = At(c2, s2)
  BY DEF Moved, Changed, At
<1>2. EndTyped'
  BY DEF EndTyped, Moved, Changed
<1>3. Routed'
  <2>1. ASSUME NEW c2 \in Connections, route'[c2] = <<>>, NEW s2 \in Sides
        PROVE  end'[c2][s2] = Fresh /\ inbox'[c2][s2] = <<>>
    <3>1. c2 # c
      BY <2>1 DEF Open, Moved, Changed
    <3>2. /\ route[c2] = <<>> /\ end'[c2][s2] = end[c2][s2] /\ inbox'[c2][s2] = inbox[c2][s2]
      BY <2>1, <3>1 DEF Moved, Changed
    <3> QED  BY <3>2 DEF Routed
  <2>2. ASSUME NEW c2 \in Connections, route'[c2] # <<>>
        PROVE  At(c2, "from")' # At(c2, "to")' /\ At(c2, "to")' \notin clientOnly'
    BY <1>1, <2>2 DEF Routed, Moved, Changed
  <2>3. ASSUME NEW c2 \in Connections PROVE "request" \notin Waiting(c2, "from")'
    <3>1. Waiting(c2, "from")' \subseteq
             Waiting(c2, "from") \cup (IF c2 = c /\ "from" = Other(s) THEN kinds ELSE {})
      BY DEF Moved, Changed, Sides
    <3> QED  BY <3>1 DEF Routed, Other, Sides
  <2> QED  BY <2>1, <2>2, <2>3 DEF Routed
<1>4. LinksOpen'
  <2> SUFFICES ASSUME NEW d \in Devices, link'[d] # None PROVE PendingIsOpen(d)'
    BY DEF LinksOpen
  <2>1. CASE link'[d] = link[d]
    <3>1. PICK s2 \in Sides : route[link[d]] # <<>> /\ At(link[d], s2) = d /\ ~end[link[d]][s2].ended
      BY <2>1 DEF LinksOpen, PendingIsOpen
    <3>2. link[d] \in Connections
      BY <2>1 DEF EndTyped
    <3>3. ~end'[link[d]][s2].ended
      <4>1. end'[link[d]][s2] = IF link[d] = c /\ s2 = s THEN e ELSE end[link[d]][s2]
        BY <3>2 DEF Moved, Changed
      <4>2. CASE link[d] = c /\ s2 = s
        <5>1. ~e.ended
          BY <2>1, <3>1, <4>2 DEF Moved
        <5> QED  BY <4>1, <4>2, <5>1
      <4>3. CASE ~(link[d] = c /\ s2 = s)
        BY <3>1, <4>1, <4>3
      <4> QED  BY <4>2, <4>3
    <3> QED  BY <1>1, <2>1, <3>1, <3>3 DEF PendingIsOpen, Moved, Changed
  <2>2. CASE link'[d] # link[d]
    <3>1. ~e.ended /\ d = At(c, s) /\ link'[d] = c
      BY <2>2 DEF Moved
    <3>2. route'[c] # <<>> /\ end'[c][s] = e
      BY DEF Open, Moved, Changed
    <3> QED  BY <1>1, <3>1, <3>2 DEF PendingIsOpen
  <2> QED  BY <2>1, <2>2
<1> QED  BY <1>2, <1>3, <1>4

\* A step of the protocol, and its failure.
LEMMA UpdateMoves ==
    ASSUME EndTyped, Routed, NEW c \in Connections, NEW s \in Sides, Open(c, s),
           NEW e \in [Flags -> BOOLEAN], ~e.ended,
           NEW read \in BOOLEAN, read => inbox[c][s] # <<>>, NEW out \in Seq(Messages),
           Update(c, s, e, read, out), UNCHANGED clientOnly,
           link' = link \/ link' = [link EXCEPT ![At(c, s)] = c]
    PROVE  Moved(c, s, e, KindsOf(out))
<1>1. Changed(c, s, e, KindsOf(out))
  BY Updates
<1>2. At(c, s) \in Devices
  BY Ends DEF Open
<1>3. /\ link' \in [Devices -> Connections \cup {None}]
      /\ \A d \in Devices : link'[d] = link[d] \/ (d = At(c, s) /\ link'[d] = c)
  <2>1. link \in [Devices -> Connections \cup {None}]
    BY DEF EndTyped
  <2>2. CASE link' = link
    BY <2>1, <2>2
  <2>3. CASE link' = [link EXCEPT ![At(c, s)] = c]
    BY <1>2, <2>1, <2>3
  <2> QED  BY <2>2, <2>3
<1> QED  BY <1>1, <1>3 DEF Moved

Ended(e) == [e EXCEPT !.ended = TRUE]

LEMMA EndedIsTyped ==
    ASSUME NEW e \in [Flags -> BOOLEAN]
    PROVE  /\ Ended(e) \in [Flags -> BOOLEAN] /\ Ended(e).ended
           /\ \A f \in Flags \ {"ended"} : Ended(e)[f] = e[f]
  BY DEF Ended, Flags

LEMMA FailureMoves ==
    ASSUME EndTyped, Routed, NEW c \in Connections, NEW s \in Sides, Open(c, s),
           NEW e \in [Flags -> BOOLEAN],
           NEW read \in BOOLEAN, read => inbox[c][s] # <<>>, NEW out \in Seq(Messages),
           Fails(c, s, e, read, out), UNCHANGED clientOnly
    PROVE  Moved(c, s, Ended(e), KindsOf(out))
<1>1. Changed(c, s, Ended(e), KindsOf(out))
  BY EndedIsTyped, Updates DEF Fails, Ended
<1>2. link' = [link EXCEPT ![At(c, s)] = IF link[At(c, s)] = c THEN None ELSE @]
  BY DEF Fails, LinkCleared
<1>3. At(c, s) \in Devices
  BY Ends DEF Open
<1> QED  BY <1>1, <1>2, <1>3, EndedIsTyped DEF Moved, EndTyped

-----------------------------------------------------------------------------
(* What an end says is true                                                *)

\* What an end that becomes e and sends messages of these kinds says is so.
Says(c, s, e, kinds) ==
    /\ s = "to" => "request" \notin kinds
    /\ s = "to" /\ e.accepted => end[c][s].accepted \/ c \in Agreed'
    /\ end[c][s].localReady => e.localReady
    /\ e.localReady => end[c][s].localReady \/ Stands(At(c, s), Peer(c, s))'
    /\ e.remoteReady => end[c][s].remoteReady \/ end[c][Other(s)].localReady
    /\ kinds \cap ReadyKinds # {} => e.localReady

EndStep(c, s) ==
    /\ Open(c, s)
    /\ \E e \in [Flags -> BOOLEAN] : \E kinds : Moved(c, s, e, kinds) /\ Says(c, s, e, kinds)

StandsOn == \A d, p \in Devices : Stands(d, p) => Stands(d, p)'

LEMMA EndStepKeeps ==
    ASSUME WireInv, AcceptedIsAgreed, Promised,
           NEW c \in Connections, NEW s \in Sides, EndStep(c, s), Agreed \subseteq Agreed', StandsOn
    PROVE  EndTyped' /\ Routed' /\ LinksOpen' /\ AcceptedIsAgreed' /\ Promised'
<1>1. PICK e, kinds :
          /\ e \in [Flags -> BOOLEAN] /\ Moved(c, s, e, kinds) /\ (s = "to" => "request" \notin kinds)
          /\ s = "to" /\ e.accepted => end[c][s].accepted \/ c \in Agreed'
          /\ end[c][s].localReady => e.localReady
          /\ e.localReady => end[c][s].localReady \/ Stands(At(c, s), Peer(c, s))'
          /\ e.remoteReady => end[c][s].remoteReady \/ end[c][Other(s)].localReady
          /\ kinds \cap ReadyKinds # {} => e.localReady
  BY DEF EndStep, Says
<1>2. EndTyped' /\ Routed' /\ LinksOpen'
  BY <1>1, MovedKeepsWire DEF WireInv, EndStep
<1>3. \A c2 \in Connections, s2 \in Sides :
         /\ end'[c2][s2] = IF c2 = c /\ s2 = s THEN e ELSE end[c2][s2]
         /\ Waiting(c2, s2)' \subseteq
                Waiting(c2, s2) \cup (IF c2 = c /\ s2 = Other(s) THEN kinds ELSE {})
  BY <1>1 DEF Moved, Changed
<1>4. \A c2, s2 : At(c2, s2)' = At(c2, s2) /\ Peer(c2, s2)' = Peer(c2, s2)
  BY <1>1 DEF Moved, Changed, At, Peer
<1>5. AcceptedIsAgreed'
  <2> SUFFICES ASSUME NEW c2 \in Connections, end'[c2]["to"].accepted PROVE c2 \in Agreed'
    BY DEF AcceptedIsAgreed
  <2>1. "to" \in Sides
    BY DEF Sides
  <2>2. CASE c2 = c /\ s = "to"
    BY <1>1, <1>3, <2>1, <2>2 DEF AcceptedIsAgreed
  <2>3. CASE ~(c2 = c /\ s = "to")
    BY <1>3, <2>1, <2>3 DEF AcceptedIsAgreed
  <2> QED  BY <2>2, <2>3
<1>6. Promised'
  <2>1. ASSUME NEW c2 \in Connections, NEW s2 \in Sides, end'[c2][s2].localReady
        PROVE  Stands(At(c2, s2), Peer(c2, s2))'
    <3>1. CASE end[c2][s2].localReady
      <4>1. route[c2] # <<>>
        BY <3>1 DEF WireInv, Routed, Fresh
      <4>2. At(c2, s2) \in Devices /\ Peer(c2, s2) \in Devices
        BY <4>1, Ends DEF WireInv
      <4>3. Stands(At(c2, s2), Peer(c2, s2))
        BY <3>1 DEF Promised
      <4> QED  BY <1>4, <4>2, <4>3 DEF StandsOn, Stands, Holds
    <3>2. CASE ~end[c2][s2].localReady
      BY <1>1, <1>3, <2>1, <3>2
    <3> QED  BY <3>1, <3>2
  <2>2. ASSUME NEW c2 \in Connections, NEW s2 \in Sides,
               end'[c2][s2].remoteReady \/ Waiting(c2, s2)' \cap ReadyKinds # {}
        PROVE  end'[c2][Other(s2)].localReady
    <3>1. Other(s2) \in Sides /\ Other(Other(s2)) = s2 /\ Other(s) \in Sides /\ Other(Other(s)) = s
      BY SidesDiffer
    <3>2. end[c2][Other(s2)].localReady => end'[c2][Other(s2)].localReady
      BY <1>1, <1>3, <3>1
    <3>3. CASE end'[c2][s2].remoteReady
      BY <1>1, <1>3, <3>1, <3>2, <3>3 DEF Promised
    <3>4. CASE Waiting(c2, s2) \cap ReadyKinds # {}
      BY <3>2, <3>4 DEF Promised
    <3>5. CASE Waiting(c2, s2)' \cap ReadyKinds # {} /\ Waiting(c2, s2) \cap ReadyKinds = {}
      <4>1. c2 = c /\ s2 = Other(s) /\ kinds \cap ReadyKinds # {}
        BY <1>3, <3>5
      <4> QED  BY <1>1, <1>3, <3>1, <4>1
    <3> QED  BY <2>2, <3>3, <3>4, <3>5
  <2> QED  BY <2>1, <2>2 DEF Promised
<1> QED  BY <1>2, <1>5, <1>6

-----------------------------------------------------------------------------
(* Records, trust and updates                                              *)

\* Nothing new is remembered about the peer, though memory and disk may agree now.
Unwritten(d, p) == {store'[d][p], disk'[d][p]} \subseteq {store[d][p], disk[d][p]}

Writes(d, p, value, saved) ==
    /\ store' = [store EXCEPT ![d][p] = value]
    /\ disk' = IF saved THEN [disk EXCEPT ![d] = store'[d]] ELSE disk

LEMMA Written ==
    ASSUME DeviceTyped, NEW d \in Devices, NEW p \in Devices, NEW value \in Records,
           NEW saved \in BOOLEAN, Writes(d, p, value, saved)
    PROVE  /\ store' \in [Devices -> [Devices -> Records]]
           /\ disk' \in [Devices -> [Devices -> Records]]
           /\ \A x, y \in Devices : ~(x = d /\ y = p) => Unwritten(x, y)
           /\ store'[d][p] = value /\ disk'[d][p] = IF saved THEN value ELSE disk[d][p]
<1>1. /\ store' \in [Devices -> [Devices -> Records]]
      /\ \A x, y \in Devices : store'[x][y] = IF x = d /\ y = p THEN value ELSE store[x][y]
  BY DEF DeviceTyped, Writes
<1>2. /\ disk' \in [Devices -> [Devices -> Records]]
      /\ \A x, y \in Devices :
            disk'[x][y] = IF saved /\ x = d THEN store'[x][y] ELSE disk[x][y]
  BY <1>1 DEF DeviceTyped, Writes
<1>3. ASSUME NEW x \in Devices, NEW y \in Devices, ~(x = d /\ y = p) PROVE Unwritten(x, y)
  BY <1>1, <1>2, <1>3 DEF Unwritten
<1> QED  BY <1>1, <1>2, <1>3

LEMMA WrittenBoth ==
    ASSUME DeviceTyped, NEW d \in Devices, NEW p \in Devices, NEW value \in Records,
           Writes(d, p, value, TRUE)
    PROVE  store'[d][p] = value /\ disk'[d][p] = value
<1>1. store'[d][p] = value /\ disk' = [disk EXCEPT ![d] = store'[d]]
  BY DEF DeviceTyped, Writes
<1> QED  BY <1>1 DEF DeviceTyped

\* Agreements and routes are never taken back.
WantedOn == \A d, p \in Devices : Wanted(d, p) => Wanted(d, p)'

LEMMA WantedStays ==
    ASSUME EndTyped, Agreed \subseteq Agreed', \A c \in Connections : route[c] # <<>> => route'[c] = route[c]
    PROVE  WantedOn
<1> SUFFICES ASSUME NEW d \in Devices, NEW p \in Devices, Wanted(d, p) PROVE Wanted(d, p)'
  BY DEF WantedOn
<1>1. PICK c \in Connections : route[c] = <<d, p>> \/ (route[c] = <<p, d>> /\ c \in Agreed)
  BY DEF Wanted
<1>2. route'[c] = route[c]
  BY <1>1
<1> QED  BY <1>1, <1>2 DEF Wanted

\* The trust of a device is that of its updates, which stay what they are.
LEMMA TrustKept ==
    ASSUME DeviceTyped, TaskGrounded, TrustGrounded, WantedOn, trusted' = trusted, clientOnly' = clientOnly,
           \A d, p \in Devices : Listed(d, p) => Listed(d, p)' \/ (p \notin trusted[d] /\ task'[d] = None),
           \A c \in Connections, s \in Sides : route[c] # <<>> => At(c, s)' = At(c, s),
           LinksOpen, EndTyped,
           \A d \in Devices :
              \/ task'[d] = None
              \/ Grounded(d)'
              \/ /\ task'[d] = task[d] /\ link'[d] \in {link[d], None}
                 /\ \A p \in Devices : <<d, p>> \in withdrawn => <<d, p>> \in withdrawn'
    PROVE  TaskGrounded' /\ TrustGrounded'
<1>1. TrustGrounded'
  <2> SUFFICES ASSUME NEW d \in Devices, NEW p \in trusted[d]
               PROVE  d \notin clientOnly' /\ Listed(d, p)' /\ Wanted(d, p)'
    BY DEF TrustGrounded
  <2>1. p \in Devices
    BY DEF DeviceTyped
  <2> QED  BY <2>1 DEF TrustGrounded, WantedOn
<1>2. TaskGrounded'
  <2> SUFFICES ASSUME NEW d \in Devices, task'[d] # None,
                      task'[d] = task[d] /\ link'[d] \in {link[d], None},
                      \A p \in Devices : <<d, p>> \in withdrawn => <<d, p>> \in withdrawn'
               PROVE  Grounded(d)'
    BY DEF TaskGrounded, Grounded
  <2>1. task[d] # None /\ Grounded(d) /\ task[d].peer \in Devices
    BY DEF TaskGrounded, DeviceTyped, Tasks
  <2>2. task[d].add => Listed(d, task[d].peer)' /\ Wanted(d, task[d].peer)'
    BY <2>1 DEF Grounded, WantedOn
  <2>3. ASSUME task[d].add, link'[d] # None
        PROVE  \E s \in Sides : (At(link[d], s) = d /\ Peer(link[d], s) = task[d].peer)'
    <3>1. PICK c \in Connections : link[d] = c /\ link'[d] = c /\ route[c] # <<>>
      BY <2>3 DEF EndTyped, LinksOpen, PendingIsOpen
    <3>2. PICK s \in Sides : At(c, s) = d /\ Peer(c, s) = task[d].peer
      BY <2>1, <2>3, <3>1 DEF Grounded
    <3>3. At(c, s)' = At(c, s) /\ At(c, Other(s))' = At(c, Other(s))
      BY <3>1, SidesDiffer
    <3>4. At(c, s)' = d /\ Peer(c, s)' = task[d].peer
      BY <3>2, <3>3 DEF Peer
    <3> QED  BY <3>1, <3>4 DEF Peer, At
  <2>4. d \notin clientOnly' /\ (<<d, task[d].peer>> \in withdrawn)'
    BY <2>1 DEF Grounded
  <2>5. task'[d].reply = "ok" => (task'[d].add <=> task'[d].peer \in trusted'[d])
    BY <2>1 DEF Grounded
  <2> QED  BY <2>2, <2>3, <2>4, <2>5 DEF Grounded, Listed, Wanted
<1> QED  BY <1>1, <1>2

\* A record is written that gives up nothing that stands, and forgets at most p.
Recorded(d, p, value) ==
    /\ store' \in [Devices -> [Devices -> Records]]
    /\ disk' \in [Devices -> [Devices -> Records]]
    /\ StandsOn /\ ReadyTold'
    /\ \A x, y \in Devices : Listed(x, y) => Listed(x, y)' \/ (x = d /\ y = p /\ value = "none")

\* One record is written, and what its device tells the peer stands.
LEMMA RecordsKept ==
    ASSUME DeviceTyped, ReadyTold, NEW d \in Devices, NEW p \in Devices, NEW value \in Records,
           NEW saved \in BOOLEAN, Writes(d, p, value, saved),
           trusted' = trusted, clientOnly' = clientOnly, Stands(d, p)', value = "ready" => Stands(p, d),
           \A x, y \in Devices : <<x, y>> \in withdrawn => <<x, y>> \in withdrawn' \/ (x = d /\ y = p)
    PROVE  Recorded(d, p, value)
<1>1. /\ store' \in [Devices -> [Devices -> Records]]
      /\ disk' \in [Devices -> [Devices -> Records]]
      /\ \A x, y \in Devices : ~(x = d /\ y = p) => Unwritten(x, y)
      /\ store'[d][p] = value /\ disk'[d][p] = IF saved THEN value ELSE disk[d][p]
  BY Written
<1>2. StandsOn
  <2> SUFFICES ASSUME NEW x \in Devices, NEW y \in Devices, Stands(x, y), ~(x = d /\ y = p)
               PROVE  Stands(x, y)'
    BY DEF StandsOn
  <2> QED  BY <1>1 DEF Stands, Holds, Unwritten
<1>3. ReadyTold'
  <2> SUFFICES ASSUME NEW x \in Devices, NEW y \in Devices, "ready" \in {store'[x][y], disk'[x][y]}
               PROVE  Stands(y, x)'
    BY DEF ReadyTold
  <2>1. "ready" \in {store[x][y], disk[x][y]} \/ (x = d /\ y = p /\ value = "ready")
    BY <1>1 DEF Unwritten
  <2>2. Stands(y, x)
    BY <2>1 DEF ReadyTold
  <2> QED  BY <1>2, <2>2 DEF StandsOn
<1>4. \A x, y \in Devices : Listed(x, y) => Listed(x, y)' \/ (x = d /\ y = p /\ value = "none")
  BY <1>1 DEF Listed, Unwritten
<1> QED  BY <1>1, <1>2, <1>3, <1>4 DEF Recorded

\* A record is forgotten.
LEMMA NoneKept ==
    ASSUME DeviceTyped, ReadyTold, NEW d \in Devices, NEW p \in Devices, Writes(d, p, "none", TRUE),
           trusted' = trusted, clientOnly' = clientOnly, withdrawn \subseteq withdrawn', Stands(d, p)'
    PROVE  /\ store' \in [Devices -> [Devices -> Records]]
           /\ disk' \in [Devices -> [Devices -> Records]]
           /\ StandsOn /\ ReadyTold'
           /\ \A x, y \in Devices : Listed(x, y) => Listed(x, y)' \/ (x = d /\ y = p)
<1>1. "none" \in Records /\ TRUE \in BOOLEAN /\ "none" # "ready"
  BY DEF Records
<1>2. \A x, y \in Devices : <<x, y>> \in withdrawn => <<x, y>> \in withdrawn' \/ (x = d /\ y = p)
  OBVIOUS
<1>3. Recorded(d, p, "none")
  BY <1>1, <1>2, RecordsKept
<1> QED  BY <1>3 DEF Recorded

\* A binding is complete, and no device is removed meanwhile.
LEMMA ReadyKept ==
    ASSUME DeviceTyped, ReadyTold, NEW d \in Devices, NEW p \in Devices, Writes(d, p, "ready", TRUE),
           trusted' = trusted, clientOnly' = clientOnly, withdrawn' = withdrawn,
           Stands(d, p)', Stands(p, d)
    PROVE  /\ store' \in [Devices -> [Devices -> Records]]
           /\ disk' \in [Devices -> [Devices -> Records]]
           /\ StandsOn /\ ReadyTold'
           /\ \A x, y \in Devices : Listed(x, y) => Listed(x, y)'
<1>1. "ready" \in Records /\ TRUE \in BOOLEAN /\ "ready" # "none"
  BY DEF Records
<1>2. \A x, y \in Devices : <<x, y>> \in withdrawn => <<x, y>> \in withdrawn' \/ (x = d /\ y = p)
  OBVIOUS
<1>3. Recorded(d, p, "ready")
  BY <1>1, <1>2, RecordsKept
<1> QED  BY <1>1, <1>3 DEF Recorded

\* No record is written.
LEMMA QuietKept ==
    ASSUME ReadyTold, UNCHANGED peerVars, trusted' = trusted, clientOnly' = clientOnly,
           withdrawn \subseteq withdrawn'
    PROVE  /\ StandsOn /\ ReadyTold'
           /\ \A x, y \in Devices : Listed(x, y) => Listed(x, y)'
<1>1. StandsOn
  BY DEF StandsOn, Stands, Holds, peerVars
<1> QED  BY <1>1 DEF StandsOn, ReadyTold, Listed, peerVars

\* No connection moves.
LEMMA StillEnds ==
    ASSUME WireInv, AcceptedIsAgreed, Promised, UNCHANGED <<endVars, link, clientOnly>>,
           Agreed \subseteq Agreed', StandsOn
    PROVE  EndTyped' /\ Routed' /\ LinksOpen' /\ AcceptedIsAgreed' /\ Promised'
<1> USE DEF endVars
<1>1. \A c2, s2 : At(c2, s2)' = At(c2, s2) /\ Peer(c2, s2)' = Peer(c2, s2)
  BY DEF At, Peer
<1>2. EndTyped'
  BY DEF WireInv, EndTyped
<1>3. Routed'
  BY <1>1 DEF WireInv, Routed, Waiting
<1>4. LinksOpen'
  BY <1>1 DEF WireInv, LinksOpen, PendingIsOpen, At
<1>5. AcceptedIsAgreed'
  BY DEF AcceptedIsAgreed
<1>6. Promised'
  <2> SUFFICES ASSUME NEW c \in Connections, NEW s \in Sides, end[c][s].localReady
               PROVE  Stands(At(c, s), Peer(c, s))'
    BY DEF Promised, Waiting
  <2>1. route[c] # <<>>
    BY DEF WireInv, Routed, Fresh
  <2>2. At(c, s) \in Devices /\ Peer(c, s) \in Devices
    BY <2>1, Ends DEF WireInv
  <2>3. Stands(At(c, s), Peer(c, s))
    BY DEF Promised
  <2> QED  BY <1>1, <2>2, <2>3 DEF StandsOn, Stands, Holds
<1> QED  BY <1>2, <1>3, <1>4, <1>5, <1>6

\* No invitation is made or used.
LEMMA InvitesKept ==
    ASSUME InvitesIssued, DeviceTyped, invited' = invited, issued' = issued,
           \A c \in Connections : route[c] # <<>> => route'[c] = route[c],
           \A d \in Devices : invite'[d] \in {invite[d], 0}
    PROVE  InvitesIssued'
<1>1. \A c \in invited : c \in Connections /\ route[c] # <<>>
  BY DEF InvitesIssued, DeviceTyped, UsersTyped
<1>2. \A c \in invited : At(c, "to")' = At(c, "to") /\ route'[c] # <<>>
  BY <1>1 DEF At
<1>3. ASSUME NEW d \in Devices
      PROVE  Cardinality({c \in invited' : At(c, "to")' = d}) + (IF invite'[d] # 0 THEN 1 ELSE 0)
                <= issued'[d]
  <2> DEFINE used == {c \in invited : At(c, "to") = d}
  <2>1. {c \in invited' : At(c, "to")' = d} = used
    BY <1>2
  <2>2. Cardinality(used) + (IF invite[d] # 0 THEN 1 ELSE 0) <= issued[d]
    BY DEF InvitesIssued
  <2>3. IsFiniteSet(used)
    BY FS_Subset DEF InvitesIssued
  <2>4. Cardinality(used) \in Nat /\ issued[d] \in Nat
    BY <2>3, FS_CardinalityType, BindingConstants DEF DeviceTyped, UsersTyped, BindingConstants
  <2> HIDE DEF used
  <2>5. Cardinality(used) + (IF invite'[d] # 0 THEN 1 ELSE 0) <= issued[d]
    BY <2>2, <2>4
  <2> QED  BY <2>1, <2>5
<1> QED  BY <1>2, <1>3 DEF InvitesIssued

\* The end of a connection that a device keeps.
LEMMA LinkEnd ==
    ASSUME WireInv, NEW d \in Devices, link[d] # None,
           NEW s, s = IF At(link[d], "to") = d THEN "to" ELSE "from"
    PROVE  s \in Sides /\ link[d] \in Connections /\ Open(link[d], s) /\ At(link[d], s) = d
<1>1. link[d] \in Connections
  BY DEF WireInv, EndTyped
<1>2. PICK s2 \in Sides : route[link[d]] # <<>> /\ At(link[d], s2) = d /\ ~end[link[d]][s2].ended
  BY DEF WireInv, LinksOpen, PendingIsOpen
<1>3. s2 = s /\ s \in Sides
  BY <1>1, <1>2, Ends DEF Sides, WireInv
<1> QED  BY <1>1, <1>2, <1>3 DEF Open

\* The parts of the invariant, put together again.
LEMMA MovesOn ==
    ASSUME BindingInv, DeviceTyped', StandsOn, ReadyTold', TaskGrounded', TrustGrounded',
           InvitesIssued', Agreed \subseteq Agreed',
           \/ \E c \in Connections, s \in Sides : EndStep(c, s)
           \/ UNCHANGED <<endVars, link, clientOnly>>
    PROVE  BindingInv'
<1>1. EndTyped' /\ Routed' /\ LinksOpen' /\ AcceptedIsAgreed' /\ Promised'
  BY EndStepKeeps, StillEnds DEF BindingInv, GrantInv
<1> QED  BY <1>1 DEF BindingInv, WireInv, GrantInv

LEMMA FailureSteps ==
    ASSUME BindingInv, NEW c \in Connections, NEW s \in Sides, Open(c, s),
           NEW e \in [Flags -> BOOLEAN],
           NEW read \in BOOLEAN, read => inbox[c][s] # <<>>, NEW out \in Seq(Messages),
           Fails(c, s, e, read, out), UNCHANGED clientOnly, Says(c, s, e, KindsOf(out))
    PROVE  EndStep(c, s) /\ route' = route /\ \A d \in Devices : link'[d] \in {link[d], None}
<1>1. Moved(c, s, Ended(e), KindsOf(out))
  BY FailureMoves DEF BindingInv, WireInv
<1>2. /\ Ended(e) \in [Flags -> BOOLEAN] /\ Ended(e).ended
      /\ Ended(e).accepted = e.accepted /\ Ended(e).localReady = e.localReady
      /\ Ended(e).remoteReady = e.remoteReady
  BY EndedIsTyped DEF Flags
<1>3. Says(c, s, Ended(e), KindsOf(out))
  BY <1>2 DEF Says
<1>4. EndStep(c, s)
  BY <1>1, <1>2, <1>3 DEF EndStep
<1> QED  BY <1>1, <1>2, <1>4 DEF Moved, Changed

LEMMA UpdateSteps ==
    ASSUME BindingInv, NEW c \in Connections, NEW s \in Sides, Open(c, s),
           NEW e \in [Flags -> BOOLEAN], ~e.ended,
           NEW read \in BOOLEAN, read => inbox[c][s] # <<>>, NEW out \in Seq(Messages),
           Update(c, s, e, read, out), UNCHANGED clientOnly, Says(c, s, e, KindsOf(out)),
           link' = link \/ link' = [link EXCEPT ![At(c, s)] = c]
    PROVE  EndStep(c, s) /\ route' = route
<1>1. Moved(c, s, e, KindsOf(out))
  BY UpdateMoves DEF BindingInv, WireInv
<1> QED  BY <1>1 DEF EndStep, Moved, Changed

\* An end reads a message and answers nothing.
LEMMA ReadSteps ==
    ASSUME BindingInv, NEW c \in Connections, NEW s \in Sides, Open(c, s), inbox[c][s] # <<>>,
           NEW e \in [Flags -> BOOLEAN], ~e.ended,
           Update(c, s, e, TRUE, <<>>), UNCHANGED <<clientOnly, link>>, Says(c, s, e, {})
    PROVE  EndStep(c, s) /\ route' = route
<1>1. <<>> \in Seq(Messages) /\ Says(c, s, e, KindsOf(<<>>)) /\ TRUE \in BOOLEAN
  BY NoNotice
<1> QED  BY <1>1, UpdateSteps

\* No trust update begins, ends or is answered.
LEMMA TrustStays ==
    ASSUME BindingInv, task' = task, trusted' = trusted, clientOnly' = clientOnly,
           Agreed \subseteq Agreed', \A c \in Connections : route[c] # <<>> => route'[c] = route[c],
           \A d \in Devices : task[d] = None \/ link'[d] \in {link[d], None},
           withdrawn \subseteq withdrawn',
           \A x, y \in Devices :
              Listed(x, y) => Listed(x, y)' \/ (y \notin trusted[x] /\ task[x] = None)
    PROVE  TaskGrounded' /\ TrustGrounded'
<1>1. WantedOn
  BY WantedStays DEF BindingInv, WireInv
<1>2. \A c \in Connections, s \in Sides : route[c] # <<>> => At(c, s)' = At(c, s)
  BY DEF At
<1>3. DeviceTyped /\ TaskGrounded /\ TrustGrounded /\ LinksOpen /\ EndTyped
  BY DEF BindingInv, WireInv, GrantInv
<1>4. \A d \in Devices :
         \/ task'[d] = None
         \/ Grounded(d)'
         \/ /\ task'[d] = task[d] /\ link'[d] \in {link[d], None}
            /\ \A p \in Devices : <<d, p>> \in withdrawn => <<d, p>> \in withdrawn'
  OBVIOUS
<1> QED  BY <1>1, <1>2, <1>3, <1>4, TrustKept

\* A step of the protocol at one end that leaves records and trust alone.
LEMMA EndOnly ==
    ASSUME BindingInv, NEW c \in Connections, NEW s \in Sides, EndStep(c, s), route' = route,
           UNCHANGED <<peerVars, trustVars, inviteVars, withdrawn, lifeVars>>,
           UsersTyped', approved \subseteq approved',
           \A d \in Devices : task[d] = None \/ link'[d] \in {link[d], None}
    PROVE  BindingInv'
<1> USE DEF peerVars, trustVars, inviteVars, lifeVars
<1>1. DeviceTyped'
  BY DEF BindingInv, WireInv, DeviceTyped
<1>2. StandsOn /\ ReadyTold' /\ \A x, y \in Devices : Listed(x, y) => Listed(x, y)'
  BY QuietKept DEF BindingInv
<1>3. Agreed \subseteq Agreed'
  BY DEF Agreed
<1>4. TaskGrounded' /\ TrustGrounded'
  BY <1>2, <1>3, TrustStays
<1>5. \A d \in Devices : invite'[d] \in {invite[d], 0}
  OBVIOUS
<1>6. InvitesIssued'
  BY <1>5, InvitesKept DEF BindingInv, WireInv, GrantInv
<1> QED  BY <1>1, <1>2, <1>3, <1>4, <1>6, MovesOn

-----------------------------------------------------------------------------
(* The parts that actions share                                            *)

\* What an end is, and that its flags can be set.
LEMMA EndIs ==
    ASSUME EndTyped, NEW c \in Connections, NEW s \in Sides
    PROVE  /\ end[c][s] \in [Flags -> BOOLEAN] /\ inbox[c][s] \in Seq(Messages)
           /\ \A f \in Flags : [end[c][s] EXCEPT ![f] = TRUE] \in [Flags -> BOOLEAN]
  BY DEF EndTyped

\* fail() of an end as it is.
LEMMA FailureKeeps ==
    ASSUME BindingInv, NEW c \in Connections, NEW s \in Sides, Open(c, s),
           NEW read \in BOOLEAN, read => inbox[c][s] # <<>>, NEW out \in Seq(Messages),
           KindsOf(out) \subseteq {"reject"},
           Fails(c, s, end[c][s], read, out),
           UNCHANGED <<peerVars, trustVars, inviteVars, withdrawn, lifeVars>>,
           UsersTyped', approved \subseteq approved'
    PROVE  BindingInv'
<1>1. end[c][s] \in [Flags -> BOOLEAN]
  BY EndIs DEF BindingInv, WireInv
<1>2. Says(c, s, end[c][s], KindsOf(out))
  BY DEF Says, ReadyKinds
<1>3. EndStep(c, s) /\ route' = route /\ \A d \in Devices : link'[d] \in {link[d], None}
  BY <1>1, <1>2, FailureSteps DEF lifeVars
<1> QED  BY <1>3, EndOnly

LEMMA FinishSteps ==
    ASSUME BindingInv, NEW c \in Connections, NEW s \in Sides, Open(c, s),
           NEW e \in [Flags -> BOOLEAN], ~e.ended, e.localReady = end[c][s].localReady,
           NEW read \in BOOLEAN, read => inbox[c][s] # <<>>, NEW out \in Seq(Messages),
           Says(c, s, e, KindsOf(out)), Finish(c, s, e, read, out),
           UNCHANGED <<trustVars, inviteVars, userVars, withdrawn, lifeVars>>
    PROVE  BindingInv'
<1> USE DEF trustVars, inviteVars, userVars, lifeVars
<1> DEFINE said == IF ForViewer(c) /\ s = "to" THEN out \o Msg("bound") ELSE out
<1>1. UsersTyped' /\ approved \subseteq approved' /\ Agreed \subseteq Agreed'
  BY DEF BindingInv, WireInv, DeviceTyped, UsersTyped, Agreed
<1>2. CASE UNCHANGED peerVars /\ Update(c, s, e, read, out) /\ UNCHANGED link
  <2>1. EndStep(c, s) /\ route' = route
    BY <1>2, UpdateSteps
  <2> QED  BY <1>1, <1>2, <2>1, EndOnly
<1>3. CASE UNCHANGED peerVars /\ Fails(c, s, e, read, out)
  <2>1. EndStep(c, s) /\ route' = route /\ \A x \in Devices : link'[x] \in {link[x], None}
    BY <1>3, FailureSteps
  <2> QED  BY <1>1, <1>3, <2>1, EndOnly
<1>4. CASE /\ Complete(c, e) /\ Remember(At(c, s), Peer(c, s), "ready") /\ SaveAll(At(c, s))
           /\ Fails(c, s, e, read, said)
  <2>1. PICK d \in Devices, p \in Devices :
           /\ d = At(c, s) /\ p = Peer(c, s)
           /\ Peer(c, Other(s)) = d /\ At(c, Other(s)) = p
    BY Ends, SidesDiffer DEF BindingInv, WireInv, Open, Peer
  <2>2. end[c][s].localReady /\ end[c][Other(s)].localReady
    BY <1>4, SidesDiffer DEF Complete, Says, BindingInv, Promised
  <2>3. Stands(d, p) /\ Stands(p, d)
    BY <2>1, <2>2, SidesDiffer DEF BindingInv, Promised
  <2>4. Writes(d, p, "ready", TRUE)
    BY <1>4, <2>1 DEF Writes, Remember, SaveAll
  <2>5. DeviceTyped /\ ReadyTold /\ "ready" \in Records
    BY DEF BindingInv, WireInv, Records
  <2>6. Stands(d, p)'
    <3>1. store'[d][p] = "ready" /\ disk'[d][p] = "ready"
      BY <2>1, <2>4, <2>5, WrittenBoth
    <3>2. CASE <<d, p>> \in withdrawn
      BY <3>2 DEF Stands
    <3>3. CASE Holds(d, p)
      BY <3>1, <3>3 DEF Stands, Holds
    <3> QED  BY <2>3, <3>2, <3>3 DEF Stands
  <2>7. /\ store' \in [Devices -> [Devices -> Records]]
        /\ disk' \in [Devices -> [Devices -> Records]]
        /\ StandsOn /\ ReadyTold'
        /\ \A x, y \in Devices : Listed(x, y) => Listed(x, y)'
    <3>1. trusted' = trusted /\ clientOnly' = clientOnly /\ withdrawn' = withdrawn
      OBVIOUS
    <3> QED  BY <2>3, <2>4, <2>5, <2>6, <3>1, ReadyKept
  <2>8. said \in Seq(Messages) /\ KindsOf(said) \subseteq KindsOf(out) \cup {"bound"}
    BY Queues, Notices DEF Kinds
  <2>9. Says(c, s, e, KindsOf(said))
    BY <1>4, <2>8 DEF Says, Complete
  <2> HIDE DEF said
  <2>10. EndStep(c, s) /\ route' = route /\ \A x \in Devices : link'[x] \in {link[x], None}
    BY <1>4, <2>8, <2>9, FailureSteps
  <2>11. DeviceTyped'
    BY <1>1, <2>5, <2>7 DEF DeviceTyped
  <2>12. TaskGrounded' /\ TrustGrounded'
    BY <1>1, <2>7, <2>10, TrustStays
  <2>13. InvitesIssued'
    BY <2>5, <2>10, InvitesKept DEF BindingInv, GrantInv
  <2> QED  BY <1>1, <2>7, <2>10, <2>11, <2>12, <2>13, MovesOn
<1> QED  BY <1>2, <1>3, <1>4 DEF Finish

LEMMA LinkLostKeeps ==
    ASSUME BindingInv, NEW c \in Connections, NEW s \in Sides, LinkLost(c, s)
    PROVE  BindingInv'
<1>1. UsersTyped' /\ approved \subseteq approved'
  BY DEF LinkLost, BindingInv, WireInv, DeviceTyped, UsersTyped, inviteVars, userVars, lifeVars
<1> QED  BY <1>1, FailureKeeps, NoNotice DEF LinkLost

LEMMA HostReadyKeeps ==
    ASSUME BindingInv, NEW c \in Connections, NEW s \in Sides, HostReady(c, s)
    PROVE  BindingInv'
<1> DEFINE e == [end[c][s] EXCEPT !.hostReadySent = TRUE]
<1>1. end[c][s] \in [Flags -> BOOLEAN]
  BY EndIs DEF BindingInv, WireInv
<1>2. /\ e \in [Flags -> BOOLEAN] /\ e.localReady = end[c][s].localReady
      /\ e.remoteReady = end[c][s].remoteReady /\ e.accepted = end[c][s].accepted
      /\ e.ended = end[c][s].ended
  BY <1>1 DEF Flags
<1>3. Open(c, s) /\ end[c][s].localReady /\ Finish(c, s, e, FALSE, Msg("ready"))
  BY DEF HostReady
<1> HIDE DEF e
<1>4. Msg("ready") \in Seq(Messages) /\ KindsOf(Msg("ready")) = {"ready"}
  BY Notices DEF Kinds
<1>5. Says(c, s, e, {"ready"})
  BY <1>2, <1>3 DEF Says
<1> QED  BY <1>2, <1>3, <1>4, <1>5, FinishSteps DEF HostReady, Open

LEMMA GrantSteps ==
    ASSUME BindingInv, NEW c \in Connections, NEW s \in Sides, Open(c, s), At(c, s) \notin clientOnly,
           NEW e \in [Flags -> BOOLEAN], ~e.ended,
           e.localReady = end[c][s].localReady, e.remoteReady = end[c][s].remoteReady,
           NEW read \in BOOLEAN, read => inbox[c][s] # <<>>, NEW out \in Seq(Messages),
           KindsOf(out) \subseteq {"pending", "accept"}, Grant(c, s, e, read, out),
           s = "to" => c \in Agreed', Agreed \subseteq Agreed', UsersTyped', InvitesIssued',
           UNCHANGED lifeVars
    PROVE  BindingInv'
<1> USE DEF lifeVars
<1>1. PICK d \in Devices, p \in Devices : d = At(c, s) /\ p = Peer(c, s)
  BY Ends DEF BindingInv, WireInv, Open
<1>2. PICK saved \in BOOLEAN :
         /\ Remember(d, p, "saved")
         /\ withdrawn' = withdrawn \cup {<<d, p>>}
         /\ IF saved
            THEN /\ SavedFirst(d)
                 /\ task' = [task EXCEPT ![d] = Asked(TRUE, p)]
                 /\ link' = [link EXCEPT ![d] = c]
                 /\ Update(c, s, e, read, out)
            ELSE /\ UNCHANGED <<disk, task>>
                 /\ Fails(c, s, e, read, out)
         /\ UNCHANGED trusted
  BY <1>1 DEF Grant, Saves
<1>3. Writes(d, p, "saved", saved)
  BY <1>2 DEF Writes, Remember, SavedFirst, SaveAll
<1>4. DeviceTyped /\ ReadyTold /\ "saved" \in Records
  BY DEF BindingInv, WireInv, Records
<1>5. Stands(d, p)'
  BY <1>2 DEF Stands
<1>6. \A x, y \in Devices : <<x, y>> \in withdrawn => <<x, y>> \in withdrawn'
  BY <1>2
<1>7. trusted' = trusted /\ clientOnly' = clientOnly
  BY <1>2
<1>8. /\ store' \in [Devices -> [Devices -> Records]]
      /\ disk' \in [Devices -> [Devices -> Records]]
      /\ StandsOn /\ ReadyTold'
      /\ \A x, y \in Devices : Listed(x, y) => Listed(x, y)'
  <2>1. Recorded(d, p, "saved")
    BY <1>3, <1>4, <1>5, <1>6, <1>7, RecordsKept
  <2> QED  BY <2>1 DEF Recorded
<1>9. Says(c, s, e, KindsOf(out))
  BY DEF Says, ReadyKinds
<1>10. EndStep(c, s) /\ route' = route
  <2>1. CASE saved
    BY <1>1, <1>2, <1>9, <2>1, UpdateSteps
  <2>2. CASE ~saved
    BY <1>2, <1>9, <2>2, FailureSteps
  <2> QED  BY <2>1, <2>2
<1>11. task' \in [Devices -> Tasks \cup {None}] /\ withdrawn' \subseteq Devices \X Devices
  <2>1. Asked(TRUE, p) \in Tasks
    BY DEF Asked, Tasks
  <2>2. task' = task \/ task' = [task EXCEPT ![d] = Asked(TRUE, p)]
    BY <1>2
  <2>3. task' \in [Devices -> Tasks \cup {None}]
    BY <1>4, <2>1, <2>2 DEF DeviceTyped
  <2> QED  BY <1>2, <1>4, <2>3 DEF DeviceTyped
<1>12. DeviceTyped'
  BY <1>4, <1>7, <1>8, <1>11 DEF DeviceTyped
<1>13. TaskGrounded' /\ TrustGrounded'
  <2>1. CASE ~saved
    <3>1. \A x \in Devices : link'[x] \in {link[x], None}
      BY <1>2, <1>9, <2>1, FailureSteps
    <3> QED  BY <1>2, <1>6, <1>7, <1>8, <1>10, <2>1, <3>1, TrustStays
  <2>2. CASE saved
    <3>1. WantedOn
      BY <1>10, WantedStays DEF BindingInv, WireInv
    <3>2. \A c2, s2 : At(c2, s2)' = At(c2, s2) /\ Peer(c2, s2)' = Peer(c2, s2)
      BY <1>10 DEF At, Peer
    <3>3. link'[d] = c /\ task'[d] = Asked(TRUE, p)
      BY <1>2, <1>4, <2>2 DEF DeviceTyped, BindingInv, WireInv, EndTyped
    <3>4. Wanted(d, p)'
      <4>1. route[c] = <<At(c, "from"), At(c, "to")>>
        BY Ends DEF BindingInv, WireInv, Open
      <4>2. route'[c] = <<d, p>> \/ (route'[c] = <<p, d>> /\ s = "to")
        BY <1>1, <1>10, <4>1 DEF Sides, Peer, Other
      <4> QED  BY <4>2 DEF Wanted
    <3>5. store'[d][p] = "saved" /\ disk'[d][p] = "saved"
      <4>1. store'[d][p] = "saved" /\ disk'[d][p] = IF saved THEN "saved" ELSE disk[d][p]
        BY <1>3, <1>4, Written
      <4> QED  BY <2>2, <4>1
    <3>6. Grounded(d)'
      <4>1. /\ task'[d].add /\ task'[d].peer = p /\ task'[d].reply = "none"
        BY <3>3 DEF Asked
      <4>2. At(link[d], s)' = d /\ Peer(link[d], s)' = p
        <5>1. At(c, s)' = d /\ Peer(c, s)' = p
          BY <1>1, <3>2
        <5> QED  BY <3>3, <5>1 DEF At, Peer
      <4>3. <<d, p>> \in withdrawn' /\ d \notin clientOnly'
        BY <1>1, <1>2
      <4>4. Listed(d, p)'
        BY <3>5 DEF Listed
      <4> QED  BY <3>4, <4>1, <4>2, <4>3, <4>4 DEF Grounded, Listed, Wanted
    <3>7. \A x \in Devices : x # d => task'[x] = task[x] /\ link'[x] = link[x]
      BY <1>2, <1>4, <2>2 DEF DeviceTyped, BindingInv, WireInv, EndTyped
    <3>8. \A c2 \in Connections, s2 \in Sides : route[c2] # <<>> => At(c2, s2)' = At(c2, s2)
      BY <3>2
    <3>9. \A x \in Devices :
            \/ task'[x] = None
            \/ Grounded(x)'
            \/ /\ task'[x] = task[x] /\ link'[x] \in {link[x], None}
               /\ \A y \in Devices : <<x, y>> \in withdrawn => <<x, y>> \in withdrawn'
      BY <1>6, <3>6, <3>7
    <3> QED  BY <1>4, <1>7, <1>8, <3>1, <3>8, <3>9, TrustKept DEF BindingInv, WireInv, GrantInv
  <2> QED  BY <2>1, <2>2
<1> QED  BY <1>8, <1>10, <1>12, <1>13, MovesOn

-----------------------------------------------------------------------------
(* Messages                                                                *)

\* An invitation that is used was valid, and no longer is.
LEMMA InviteUsed ==
    ASSUME EndTyped, Routed, DeviceTyped, InvitesIssued, NEW c \in Connections, route[c] # <<>>,
           invite[At(c, "to")] # 0, InviteConsumed(At(c, "to")), invited' = invited \cup {c},
           issued' = issued, route' = route
    PROVE  InvitesIssued'
<1>1. PICK d \in Devices : d = At(c, "to")
  BY Ends DEF Sides
<1>2. \A x : At(x, "to")' = At(x, "to")
  BY DEF At
<1>3. invite' = [invite EXCEPT ![d] = 0] /\ invite \in [Devices -> 0..MaxInvites] /\ invite[d] # 0
  BY <1>1 DEF InviteConsumed, DeviceTyped, UsersTyped
<1>4. IsFiniteSet(invited') /\ \A x \in invited' : route'[x] # <<>>
  BY FS_AddElement DEF InvitesIssued
<1>5. ASSUME NEW x \in Devices
      PROVE  Cardinality({y \in invited' : At(y, "to")' = x}) + (IF invite'[x] # 0 THEN 1 ELSE 0)
                <= issued'[x]
  <2> DEFINE used == {y \in invited : At(y, "to") = x}
  <2>1. Cardinality(used) + (IF invite[x] # 0 THEN 1 ELSE 0) <= issued[x]
    BY DEF InvitesIssued
  <2>2. IsFiniteSet(used)
    BY FS_Subset DEF InvitesIssued
  <2>3. Cardinality(used) \in Nat /\ issued[x] \in Nat
    BY <2>2, FS_CardinalityType, BindingConstants DEF DeviceTyped, UsersTyped, BindingConstants
  <2>4. {y \in invited' : At(y, "to")' = x} = IF x = d THEN used \cup {c} ELSE used
    BY <1>1, <1>2
  <2> HIDE DEF used
  <2>5. \/ Cardinality(used \cup {c}) = Cardinality(used)
        \/ Cardinality(used \cup {c}) = Cardinality(used) + 1
    BY <2>2, FS_AddElement
  <2>6. CASE x = d
    <3>1. invite[x] # 0 /\ invite'[x] = 0
      BY <1>3, <2>6
    <3>2. {y \in invited' : At(y, "to")' = x} = used \cup {c}
      BY <2>4, <2>6
    <3>3. Cardinality(used \cup {c}) <= issued[x]
      BY <2>1, <2>3, <2>5, <3>1
    <3>4. Cardinality(used \cup {c}) + 0 <= issued[x]
      BY <2>3, <2>5, <3>3
    <3> QED  BY <3>1, <3>2, <3>4
  <2>7. CASE x # d
    BY <1>3, <2>1, <2>4, <2>7
  <2> QED  BY <2>6, <2>7
<1> QED  BY <1>4, <1>5 DEF InvitesIssued

\* The message that an end reads.
LEMMA HeadIs ==
    ASSUME BindingInv, NEW c \in Connections, NEW s \in Sides, inbox[c][s] # <<>>
    PROVE  /\ Head(inbox[c][s]) \in Messages
           /\ Head(inbox[c][s]).kind \in ReadyKinds => end[c][Other(s)].localReady
           /\ Head(inbox[c][s]).kind = "request" => s = "to"
<1>1. inbox[c][s] \in Seq(Messages)
  BY EndIs DEF BindingInv, WireInv
<1>2. Head(inbox[c][s]) \in Messages /\ Head(inbox[c][s]).kind \in Waiting(c, s)
  BY <1>1, Queues DEF Waiting
<1>3. "request" \notin Waiting(c, "from")
  BY DEF BindingInv, WireInv, Routed
<1>4. Waiting(c, s) \cap ReadyKinds # {} => end[c][Other(s)].localReady
  BY DEF BindingInv, Promised
<1> QED  BY <1>2, <1>3, <1>4 DEF Sides

\* What an action leaves to the users.
LEMMA UsersStay ==
    ASSUME BindingInv, UNCHANGED <<issued, userVars, lifeVars>>,
           \/ UNCHANGED <<invite, invited>>
           \/ \E d \in Devices, c \in Connections : InviteConsumed(d) /\ invited' = invited \cup {c}
    PROVE  UsersTyped' /\ approved \subseteq approved' /\ Agreed \subseteq Agreed'
<1>1. UsersTyped
  BY DEF BindingInv, WireInv, DeviceTyped
<1>2. invite' \in [Devices -> 0..MaxInvites] /\ invited \subseteq invited' /\ invited' \subseteq Connections
  <2>1. 0 \in 0..MaxInvites
    BY BindingConstants DEF BindingConstants
  <2>2. CASE UNCHANGED <<invite, invited>>
    BY <1>1, <2>2 DEF UsersTyped
  <2>3. CASE \E d \in Devices, c \in Connections : InviteConsumed(d) /\ invited' = invited \cup {c}
    BY <1>1, <2>1, <2>3 DEF UsersTyped, InviteConsumed
  <2> QED  BY <2>2, <2>3
<1> QED  BY <1>1, <1>2 DEF UsersTyped, Agreed, userVars, lifeVars

LEMMA RequestArrives ==
    ASSUME BindingInv, NEW c \in Connections, Open(c, "to"), inbox[c]["to"] # <<>>,
           NEW token, ReceiveRequest(c, token), UNCHANGED <<userVars, lifeVars>>
    PROVE  BindingInv'
<1>1. PICK d \in Devices : d = At(c, "to") /\ d \notin clientOnly
  BY Ends DEF BindingInv, WireInv, Open, Sides
<1>2. "to" \in Sides
  BY DEF Sides
<1> DEFINE old == end[c]["to"]
           e == [old EXCEPT !.requested = TRUE]
           a == [e EXCEPT !.accepted = TRUE]
<1>3. old \in [Flags -> BOOLEAN] /\ ~old.ended
  BY <1>2, EndIs DEF BindingInv, WireInv, Open
<1>4. /\ e \in [Flags -> BOOLEAN] /\ ~e.ended /\ e.accepted = old.accepted
      /\ e.localReady = old.localReady /\ e.remoteReady = old.remoteReady
      /\ a \in [Flags -> BOOLEAN] /\ ~a.ended
      /\ a.localReady = old.localReady /\ a.remoteReady = old.remoteReady
  BY <1>3 DEF Flags
<1>5. CASE /\ Fails(c, "to", old, TRUE, <<>>)
           /\ UNCHANGED <<peerVars, trustVars, inviteVars, withdrawn>>
  BY <1>2, <1>5, UsersStay, NoNotice, FailureKeeps DEF inviteVars
<1>6. CASE /\ ~busy(d) /\ UNCHANGED issued /\ token # 0 /\ token = invite[d]
           /\ InviteConsumed(d)
           /\ invited' = invited \cup {c}
           /\ Grant(c, "to", a, TRUE, Msg("pending") \o Msg("accept"))
  <2>1. /\ Msg("pending") \o Msg("accept") \in Seq(Messages)
        /\ KindsOf(Msg("pending") \o Msg("accept")) \subseteq {"pending", "accept"}
    <3>1. /\ Msg("pending") \in Seq(Messages) /\ KindsOf(Msg("pending")) = {"pending"}
          /\ Msg("accept") \in Seq(Messages) /\ KindsOf(Msg("accept")) = {"accept"}
      BY Notices DEF Kinds
    <3>2. /\ Msg("pending") \o Msg("accept") \in Seq(Messages)
          /\ KindsOf(Msg("pending") \o Msg("accept")) \subseteq KindsOf(Msg("pending")) \cup KindsOf(Msg("accept"))
      BY <3>1, Queues
    <3> QED  BY <3>1, <3>2
  <2>2. UsersTyped' /\ Agreed \subseteq Agreed' /\ c \in Agreed'
    BY <1>6, UsersStay DEF Agreed
  <2>3. route' = route
    BY <1>6 DEF Grant, Update, Fails
  <2>4. InvitesIssued'
    BY <1>1, <1>6, <2>3, InviteUsed DEF BindingInv, WireInv, GrantInv, Open
  <2> HIDE DEF a, e, old
  <2> QED  BY <1>1, <1>2, <1>4, <1>6, <2>1, <2>2, <2>4, GrantSteps DEF old
<1>7. CASE /\ ~busy(d) /\ UNCHANGED issued
           /\ Update(c, "to", e, TRUE, Msg("pending"))
           /\ link' = [link EXCEPT ![d] = c]
           /\ UNCHANGED <<peerVars, trustVars, invite, invited, withdrawn>>
  <2>1. Msg("pending") \in Seq(Messages) /\ KindsOf(Msg("pending")) = {"pending"}
    BY Notices DEF Kinds
  <2>2. UsersTyped' /\ approved \subseteq approved'
    BY <1>7, UsersStay
  <2>3. Says(c, "to", e, {"pending"})
    BY <1>4 DEF Says, ReadyKinds
  <2> HIDE DEF e, a, old
  <2>4. EndStep(c, "to") /\ route' = route
    BY <1>1, <1>2, <1>4, <1>7, <2>1, <2>3, UpdateSteps DEF lifeVars
  <2>5. \A x \in Devices : task[x] = None \/ link'[x] \in {link[x], None}
    <3>1. task[d] = None
      BY <1>7 DEF busy
    <3> QED  BY <1>7, <3>1 DEF BindingInv, WireInv, EndTyped
  <2> QED  BY <1>2, <1>7, <2>2, <2>4, <2>5, EndOnly DEF inviteVars
<1> QED  BY <1>1, <1>5, <1>6, <1>7 DEF ReceiveRequest

LEMMA ViewerSavesKeeps ==
    ASSUME BindingInv, NEW c \in Connections, Open(c, "from"), inbox[c]["from"] # <<>>, ForViewer(c),
           Head(inbox[c]["from"]).kind = "ready", ViewerSaves(c, end[c]["from"]),
           UNCHANGED <<trustVars, inviteVars, userVars, lifeVars>>
    PROVE  BindingInv'
<1> USE DEF trustVars, inviteVars, userVars, lifeVars
<1>1. "from" \in Sides /\ Other("from") = "to"
  BY DEF Sides, Other
<1>2. PICK d \in Devices, p \in Devices : d = At(c, "from") /\ p = Peer(c, "from") /\ d \in clientOnly
  BY <1>1, Ends DEF BindingInv, WireInv, Open
<1> DEFINE old == end[c]["from"]
           e == [old EXCEPT !.localReady = TRUE, !.remoteReady = TRUE]
<1>3. old \in [Flags -> BOOLEAN] /\ ~old.ended /\ end[c]["to"].localReady
  BY <1>1, EndIs, HeadIs DEF BindingInv, WireInv, Open, ReadyKinds
<1>4. e \in [Flags -> BOOLEAN] /\ ~e.ended /\ e.localReady
  BY <1>3 DEF Flags
<1>5. UsersTyped' /\ approved \subseteq approved' /\ Agreed \subseteq Agreed'
  BY UsersStay
<1>6. CASE Fails(c, "from", old, TRUE, <<>>) /\ UNCHANGED <<peerVars, withdrawn>>
  BY <1>1, <1>5, <1>6, NoNotice, FailureKeeps
<1>7. CASE /\ Remember(d, p, "granted") /\ SaveAll(d)
           /\ withdrawn' = withdrawn \ {<<d, p>>}
           /\ Update(c, "from", e, TRUE, Msg("client-ready"))
           /\ UNCHANGED link
  <2>1. Writes(d, p, "granted", TRUE)
    BY <1>7 DEF Writes, Remember, SaveAll
  <2>2. DeviceTyped /\ ReadyTold /\ "granted" \in Records
    BY DEF BindingInv, WireInv, Records
  <2>3. store'[d][p] = "granted" /\ disk'[d][p] = "granted"
    BY <2>1, <2>2, WrittenBoth
  <2>4. Stands(d, p)'
    BY <1>2, <2>3 DEF Stands, Holds
  <2>5. \A x, y \in Devices : <<x, y>> \in withdrawn => <<x, y>> \in withdrawn' \/ (x = d /\ y = p)
    BY <1>7
  <2>6. trusted' = trusted /\ clientOnly' = clientOnly
    OBVIOUS
  <2>7. /\ store' \in [Devices -> [Devices -> Records]]
        /\ disk' \in [Devices -> [Devices -> Records]]
        /\ StandsOn /\ ReadyTold'
        /\ \A x, y \in Devices : Listed(x, y) => Listed(x, y)'
    <3>1. Recorded(d, p, "granted")
      BY <2>1, <2>2, <2>4, <2>5, <2>6, RecordsKept
    <3> QED  BY <3>1 DEF Recorded
  <2>8. Msg("client-ready") \in Seq(Messages) /\ KindsOf(Msg("client-ready")) = {"client-ready"}
    BY Notices DEF Kinds
  <2>9. At(c, "from")' = d /\ Peer(c, "from")' = p
    BY <1>2, <1>7 DEF Update, At, Peer
  <2>10. Says(c, "from", e, {"client-ready"})
    BY <1>1, <1>3, <1>4, <2>4, <2>9 DEF Says
  <2> HIDE DEF e, old
  <2>11. EndStep(c, "from") /\ route' = route
    BY <1>1, <1>4, <1>7, <2>8, <2>10, UpdateSteps
  <2>12. DeviceTyped'
    BY <1>5, <1>7, <2>2, <2>7 DEF DeviceTyped
  <2>13. TaskGrounded' /\ TrustGrounded'
    <3>1. WantedOn
      BY <1>5, <2>11, WantedStays DEF BindingInv, WireInv
    <3>2. \A c2 \in Connections, s2 \in Sides : route[c2] # <<>> => At(c2, s2)' = At(c2, s2)
      BY <2>11 DEF At
    <3>3. task[d] = None
      BY <1>2 DEF BindingInv, GrantInv, TaskGrounded, Grounded
    <3>4. \A x \in Devices :
            \/ task'[x] = None
            \/ Grounded(x)'
            \/ /\ task'[x] = task[x] /\ link'[x] \in {link[x], None}
               /\ \A y \in Devices : <<x, y>> \in withdrawn => <<x, y>> \in withdrawn'
      BY <1>7, <2>5, <3>3
    <3> QED  BY <2>2, <2>6, <2>7, <3>1, <3>2, <3>4, TrustKept DEF BindingInv, WireInv, GrantInv
  <2>14. InvitesIssued'
    BY <2>2, <2>11, InvitesKept DEF BindingInv, GrantInv
  <2> QED  BY <1>1, <1>5, <2>7, <2>11, <2>12, <2>13, <2>14, MovesOn
<1> QED  BY <1>2, <1>6, <1>7 DEF ViewerSaves

LEMMA ReceiveKeeps ==
    ASSUME BindingInv, NEW c \in Connections, NEW s \in Sides, Receive(c, s)
    PROVE  BindingInv'
<1> DEFINE m == Head(inbox[c][s])
           old == end[c][s]
<1>1. Open(c, s) /\ inbox[c][s] # <<>> /\ UNCHANGED <<userVars, lifeVars>>
  BY DEF Receive
<1>2. m \in Messages /\ (m.kind \in ReadyKinds => end[c][Other(s)].localReady) /\ (m.kind = "request" => s = "to")
  BY <1>1, HeadIs
<1>3. old \in [Flags -> BOOLEAN] /\ ~old.ended
  BY <1>1, EndIs DEF BindingInv, WireInv, Open
<1>4. CASE m.kind = "request" /\ ReceiveRequest(c, m.token)
  BY <1>1, <1>2, <1>4, RequestArrives
<1>5. CASE Fails(c, s, old, TRUE, <<>>) /\ UNCHANGED <<peerVars, inviteVars, trustVars, withdrawn>>
  BY <1>1, <1>5, UsersStay, NoNotice, FailureKeeps DEF inviteVars
<1>6. CASE UNCHANGED inviteVars /\ Expected(c, s, old, m.kind)
  <2>1. UsersTyped' /\ approved \subseteq approved' /\ Agreed \subseteq Agreed'
    BY <1>1, <1>6, UsersStay DEF inviteVars
  <2>2. CASE m.kind = "pending" /\ Update(c, s, [old EXCEPT !.requested = TRUE], TRUE, <<>>)
             /\ UNCHANGED <<link, peerVars, trustVars, withdrawn>>
    <3> DEFINE e == [old EXCEPT !.requested = TRUE]
    <3>1. /\ e \in [Flags -> BOOLEAN] /\ ~e.ended /\ e.accepted = old.accepted
          /\ e.localReady = old.localReady /\ e.remoteReady = old.remoteReady
      BY <1>3 DEF Flags
    <3> HIDE DEF e
    <3>2. Says(c, s, e, {})
      BY <3>1 DEF Says
    <3>3. EndStep(c, s) /\ route' = route
      <4>1. Update(c, s, e, TRUE, <<>>) /\ UNCHANGED <<clientOnly, link>>
        BY <1>1, <2>2 DEF e, lifeVars
      <4> QED  BY <1>1, <3>1, <3>2, <4>1, ReadSteps
    <3> QED  BY <1>1, <1>6, <2>1, <2>2, <3>3, EndOnly
  <2>3. CASE m.kind = "accept" /\ ForViewer(c) /\ Update(c, s, [old EXCEPT !.accepted = TRUE], TRUE, <<>>)
             /\ UNCHANGED <<link, peerVars, trustVars, withdrawn>>
    <3> DEFINE e == [old EXCEPT !.accepted = TRUE]
    <3>1. /\ e \in [Flags -> BOOLEAN] /\ ~e.ended
          /\ e.localReady = old.localReady /\ e.remoteReady = old.remoteReady
      BY <1>3 DEF Flags
    <3> HIDE DEF e
    <3>2. Says(c, s, e, {})
      BY <1>6, <2>3, <3>1 DEF Says, Expected
    <3>3. EndStep(c, s) /\ route' = route
      <4>1. Update(c, s, e, TRUE, <<>>) /\ UNCHANGED <<clientOnly, link>>
        BY <1>1, <2>3 DEF e, lifeVars
      <4> QED  BY <1>1, <3>1, <3>2, <4>1, ReadSteps
    <3> QED  BY <1>1, <1>6, <2>1, <2>3, <3>3, EndOnly
  <2>4. CASE m.kind = "accept" /\ ~ForViewer(c) /\ Grant(c, s, [old EXCEPT !.accepted = TRUE], TRUE, <<>>)
    <3> DEFINE e == [old EXCEPT !.accepted = TRUE]
    <3>1. /\ e \in [Flags -> BOOLEAN] /\ ~e.ended
          /\ e.localReady = old.localReady /\ e.remoteReady = old.remoteReady
      BY <1>3 DEF Flags
    <3>2. s = "from"
      BY <1>6, <2>4 DEF Expected
    <3>3. At(c, s) \notin clientOnly
      BY <1>1, <2>4, <3>2, Ends DEF BindingInv, WireInv, Open
    <3>4. InvitesIssued'
      <4>1. route' = route
        BY <2>4 DEF Grant, Update, Fails
      <4>2. \A d \in Devices : invite'[d] \in {invite[d], 0}
        BY <1>6 DEF inviteVars
      <4> QED  BY <1>6, <4>1, <4>2, InvitesKept DEF BindingInv, WireInv, GrantInv, inviteVars
    <3> HIDE DEF e
    <3> QED  BY <1>1, <2>1, <2>4, <3>1, <3>2, <3>3, <3>4, NoNotice, GrantSteps DEF e
  <2>5. CASE m.kind = "ready" /\ ForViewer(c) /\ ViewerSaves(c, old) /\ UNCHANGED trustVars
    <3>1. s = "from"
      BY <1>6, <2>5 DEF Expected
    <3> QED  BY <1>1, <1>6, <2>5, <3>1, ViewerSavesKeeps
  <2>6. CASE m.kind \in ReadyKinds /\ Finish(c, s, [old EXCEPT !.remoteReady = TRUE], TRUE, <<>>)
             /\ UNCHANGED <<trustVars, withdrawn>>
    <3> DEFINE e == [old EXCEPT !.remoteReady = TRUE]
    <3>1. /\ e \in [Flags -> BOOLEAN] /\ ~e.ended
          /\ e.localReady = old.localReady /\ e.accepted = old.accepted
      BY <1>3 DEF Flags
    <3> HIDE DEF e
    <3>2. Says(c, s, e, {})
      BY <1>2, <2>6, <3>1 DEF Says
    <3> QED  BY <1>1, <1>6, <2>6, <3>1, <3>2, NoNotice, FinishSteps DEF e
  <2> QED
    <3>1. m.kind \in {"pending", "accept"} \cup ReadyKinds
      BY <1>6 DEF Expected, ReadyKinds
    <3>2. ASSUME m.kind = "pending"
          PROVE  /\ Update(c, s, [old EXCEPT !.requested = TRUE], TRUE, <<>>)
                 /\ UNCHANGED <<link, peerVars, trustVars, withdrawn>>
      BY <1>6, <3>2 DEF Receive
    <3>3. ASSUME m.kind = "accept", ForViewer(c)
          PROVE  /\ Update(c, s, [old EXCEPT !.accepted = TRUE], TRUE, <<>>)
                 /\ UNCHANGED <<link, peerVars, trustVars, withdrawn>>
      BY <1>6, <3>3 DEF Receive
    <3>4. ASSUME m.kind = "accept", ~ForViewer(c)
          PROVE  Grant(c, s, [old EXCEPT !.accepted = TRUE], TRUE, <<>>)
      BY <1>6, <3>4 DEF Receive
    <3>5. ASSUME m.kind = "ready", ForViewer(c)
          PROVE  ViewerSaves(c, old) /\ UNCHANGED trustVars
      BY <1>6, <3>5 DEF Receive
    <3>6. ASSUME m.kind \in ReadyKinds, ~(m.kind = "ready" /\ ForViewer(c))
          PROVE  Finish(c, s, [old EXCEPT !.remoteReady = TRUE], TRUE, <<>>) /\ UNCHANGED <<trustVars, withdrawn>>
      BY <1>6, <3>6 DEF Receive, ReadyKinds
    <3> QED  BY <2>2, <2>3, <2>4, <2>5, <2>6, <3>1, <3>2, <3>3, <3>4, <3>5, <3>6
<1> QED  BY <1>4, <1>5, <1>6 DEF Receive

-----------------------------------------------------------------------------
(* The users                                                               *)

LEMMA RequestKeeps ==
    ASSUME BindingInv, NEW c \in Connections, NEW d \in Devices, NEW p \in Devices, Request(c, d, p)
    PROVE  BindingInv'
<1>1. PICK m \in Messages : m.kind = "request" /\ inbox' = [inbox EXCEPT ![c]["to"] = <<m>>]
  <2>1. PICK token \in 0..issued[p] :
          inbox' = [inbox EXCEPT ![c]["to"] = <<[kind |-> "request", token |-> token]>>]
    BY DEF Request
  <2>2. token \in 0..MaxInvites
    BY <2>1, BindingConstants DEF BindingInv, WireInv, DeviceTyped, UsersTyped, BindingConstants
  <2> QED  BY <2>1, <2>2 DEF Messages, Kinds
<1>2. /\ route[c] = <<>> /\ d # p /\ p \notin clientOnly /\ link[d] = None /\ task[d] = None
      /\ route' = [route EXCEPT ![c] = <<d, p>>] /\ link' = [link EXCEPT ![d] = c]
      /\ UNCHANGED <<end, peerVars, trustVars, inviteVars, userVars, withdrawn, lifeVars>>
  BY DEF Request, busy
<1>3. EndTyped /\ Routed /\ DeviceTyped /\ ReadyTold
  BY DEF BindingInv, WireInv
<1>4. <<m>> \in Seq(Messages) /\ KindsOf(<<m>>) = {"request"}
  <2>1. Len(<<m>>) = 1 /\ <<m>>[1] = m
    OBVIOUS
  <2> QED  BY <1>1, <2>1 DEF KindsOf
<1>5. /\ \A x \in Connections, s \in Sides :
            inbox'[x][s] = IF x = c /\ s = "to" THEN <<m>> ELSE inbox[x][s]
      /\ inbox' \in [Connections -> [Sides -> Seq(Messages)]]
  BY <1>1, <1>3, <1>4 DEF EndTyped
<1>6. /\ route'[c] = <<d, p>> /\ \A x \in Connections : x # c => route'[x] = route[x]
      /\ route' \in [Connections -> {<<>>} \cup (Devices \X Devices)]
  BY <1>2, <1>3 DEF EndTyped
<1>7. /\ \A x \in Devices : link'[x] = IF x = d THEN c ELSE link[x]
      /\ link' \in [Devices -> Connections \cup {None}]
  BY <1>2, <1>3 DEF EndTyped
<1>8. /\ At(c, "from")' = d /\ At(c, "to")' = p
      /\ \A x \in Connections : \A s : x # c => At(x, s)' = At(x, s) /\ Peer(x, s)' = Peer(x, s)
  BY <1>6 DEF At, Peer
<1>9. EndTyped'
  BY <1>2, <1>3, <1>5, <1>6, <1>7 DEF EndTyped, lifeVars
<1>10. Routed'
  <2> SUFFICES ASSUME NEW x \in Connections
               PROVE  /\ route'[x] = <<>> => \A s \in Sides : end'[x][s] = Fresh /\ inbox'[x][s] = <<>>
                      /\ route'[x] # <<>> => At(x, "from")' # At(x, "to")' /\ At(x, "to")' \notin clientOnly'
                      /\ "request" \notin Waiting(x, "from")'
    BY DEF Routed
  <2>1. "request" \notin Waiting(x, "from")'
    BY <1>3, <1>5 DEF Routed, Waiting, Sides
  <2>2. CASE x = c
    BY <1>2, <1>6, <1>8, <2>1, <2>2 DEF lifeVars
  <2>3. CASE x # c
    <3>1. /\ route'[x] = route[x] /\ end' = end /\ clientOnly' = clientOnly
          /\ \A s \in Sides : inbox'[x][s] = inbox[x][s]
          /\ At(x, "from")' = At(x, "from") /\ At(x, "to")' = At(x, "to")
      BY <1>2, <1>5, <1>6, <1>8, <2>3 DEF lifeVars
    <3>2. /\ route[x] = <<>> => \A s \in Sides : end[x][s] = Fresh /\ inbox[x][s] = <<>>
          /\ route[x] # <<>> => At(x, "from") # At(x, "to") /\ At(x, "to") \notin clientOnly
      BY <1>3 DEF Routed
    <3>3. route'[x] = <<>> => \A s \in Sides : end'[x][s] = Fresh /\ inbox'[x][s] = <<>>
      BY <3>1, <3>2
    <3> QED  BY <2>1, <3>1, <3>2, <3>3
  <2> QED  BY <2>2, <2>3
<1>11. LinksOpen'
  <2> SUFFICES ASSUME NEW x \in Devices, link'[x] # None PROVE PendingIsOpen(x)'
    BY DEF LinksOpen
  <2>1. CASE x = d
    <3>1. link'[x] = c /\ route'[c] # <<>> /\ end'[c]["from"] = Fresh /\ "from" \in Sides
      BY <1>2, <1>3, <1>6, <1>7, <2>1 DEF Routed, Sides
    <3> QED  BY <1>8, <2>1, <3>1 DEF PendingIsOpen, Fresh, At
  <2>2. CASE x # d
    <3>1. PICK l \in Connections : link[x] = l /\ link'[x] = l
      BY <1>3, <1>7, <2>2 DEF EndTyped
    <3>2. PICK s \in Sides : route[l] # <<>> /\ At(l, s) = x /\ ~end[l][s].ended
      BY <1>3, <3>1, BindingConstants DEF BindingInv, WireInv, LinksOpen, PendingIsOpen, BindingConstants
    <3>3. l # c /\ route'[l] # <<>> /\ At(l, s)' = x /\ ~end'[l][s].ended
      BY <1>2, <1>6, <1>8, <3>2
    <3> QED  BY <3>1, <3>3 DEF PendingIsOpen, At
  <2> QED  BY <2>1, <2>2
<1>12. Agreed' = Agreed
  BY <1>2 DEF Agreed, inviteVars, userVars
<1>13. AcceptedIsAgreed'
  BY <1>2, <1>12 DEF BindingInv, GrantInv, AcceptedIsAgreed
<1>14. StandsOn /\ ReadyTold' /\ \A x, y \in Devices : Listed(x, y) => Listed(x, y)'
  BY <1>2, <1>3, QuietKept DEF trustVars, lifeVars
<1>15. Promised'
  <2> SUFFICES ASSUME NEW x \in Connections, NEW s \in Sides
               PROVE  /\ end'[x][s].localReady => Stands(At(x, s), Peer(x, s))'
                      /\ end'[x][s].remoteReady \/ Waiting(x, s)' \cap ReadyKinds # {} =>
                            end'[x][Other(s)].localReady
    BY DEF Promised
  <2>1. CASE route[x] = <<>>
    <3>1. ~end'[x][s].localReady /\ ~end'[x][s].remoteReady
      BY <1>2, <1>3, <2>1 DEF Routed, Fresh
    <3>2. inbox'[x][s] \in {<<>>, <<m>>}
      BY <1>3, <1>5, <2>1 DEF Routed
    <3>3. Waiting(x, s)' \cap ReadyKinds = {}
      BY <1>4, <3>2, NoNotice DEF Waiting, ReadyKinds
    <3> QED  BY <3>1, <3>3
  <2>2. CASE route[x] # <<>>
    <3>1. x # c /\ Waiting(x, s)' = Waiting(x, s)
      BY <1>2, <1>5, <2>2 DEF Waiting
    <3>2. At(x, s) \in Devices /\ Peer(x, s) \in Devices
      BY <1>3, <2>2, Ends
    <3>3. ASSUME end[x][s].localReady PROVE Stands(At(x, s), Peer(x, s))'
      <4>1. Stands(At(x, s), Peer(x, s))
        BY <3>3 DEF BindingInv, Promised
      <4> QED  BY <1>8, <1>14, <3>1, <3>2, <4>1 DEF StandsOn, Stands, Holds
    <3> QED  BY <1>2, <3>1, <3>3 DEF BindingInv, Promised
  <2> QED  BY <2>1, <2>2
<1>16. DeviceTyped'
  BY <1>2, <1>3 DEF DeviceTyped, UsersTyped, peerVars, trustVars, inviteVars, userVars, lifeVars
<1>17. TaskGrounded' /\ TrustGrounded'
  BY <1>2, <1>6, <1>7, <1>12, <1>14, TrustStays DEF trustVars, lifeVars
<1>18. InvitesIssued'
  BY <1>2, <1>3, <1>6, InvitesKept DEF BindingInv, GrantInv, inviteVars
<1> QED  BY <1>9, <1>10, <1>11, <1>13, <1>14, <1>15, <1>16, <1>17, <1>18 DEF BindingInv, WireInv, GrantInv

\* An action that moves no connection and writes no record.
LEMMA StillKeeps ==
    ASSUME BindingInv, UNCHANGED <<endVars, link, peerVars, clientOnly>>, Agreed \subseteq Agreed',
           trusted' = trusted, withdrawn \subseteq withdrawn', DeviceTyped', TaskGrounded',
           InvitesIssued'
    PROVE  BindingInv'
<1>1. StandsOn /\ ReadyTold' /\ \A x, y \in Devices : Listed(x, y) => Listed(x, y)'
  BY QuietKept DEF BindingInv
<1>2. WantedOn
  BY WantedStays DEF BindingInv, WireInv, endVars
<1>3. TrustGrounded'
  <2> SUFFICES ASSUME NEW d \in Devices, NEW p \in trusted[d]
               PROVE  d \notin clientOnly' /\ Listed(d, p)' /\ Wanted(d, p)'
    BY DEF TrustGrounded
  <2>1. p \in Devices
    BY DEF BindingInv, WireInv, DeviceTyped
  <2> QED  BY <1>1, <1>2, <2>1 DEF BindingInv, GrantInv, TrustGrounded, WantedOn
<1> QED  BY <1>1, <1>3, MovesOn

LEMMA UsersKeep ==
    ASSUME BindingInv, UNCHANGED <<endVars, link, peerVars, trustVars, withdrawn, lifeVars>>,
           Agreed \subseteq Agreed', UsersTyped', InvitesIssued'
    PROVE  BindingInv'
<1> USE DEF endVars, peerVars, trustVars, lifeVars
<1>1. DeviceTyped' /\ \A x, y \in Devices : Listed(x, y) => Listed(x, y)'
  BY DEF BindingInv, WireInv, DeviceTyped, Listed
<1>2. TaskGrounded'
  BY <1>1, TrustStays
<1> QED  BY <1>1, <1>2, StillKeeps

LEMMA ShownKeeps == ASSUME BindingInv, NEW d \in Devices, Shown(d) PROVE BindingInv'
<1>1. UsersTyped /\ EndTyped
  BY DEF BindingInv, WireInv, DeviceTyped
<1>2. requestId(d) \in Connections \cup {None}
  BY <1>1 DEF requestId, EndTyped
<1>3. UsersTyped' /\ Agreed \subseteq Agreed'
  BY <1>1, <1>2 DEF Shown, UsersTyped, Agreed, inviteVars, lifeVars
<1>4. InvitesIssued'
  BY InvitesKept DEF BindingInv, WireInv, GrantInv, Shown, inviteVars, endVars
<1> QED  BY <1>3, <1>4, UsersKeep DEF Shown

LEMMA RevokeInvitationKeeps ==
    ASSUME BindingInv, NEW d \in Devices, RevokeInvitation(d) PROVE BindingInv'
<1>1. UsersTyped /\ 0 \in 0..MaxInvites
  BY BindingConstants DEF BindingInv, WireInv, DeviceTyped, BindingConstants
<1>2. UsersTyped' /\ Agreed \subseteq Agreed'
  BY <1>1 DEF RevokeInvitation, UsersTyped, Agreed, userVars, lifeVars
<1>3. \A x \in Devices : invite'[x] \in {invite[x], 0}
  BY <1>1 DEF RevokeInvitation, UsersTyped
<1>4. InvitesIssued'
  BY <1>3, InvitesKept DEF BindingInv, WireInv, GrantInv, RevokeInvitation, endVars
<1> QED  BY <1>2, <1>4, UsersKeep DEF RevokeInvitation

LEMMA CreateInvitationKeeps ==
    ASSUME BindingInv, NEW d \in Devices, CreateInvitation(d) PROVE BindingInv'
<1>1. UsersTyped /\ MaxInvites \in Nat
  BY BindingConstants DEF BindingInv, WireInv, DeviceTyped, BindingConstants
<1>2. /\ issued[d] \in Nat /\ issued[d] + 1 \in 0..MaxInvites
      /\ issued' = [issued EXCEPT ![d] = issued[d] + 1] /\ invite' = [invite EXCEPT ![d] = issued[d] + 1]
      /\ UNCHANGED <<invited, route, userVars, lifeVars>>
  BY <1>1 DEF CreateInvitation, UsersTyped, endVars
<1>3. UsersTyped' /\ Agreed \subseteq Agreed'
  BY <1>1, <1>2 DEF UsersTyped, Agreed, userVars, lifeVars
<1>4. \A x : At(x, "to")' = At(x, "to")
  BY <1>2 DEF At
<1>5. InvitesIssued'
  <2>1. ASSUME NEW x \in Devices
        PROVE  Cardinality({y \in invited' : At(y, "to")' = x}) + (IF invite'[x] # 0 THEN 1 ELSE 0)
                  <= issued'[x]
    <3> DEFINE used == {y \in invited : At(y, "to") = x}
    <3>1. Cardinality(used) + (IF invite[x] # 0 THEN 1 ELSE 0) <= issued[x]
      BY DEF BindingInv, GrantInv, InvitesIssued
    <3>2. IsFiniteSet(used)
      BY FS_Subset DEF BindingInv, GrantInv, InvitesIssued
    <3>3. Cardinality(used) \in Nat /\ issued[x] \in Nat
      BY <1>1, <3>2, FS_CardinalityType DEF UsersTyped
    <3>4. {y \in invited' : At(y, "to")' = x} = used
      BY <1>2, <1>4
    <3> HIDE DEF used
    <3>5. Cardinality(used) <= issued[x]
      BY <3>1, <3>3
    <3>6. CASE x = d
      <4>1. issued'[x] = issued[x] + 1
        BY <1>1, <1>2, <3>6 DEF UsersTyped
      <4> QED  BY <3>3, <3>4, <3>5, <4>1
    <3>7. CASE x # d
      <4>1. issued'[x] = issued[x] /\ invite'[x] = invite[x]
        BY <1>1, <1>2, <3>7 DEF UsersTyped
      <4> QED  BY <3>1, <3>4, <4>1
    <3> QED  BY <3>6, <3>7
  <2> QED  BY <1>2, <2>1 DEF BindingInv, GrantInv, InvitesIssued
<1> QED  BY <1>3, <1>5, UsersKeep DEF CreateInvitation

\* The request that the user sees still waits: it is the device's link.
LEMMA WaitingLink ==
    ASSUME BindingInv, NEW d \in Devices, dialog[d] # None, StillWaits(d)
    PROVE  /\ link[d] = dialog[d] /\ link[d] \in Connections
           /\ Open(link[d], "to") /\ At(link[d], "to") = d /\ d \notin clientOnly
           /\ end[link[d]]["to"] \in [Flags -> BOOLEAN] /\ ~end[link[d]]["to"].ended
<1>1. link[d] = dialog[d] /\ link[d] # None /\ At(link[d], "to") = d
  BY DEF StillWaits, requestId
<1>2. link[d] \in Connections /\ Open(link[d], "to") /\ "to" \in Sides
  BY <1>1, LinkEnd DEF BindingInv
<1>3. d \notin clientOnly
  BY <1>1, <1>2 DEF BindingInv, WireInv, Routed, Open
<1> QED  BY <1>1, <1>2, <1>3, EndIs DEF BindingInv, WireInv, Open

LEMMA ApproveKeeps == ASSUME BindingInv, NEW d \in Devices, Approve(d) PROVE BindingInv'
<1>1. UsersTyped
  BY DEF BindingInv, WireInv, DeviceTyped
<1>2. dialog[d] \in Connections
  BY <1>1 DEF Approve, UsersTyped
<1>3. UsersTyped' /\ Agreed \subseteq Agreed' /\ dialog[d] \in Agreed'
  BY <1>1, <1>2 DEF Approve, UsersTyped, Agreed, inviteVars, lifeVars
<1>4. ASSUME route' = route PROVE InvitesIssued'
  BY <1>4, InvitesKept DEF BindingInv, WireInv, GrantInv, Approve, inviteVars
<1>5. CASE StillWaits(d)
  <2>1. PICK c \in Connections : c = link[d] /\ c = dialog[d]
    BY <1>2, <1>5, WaitingLink DEF Approve
  <2> DEFINE e == [end[c]["to"] EXCEPT !.accepted = TRUE]
  <2>2. Open(c, "to") /\ At(c, "to") \notin clientOnly /\ "to" \in Sides
    BY <1>5, <2>1, WaitingLink DEF Approve, Sides
  <2>3. /\ e \in [Flags -> BOOLEAN] /\ ~e.ended
        /\ e.localReady = end[c]["to"].localReady /\ e.remoteReady = end[c]["to"].remoteReady
    BY <1>5, <2>1, WaitingLink DEF Approve, Flags
  <2>4. Grant(c, "to", e, FALSE, Msg("accept"))
    BY <1>5, <2>1 DEF Approve
  <2>5. Msg("accept") \in Seq(Messages) /\ KindsOf(Msg("accept")) = {"accept"}
    BY Notices DEF Kinds
  <2>6. InvitesIssued'
    BY <1>4, <2>4 DEF Grant, Update, Fails
  <2> HIDE DEF e
  <2> QED  BY <1>3, <2>1, <2>2, <2>3, <2>4, <2>5, <2>6, GrantSteps DEF Approve
<1>6. CASE ~StillWaits(d)
  BY <1>3, <1>4, <1>6, UsersKeep DEF Approve, endVars
<1> QED  BY <1>5, <1>6

LEMMA RejectKeeps == ASSUME BindingInv, NEW d \in Devices, Reject(d) PROVE BindingInv'
<1>1. UsersTyped
  BY DEF BindingInv, WireInv, DeviceTyped
<1>2. UsersTyped' /\ approved \subseteq approved' /\ Agreed \subseteq Agreed'
  BY <1>1 DEF Reject, UsersTyped, Agreed, inviteVars, lifeVars
<1>3. CASE StillWaits(d)
  <2>1. PICK c \in Connections : c = link[d]
    BY <1>3, WaitingLink DEF Reject
  <2>2. Open(c, "to") /\ "to" \in Sides
    BY <1>3, <2>1, WaitingLink DEF Reject, Sides
  <2>3. Msg("reject") \in Seq(Messages) /\ KindsOf(Msg("reject")) = {"reject"}
    BY Notices DEF Kinds
  <2> QED  BY <1>2, <1>3, <2>1, <2>2, <2>3, FailureKeeps DEF Reject
<1>4. CASE ~StillWaits(d)
  <2>1. InvitesIssued'
    BY <1>4, InvitesKept DEF BindingInv, WireInv, GrantInv, Reject, inviteVars, endVars
  <2> QED  BY <1>2, <1>4, <2>1, UsersKeep DEF Reject
<1> QED  BY <1>3, <1>4

-----------------------------------------------------------------------------
(* Removal and trust                                                       *)

\* A record is forgotten, of a peer that is not let in and was told so.
LEMMA ForgetKeeps ==
    ASSUME BindingInv, NEW d \in Devices, NEW p \in Devices, Remember(d, p, "none"), SaveAll(d),
           p \notin trusted[d], <<d, p>> \in withdrawn', withdrawn \subseteq withdrawn',
           withdrawn' \subseteq Devices \X Devices, task'[d] = None,
           task' \in [Devices -> Tasks \cup {None}], \A x \in Devices : x # d => task'[x] = task[x],
           UNCHANGED <<endVars, link, trusted, inviteVars, userVars, lifeVars>>
    PROVE  BindingInv'
<1> USE DEF endVars, inviteVars, userVars, lifeVars
<1>1. Writes(d, p, "none", TRUE)
  BY DEF Writes, Remember, SaveAll
<1>2. DeviceTyped /\ ReadyTold /\ "none" \in Records
  BY DEF BindingInv, WireInv, Records
<1>3. Stands(d, p)'
  BY DEF Stands
<1>4. /\ store' \in [Devices -> [Devices -> Records]]
      /\ disk' \in [Devices -> [Devices -> Records]]
      /\ StandsOn /\ ReadyTold'
      /\ \A x, y \in Devices : Listed(x, y) => Listed(x, y)' \/ (x = d /\ y = p)
  <2>1. trusted' = trusted /\ clientOnly' = clientOnly
    OBVIOUS
  <2> QED  BY <1>1, <1>2, <1>3, <2>1, NoneKept
<1>5. \A x, y \in Devices : Listed(x, y) => Listed(x, y)' \/ (y \notin trusted[x] /\ task'[x] = None)
  BY <1>4
<1>6. DeviceTyped'
  BY <1>2, <1>4 DEF DeviceTyped, UsersTyped
<1>7. Agreed' = Agreed /\ WantedOn
  BY WantedStays DEF Agreed, BindingInv, WireInv
<1>8. TaskGrounded' /\ TrustGrounded'
  <2>1. \A c2 \in Connections, s2 \in Sides : route[c2] # <<>> => At(c2, s2)' = At(c2, s2)
    BY DEF At
  <2>2. \A x \in Devices :
          \/ task'[x] = None
          \/ Grounded(x)'
          \/ /\ task'[x] = task[x] /\ link'[x] \in {link[x], None}
             /\ \A y \in Devices : <<x, y>> \in withdrawn => <<x, y>> \in withdrawn'
    OBVIOUS
  <2> QED  BY <1>2, <1>5, <1>7, <2>1, <2>2, TrustKept DEF BindingInv, WireInv, GrantInv
<1>9. InvitesIssued'
  BY InvitesKept DEF BindingInv, WireInv, GrantInv
<1> QED  BY <1>4, <1>6, <1>7, <1>8, <1>9, MovesOn

LEMMA RevokeKeeps ==
    ASSUME BindingInv, NEW d \in Devices, NEW p \in Devices, Revoke(d, p) PROVE BindingInv'
<1> USE DEF endVars, inviteVars, userVars, lifeVars
<1>1. /\ task[d] = None /\ withdrawn' = withdrawn \cup {<<d, p>>}
      /\ UNCHANGED <<endVars, link, trusted, inviteVars, userVars, lifeVars>>
  BY DEF Revoke, busy
<1>2. DeviceTyped /\ withdrawn' \subseteq Devices \X Devices /\ <<d, p>> \in withdrawn'
  BY <1>1 DEF BindingInv, WireInv, DeviceTyped
<1>3. Agreed' = Agreed /\ InvitesIssued' /\ UsersTyped'
  BY <1>1, <1>2, InvitesKept DEF Agreed, BindingInv, WireInv, GrantInv, DeviceTyped, UsersTyped
<1>4. CASE d \in clientOnly /\ task' = task /\ Remember(d, p, "none") /\ SaveAll(d)
  <2>1. p \notin trusted[d]
    BY <1>4 DEF BindingInv, GrantInv, TrustGrounded
  <2> QED  BY <1>1, <1>2, <1>4, <2>1, ForgetKeeps DEF DeviceTyped
<1>5. CASE task' = task /\ UNCHANGED peerVars
  <2>1. DeviceTyped' /\ \A x, y \in Devices : Listed(x, y) => Listed(x, y)'
    BY <1>1, <1>2, <1>3, <1>5 DEF DeviceTyped, Listed, peerVars
  <2>2. TaskGrounded'
    BY <1>1, <1>3, <1>5, <2>1, TrustStays
  <2> QED  BY <1>1, <1>3, <1>5, <2>1, <2>2, StillKeeps
<1>6. CASE d \notin clientOnly /\ task' = [task EXCEPT ![d] = Asked(FALSE, p)] /\ UNCHANGED peerVars
  <2>1. Asked(FALSE, p) \in Tasks /\ Asked(FALSE, p).peer = p /\ Asked(FALSE, p).reply = "none"
        /\ ~Asked(FALSE, p).add
    BY DEF Asked, Tasks
  <2>2. /\ task' \in [Devices -> Tasks \cup {None}]
        /\ \A x \in Devices : task'[x] = IF x = d THEN Asked(FALSE, p) ELSE task[x]
    BY <1>2, <1>6, <2>1 DEF DeviceTyped
  <2>3. DeviceTyped'
    BY <1>1, <1>2, <1>3, <1>6, <2>2 DEF DeviceTyped, peerVars
  <2>4. TaskGrounded'
    <3>1. Grounded(d)'
      BY <1>1, <1>6, <2>1, <2>2 DEF Grounded
    <3>2. \A x \in Devices :
            \/ task'[x] = None
            \/ Grounded(x)'
            \/ /\ task'[x] = task[x] /\ link'[x] \in {link[x], None}
               /\ \A y \in Devices : <<x, y>> \in withdrawn => <<x, y>> \in withdrawn'
      BY <1>1, <2>2, <3>1
    <3>3. \A x, y \in Devices : Listed(x, y) => Listed(x, y)'
      BY <1>6 DEF Listed, peerVars
    <3>4. \A c2 \in Connections, s2 \in Sides : route[c2] # <<>> => At(c2, s2)' = At(c2, s2)
      BY <1>1 DEF At
    <3>5. WantedOn
      BY <1>1, <1>3, WantedStays DEF BindingInv, WireInv
    <3> QED  BY <1>1, <1>2, <3>2, <3>3, <3>4, <3>5, TrustKept DEF BindingInv, WireInv, GrantInv
  <2> QED  BY <1>1, <1>3, <1>6, <2>3, <2>4, StillKeeps
<1> QED  BY <1>4, <1>5, <1>6 DEF Revoke

\* The answer to an update is taken.
LEMMA AnswerTaken ==
    ASSUME BindingInv, NEW d \in Devices, task' = [task EXCEPT ![d] = None],
           trusted' = trusted, clientOnly' = clientOnly, Agreed' = Agreed, route' = route,
           \A x \in Devices : link'[x] \in {link[x], None},
           \A x, y \in Devices : x # d /\ <<x, y>> \in withdrawn => <<x, y>> \in withdrawn',
           \A x, y \in Devices : Listed(x, y) => Listed(x, y)'
    PROVE  TaskGrounded' /\ TrustGrounded' /\ task' \in [Devices -> Tasks \cup {None}] /\ task'[d] = None
<1>1. DeviceTyped /\ EndTyped /\ LinksOpen /\ TaskGrounded /\ TrustGrounded
  BY DEF BindingInv, WireInv, GrantInv
<1>2. /\ task' \in [Devices -> Tasks \cup {None}]
      /\ \A x \in Devices : task'[x] = IF x = d THEN None ELSE task[x]
  BY <1>1 DEF DeviceTyped
<1>3. WantedOn
  BY <1>1, WantedStays
<1>4. \A c2 \in Connections, s2 \in Sides : route[c2] # <<>> => At(c2, s2)' = At(c2, s2)
  BY DEF At
<1>5. \A x \in Devices :
        \/ task'[x] = None
        \/ Grounded(x)'
        \/ /\ task'[x] = task[x] /\ link'[x] \in {link[x], None}
           /\ \A y \in Devices : <<x, y>> \in withdrawn => <<x, y>> \in withdrawn'
  BY <1>2
<1> QED  BY <1>1, <1>2, <1>3, <1>4, <1>5, TrustKept

\* What the link and the trust update of a device have in common.
LEMMA AddIs ==
    ASSUME BindingInv, NEW d \in Devices, task[d] # None, task[d].add, task[d].reply = "ok",
           link[d] # None, NEW s, s = IF At(link[d], "to") = d THEN "to" ELSE "from"
    PROVE  /\ s \in Sides /\ link[d] \in Connections /\ Open(link[d], s)
           /\ At(link[d], s) = d /\ Peer(link[d], s) = task[d].peer
           /\ Peer(link[d], s) \in trusted[d] /\ <<d, Peer(link[d], s)>> \in withdrawn
           /\ Listed(d, Peer(link[d], s))
<1>1. s \in Sides /\ link[d] \in Connections /\ Open(link[d], s) /\ At(link[d], s) = d
  BY LinkEnd DEF BindingInv
<1>2. Grounded(d)
  BY DEF BindingInv, GrantInv, TaskGrounded
<1>3. PICK s2 \in Sides : At(link[d], s2) = d /\ Peer(link[d], s2) = task[d].peer
  BY <1>2 DEF Grounded
<1>4. At(link[d], "from") # At(link[d], "to")
  BY <1>1 DEF BindingInv, WireInv, Routed, Open
<1>5. s2 = s
  BY <1>1, <1>3, <1>4 DEF Sides
<1> QED  BY <1>1, <1>2, <1>3, <1>5 DEF Grounded

LEMMA AuthorizedKeeps ==
    ASSUME BindingInv, NEW d \in Devices, task[d] # None, task[d].add, task[d].reply = "ok",
           link[d] # None, Authorized(d), task' = [task EXCEPT ![d] = None],
           UNCHANGED <<trusted, inviteVars, userVars, lifeVars>>
    PROVE  BindingInv'
<1> USE DEF inviteVars, userVars, lifeVars
<1>1. PICK s \in Sides, c \in Connections :
         s = (IF At(link[d], "to") = d THEN "to" ELSE "from") /\ c = link[d]
  BY AddIs DEF Sides
<1>2. PICK p \in Devices : p = Peer(c, s)
  BY <1>1, AddIs, Ends DEF BindingInv, WireInv, Open
<1>3. Open(c, s) /\ At(c, s) = d /\ p \in trusted[d] /\ <<d, p>> \in withdrawn /\ Listed(d, p)
  BY <1>1, <1>2, AddIs
<1> DEFINE old == end[c][s]
           e == [old EXCEPT !.localReady = TRUE]
           h == [e EXCEPT !.hostReadySent = TRUE]
<1>4. PICK saved \in BOOLEAN :
          /\ Remember(d, p, "granted")
          /\ IF saved
             THEN /\ SaveAll(d) /\ UNCHANGED link
                  /\ withdrawn' = withdrawn \ {<<d, p>>}
                  /\ IF ForViewer(c)
                     THEN Update(c, s, h, FALSE, Msg("ready"))
                     ELSE Update(c, s, e, FALSE, <<>>)
             ELSE /\ UNCHANGED <<disk, withdrawn>>
                  /\ Fails(c, s, e, FALSE, <<>>)
  BY <1>1, <1>2 DEF Authorized, Saves
<1>5. old \in [Flags -> BOOLEAN] /\ ~old.ended
  BY <1>3, EndIs DEF BindingInv, WireInv, Open
<1>6. /\ e \in [Flags -> BOOLEAN] /\ ~e.ended /\ e.localReady
      /\ e.accepted = old.accepted /\ e.remoteReady = old.remoteReady
      /\ h \in [Flags -> BOOLEAN] /\ ~h.ended /\ h.localReady
      /\ h.accepted = old.accepted /\ h.remoteReady = old.remoteReady
  BY <1>5 DEF Flags
<1>7. DeviceTyped /\ ReadyTold /\ "granted" \in Records
  BY DEF BindingInv, WireInv, Records
<1>8. Writes(d, p, "granted", saved)
  BY <1>4 DEF Writes, Remember, SaveAll
<1>9. store'[d][p] = "granted" /\ disk'[d][p] = IF saved THEN "granted" ELSE disk[d][p]
  BY <1>7, <1>8, Written
<1>10. Stands(d, p)'
  <2>1. CASE saved
    BY <1>3, <1>9, <2>1 DEF Stands, Holds
  <2>2. CASE ~saved
    BY <1>3, <1>4, <2>2 DEF Stands
  <2> QED  BY <2>1, <2>2
<1>11. /\ \A x, y \in Devices : <<x, y>> \in withdrawn => <<x, y>> \in withdrawn' \/ (x = d /\ y = p)
       /\ withdrawn' \subseteq Devices \X Devices
  BY <1>4, <1>7 DEF DeviceTyped
<1>12. trusted' = trusted /\ clientOnly' = clientOnly
  OBVIOUS
<1>13. /\ store' \in [Devices -> [Devices -> Records]]
       /\ disk' \in [Devices -> [Devices -> Records]]
       /\ StandsOn /\ ReadyTold'
       /\ \A x, y \in Devices : Listed(x, y) => Listed(x, y)'
  <2>1. Recorded(d, p, "granted")
    BY <1>7, <1>8, <1>10, <1>11, <1>12, RecordsKept
  <2> QED  BY <2>1 DEF Recorded
<1>14. route' = route
  BY <1>4 DEF Update, Fails
<1>15. Stands(At(c, s), Peer(c, s))'
  <2>1. At(c, s)' = d /\ Peer(c, s)' = p
    BY <1>2, <1>3, <1>14 DEF At, Peer
  <2> QED  BY <1>10, <2>1 DEF Stands, Holds
<1>16. Agreed' = Agreed
  BY DEF Agreed
<1>17. \A kinds : "request" \notin kinds => Says(c, s, e, kinds) /\ Says(c, s, h, kinds)
  BY <1>6, <1>15 DEF Says
<1> HIDE DEF old, e, h
<1>18. EndStep(c, s) /\ \A x \in Devices : link'[x] \in {link[x], None}
  <2>1. CASE saved /\ ForViewer(c)
    <3>1. Msg("ready") \in Seq(Messages) /\ KindsOf(Msg("ready")) = {"ready"}
      BY Notices DEF Kinds
    <3> QED  BY <1>3, <1>4, <1>6, <1>17, <2>1, <3>1, UpdateSteps
  <2>2. CASE saved /\ ~ForViewer(c)
    BY <1>3, <1>4, <1>6, <1>17, <2>2, NoNotice, UpdateSteps
  <2>3. CASE ~saved
    BY <1>3, <1>4, <1>6, <1>17, <2>3, NoNotice, FailureSteps
  <2> QED  BY <2>1, <2>2, <2>3
<1>19. TaskGrounded' /\ TrustGrounded' /\ task' \in [Devices -> Tasks \cup {None}]
  BY <1>11, <1>13, <1>14, <1>16, <1>18, AnswerTaken
<1>20. DeviceTyped'
  BY <1>7, <1>11, <1>13, <1>19 DEF DeviceTyped, UsersTyped
<1>21. InvitesIssued'
  BY <1>7, <1>14, InvitesKept DEF BindingInv, GrantInv
<1> QED  BY <1>13, <1>16, <1>18, <1>19, <1>20, <1>21, MovesOn

LEMMA GrantedKeeps == ASSUME BindingInv, NEW d \in Devices, Granted(d) PROVE BindingInv'
<1> USE DEF endVars, peerVars, inviteVars, userVars, lifeVars
<1>1. /\ task[d] # None /\ task' = [task EXCEPT ![d] = None]
      /\ UNCHANGED <<trusted, inviteVars, userVars, lifeVars>>
  BY DEF Granted
<1>2. DeviceTyped /\ Agreed' = Agreed /\ UsersTyped'
  BY <1>1 DEF BindingInv, WireInv, DeviceTyped, UsersTyped, Agreed
<1>3. CASE UNCHANGED <<endVars, link, peerVars, withdrawn>>
  <2>1. \A x, y \in Devices : Listed(x, y) => Listed(x, y)'
    BY <1>3 DEF Listed
  <2>2. TaskGrounded' /\ task' \in [Devices -> Tasks \cup {None}]
    BY <1>1, <1>2, <1>3, <2>1, AnswerTaken
  <2>3. DeviceTyped'
    BY <1>1, <1>2, <1>3, <2>2 DEF DeviceTyped
  <2>4. InvitesIssued'
    BY <1>1, <1>2, <1>3, InvitesKept DEF BindingInv, GrantInv
  <2> QED  BY <1>1, <1>2, <1>3, <2>2, <2>3, <2>4, StillKeeps
<1>4. CASE /\ ~task[d].add /\ task[d].reply = "ok"
           /\ Remember(d, task[d].peer, "none") /\ SaveAll(d)
           /\ UNCHANGED <<endVars, link, withdrawn>>
  <2>1. task[d].peer \in Devices /\ task[d].peer \notin trusted[d] /\ <<d, task[d].peer>> \in withdrawn
    BY <1>1, <1>2, <1>4 DEF BindingInv, GrantInv, TaskGrounded, Grounded, DeviceTyped, Tasks
  <2>2. /\ task' \in [Devices -> Tasks \cup {None}] /\ task'[d] = None
        /\ \A x \in Devices : x # d => task'[x] = task[x]
    BY <1>1, <1>2 DEF DeviceTyped
  <2> QED  BY <1>1, <1>2, <1>4, <2>1, <2>2, ForgetKeeps DEF DeviceTyped
<1>5. CASE task[d].add /\ task[d].reply = "ok" /\ link[d] # None /\ Authorized(d)
  BY <1>1, <1>5, AuthorizedKeeps
<1>6. CASE /\ link[d] # None
           /\ \E s \in Sides : /\ s = (IF At(link[d], "to") = d THEN "to" ELSE "from")
                               /\ Fails(link[d], s, end[link[d]][s], FALSE, <<>>)
           /\ UNCHANGED <<peerVars, withdrawn>>
  <2>1. PICK s \in Sides, c \in Connections :
           /\ c = link[d] /\ Open(c, s) /\ Fails(c, s, end[c][s], FALSE, <<>>)
    BY <1>6, LinkEnd DEF BindingInv
  <2>2. end[c][s] \in [Flags -> BOOLEAN]
    BY EndIs DEF BindingInv, WireInv
  <2>3. Says(c, s, end[c][s], {})
    BY DEF Says
  <2>4. EndStep(c, s) /\ route' = route /\ \A x \in Devices : link'[x] \in {link[x], None}
    BY <1>1, <2>1, <2>2, <2>3, NoNotice, FailureSteps
  <2>5. StandsOn /\ ReadyTold' /\ \A x, y \in Devices : Listed(x, y) => Listed(x, y)'
    BY <1>1, <1>6, QuietKept DEF BindingInv
  <2>6. TaskGrounded' /\ TrustGrounded' /\ task' \in [Devices -> Tasks \cup {None}]
    BY <1>1, <1>2, <1>6, <2>4, <2>5, AnswerTaken
  <2>7. DeviceTyped'
    BY <1>1, <1>2, <1>6, <2>6 DEF DeviceTyped
  <2>8. InvitesIssued'
    BY <1>1, <1>2, <2>4, InvitesKept DEF BindingInv, GrantInv
  <2> QED  BY <1>2, <2>4, <2>5, <2>6, <2>7, <2>8, MovesOn
<1>7. CASE ~task[d].add
  BY <1>3, <1>4, <1>7 DEF Granted, Removed
<1>8. CASE task[d].add /\ link[d] = None
  BY <1>3, <1>8 DEF Granted
<1>9. CASE task[d].add /\ link[d] # None /\ task[d].reply = "ok"
  BY <1>5, <1>9 DEF Granted
<1>10. CASE task[d].add /\ link[d] # None /\ task[d].reply # "ok"
  BY <1>6, <1>10 DEF Granted, Sides
<1> QED  BY <1>7, <1>8, <1>9, <1>10

\* A lost or refused update changes nothing but its reply.
LEMMA UpdateFailsKeeps ==
    ASSUME BindingInv, NEW d \in Devices, task[d] # None, task' = [task EXCEPT ![d].reply = "failed"],
           UNCHANGED <<endVars, link, peerVars, trusted, inviteVars, userVars, withdrawn,
                       crashes, clientOnly>>
    PROVE  BindingInv'
<1> USE DEF endVars, peerVars, inviteVars, userVars
<1>1. DeviceTyped /\ EndTyped /\ Agreed' = Agreed /\ UsersTyped'
  BY DEF BindingInv, WireInv, DeviceTyped, UsersTyped, Agreed
<1>2. PICK t \in Tasks :
         /\ t = [task[d] EXCEPT !.reply = "failed"]
         /\ t.add = task[d].add /\ t.peer = task[d].peer /\ t.reply = "failed"
  <2>1. task[d] \in Tasks
    BY <1>1 DEF DeviceTyped
  <2>2. [task[d] EXCEPT !.reply = "failed"] \in Tasks
    BY <2>1 DEF Tasks
  <2> QED  BY <2>1, <2>2 DEF Tasks
<1>3. /\ task' \in [Devices -> Tasks \cup {None}]
      /\ \A x \in Devices : task'[x] = IF x = d THEN t ELSE task[x]
  BY <1>1, <1>2 DEF DeviceTyped
<1>4. DeviceTyped'
  BY <1>1, <1>3 DEF DeviceTyped
<1>5. TaskGrounded'
  <2>1. \A c2, s2 : At(c2, s2)' = At(c2, s2) /\ Peer(c2, s2)' = Peer(c2, s2)
    BY DEF At, Peer
  <2>2. /\ Grounded(d) /\ task'[d] = t
    BY <1>3 DEF BindingInv, GrantInv, TaskGrounded
  <2>3. /\ d \notin clientOnly' /\ (<<d, t.peer>> \in withdrawn') /\ t.reply # "ok"
        /\ t.add => Listed(d, t.peer)' /\ Wanted(d, t.peer)'
    BY <1>1, <1>2, <2>2 DEF Grounded, Listed, Wanted
  <2>4. ASSUME t.add, link[d] # None
        PROVE  \E s \in Sides : (At(link[d], s) = d /\ Peer(link[d], s) = t.peer)'
    <3>1. PICK s \in Sides : At(link[d], s) = d /\ Peer(link[d], s) = task[d].peer
      BY <1>2, <2>2, <2>4 DEF Grounded
    <3> QED  BY <1>2, <3>1 DEF At, Peer
  <2>5. Grounded(d)'
    BY <2>2, <2>3, <2>4 DEF Grounded, Listed, Wanted
  <2>6. WantedOn
    BY <1>1, WantedStays
  <2>7. \A x \in Devices :
          \/ task'[x] = None
          \/ Grounded(x)'
          \/ /\ task'[x] = task[x] /\ link'[x] \in {link[x], None}
             /\ \A y \in Devices : <<x, y>> \in withdrawn => <<x, y>> \in withdrawn'
    BY <1>3, <2>5
  <2>8. \A x, y \in Devices : Listed(x, y) => Listed(x, y)'
    BY DEF Listed
  <2> QED  BY <1>1, <2>1, <2>6, <2>7, <2>8, TrustKept DEF BindingInv, WireInv, GrantInv
<1>6. InvitesIssued'
  BY <1>1, InvitesKept DEF BindingInv, GrantInv
<1> QED  BY <1>1, <1>4, <1>5, <1>6, StillKeeps

\* The host lets a peer in, or no longer, as the device said when it took back
\* what it had told that peer.
LEMMA TrustChanges ==
    ASSUME BindingInv, NEW d \in Devices, NEW x \in Devices, NEW a \in BOOLEAN, Applied(d, a, x),
           d \notin clientOnly, <<d, x>> \in withdrawn, a => Listed(d, x) /\ Wanted(d, x),
           task' \in [Devices -> Tasks \cup {None}],
           \A y \in Devices : y # d => task'[y] = task[y], Grounded(d)',
           UNCHANGED <<endVars, link, peerVars, inviteVars, userVars, withdrawn,
                       crashes, clientOnly>>
    PROVE  BindingInv'
<1> USE DEF endVars, peerVars, inviteVars, userVars
<1>1. /\ DeviceTyped /\ EndTyped /\ ReadyTold /\ Agreed' = Agreed /\ UsersTyped'
      /\ TaskGrounded /\ TrustGrounded
  BY DEF BindingInv, WireInv, DeviceTyped, UsersTyped, Agreed, GrantInv
<1>2. /\ trusted' \in [Devices -> SUBSET Devices]
      /\ \A y \in Devices : y # d => trusted'[y] = trusted[y]
      /\ trusted'[d] = IF a THEN trusted[d] \cup {x} ELSE trusted[d] \ {x}
  BY <1>1 DEF Applied, DeviceTyped
<1>3. DeviceTyped'
  BY <1>1, <1>2 DEF DeviceTyped
<1>4. StandsOn
  <2> SUFFICES ASSUME NEW y \in Devices, NEW z \in Devices, Stands(y, z), <<y, z>> \notin withdrawn
               PROVE  Holds(y, z)'
    BY DEF StandsOn, Stands
  <2>1. Holds(y, z) /\ ~(y = d /\ z = x)
    BY DEF Stands
  <2>2. z \in trusted[y] => z \in trusted'[y]
    BY <1>2, <2>1
  <2> QED  BY <2>1, <2>2 DEF Holds
<1>5. ReadyTold'
  BY <1>1, <1>4 DEF ReadyTold, StandsOn
<1>6. \A y, z \in Devices : (Listed(y, z) => Listed(y, z)') /\ (Wanted(y, z) => Wanted(y, z)')
  BY <1>1 DEF Listed, Wanted
<1>7. TrustGrounded'
  <2> SUFFICES ASSUME NEW y \in Devices, NEW z \in trusted'[y]
               PROVE  y \notin clientOnly' /\ Listed(y, z)' /\ Wanted(y, z)'
    BY DEF TrustGrounded
  <2>1. z \in Devices
    BY <1>2
  <2>2. CASE z \in trusted[y]
    BY <1>1, <1>6, <2>1, <2>2 DEF TrustGrounded
  <2>3. CASE z \notin trusted[y]
    <3>1. y = d /\ z = x /\ a
      BY <1>2, <2>3
    <3> QED  BY <1>6, <3>1
  <2> QED  BY <2>2, <2>3
<1>8. TaskGrounded'
  <2> SUFFICES ASSUME NEW y \in Devices, y # d PROVE Grounded(y)'
    BY DEF TaskGrounded
  <2>1. task'[y] = task[y] /\ trusted'[y] = trusted[y] /\ Grounded(y)
    BY <1>1, <1>2 DEF TaskGrounded
  <2> QED  BY <1>1, <2>1 DEF Grounded, Listed, Wanted, At, Peer
<1>9. InvitesIssued'
  BY <1>1, InvitesKept DEF BindingInv, GrantInv
<1> QED  BY <1>1, <1>3, <1>4, <1>5, <1>7, <1>8, <1>9, MovesOn

LEMMA TrustServedKeeps == ASSUME BindingInv, NEW d \in Devices, TrustServed(d) PROVE BindingInv'
<1> USE DEF endVars, peerVars, inviteVars, userVars, lifeVars
<1>1. /\ task[d] # None
      /\ UNCHANGED <<endVars, link, peerVars, inviteVars, userVars, withdrawn, lifeVars>>
  BY DEF TrustServed
<1>2. CASE task' = [task EXCEPT ![d].reply = "failed"] /\ UNCHANGED trusted
  BY <1>1, <1>2, UpdateFailsKeeps
<1>3. CASE Applied(d, task[d].add, task[d].peer) /\ task' = [task EXCEPT ![d].reply = "ok"]
  <2>1. DeviceTyped /\ Agreed' = Agreed /\ Grounded(d)
    BY <1>1 DEF BindingInv, WireInv, Agreed, GrantInv, TaskGrounded
  <2>2. PICK t \in Tasks :
           /\ t = [task[d] EXCEPT !.reply = "ok"]
           /\ t.add = task[d].add /\ t.peer = task[d].peer /\ t.reply = "ok"
    <3>1. task[d] \in Tasks
      BY <1>1, <2>1 DEF DeviceTyped
    <3> DEFINE ok == [task[d] EXCEPT !.reply = "ok"]
    <3>2. ok \in Tasks /\ ok.add = task[d].add /\ ok.peer = task[d].peer /\ ok.reply = "ok"
      BY <3>1 DEF Tasks
    <3> HIDE DEF ok
    <3> QED  BY <3>2 DEF ok
  <2>3. PICK x \in Devices, a \in BOOLEAN : x = task[d].peer /\ a = task[d].add
    <3>1. task[d] \in Tasks
      BY <1>1, <2>1 DEF DeviceTyped
    <3> QED  BY <3>1 DEF Tasks
  <2>4. /\ task' \in [Devices -> Tasks \cup {None}] /\ task'[d] = t
        /\ \A y \in Devices : y # d => task'[y] = task[y]
    BY <1>3, <2>1, <2>2 DEF DeviceTyped
  <2>5. Applied(d, a, x) /\ trusted'[d] = IF a THEN trusted[d] \cup {x} ELSE trusted[d] \ {x}
    BY <1>3, <2>1, <2>3 DEF Applied, DeviceTyped
  <2>6. /\ d \notin clientOnly /\ <<d, x>> \in withdrawn
        /\ a => Listed(d, x) /\ Wanted(d, x)
    BY <1>1, <2>1, <2>3 DEF Grounded
  <2>7. Grounded(d)'
    <3>1. t.peer = x /\ t.add = a
      BY <2>2, <2>3
    <3>2. t.add <=> t.peer \in trusted'[d]
      BY <2>5, <3>1
    <3>3. /\ d \notin clientOnly' /\ <<d, t.peer>> \in withdrawn'
          /\ t.add => Listed(d, t.peer)' /\ Wanted(d, t.peer)'
      BY <1>1, <2>1, <2>6, <3>1 DEF Listed, Wanted
    <3>4. ASSUME t.add, link[d] # None
          PROVE  \E s \in Sides : (At(link[d], s) = d /\ Peer(link[d], s) = t.peer)'
      <4>1. PICK s \in Sides : At(link[d], s) = d /\ Peer(link[d], s) = task[d].peer
        BY <1>1, <2>1, <2>2, <3>4 DEF Grounded
      <4> QED  BY <1>1, <2>2, <4>1 DEF At, Peer
    <3> QED  BY <1>1, <2>4, <3>2, <3>3, <3>4 DEF Grounded, Listed, Wanted
  <2> QED  BY <1>1, <2>4, <2>5, <2>6, <2>7, TrustChanges
<1> QED  BY <1>2, <1>3 DEF TrustServed

LEMMA TrustReplyLostKeeps == ASSUME BindingInv, NEW d \in Devices, TrustReplyLost(d) PROVE BindingInv'
  BY UpdateFailsKeeps DEF TrustReplyLost

\* The host serves late what the device has taken back since, or let in.
LEMMA LateServedKeeps == ASSUME WholeInv, NEW d \in Devices, LateServed(d) PROVE BindingInv'
<1> USE DEF endVars, peerVars, inviteVars, userVars
<1>1. PICK u \in late[d] :
         /\ Applied(d, u.add, u.peer) \/ UNCHANGED trusted
         /\ UNCHANGED <<endVars, link, peerVars, task, inviteVars, userVars, withdrawn,
                        crashes, clientOnly>>
  BY DEF LateServed
<1>2. BindingInv /\ DeviceTyped /\ LateIs(d) /\ Grounded(d) /\ u \in GivenUp
  BY DEF WholeInv, LateGrounded, BindingInv, WireInv, GrantInv, TaskGrounded
<1>3. PICK x \in Devices, a \in BOOLEAN : x = u.peer /\ a = u.add
  BY <1>2 DEF GivenUp
<1>4. /\ d \notin clientOnly /\ <<d, x>> \in withdrawn
      /\ a => Listed(d, x) /\ Wanted(d, x)
      /\ ~(task[d] # None /\ task[d].reply = "ok")
  BY <1>2, <1>3 DEF LateIs
<1>5. Agreed' = Agreed /\ UsersTyped' /\ task' \in [Devices -> Tasks \cup {None}]
  BY <1>1, <1>2 DEF Agreed, DeviceTyped, UsersTyped
<1>6. CASE UNCHANGED trusted
  <2>1. DeviceTyped'
    BY <1>1, <1>2, <1>5, <1>6 DEF DeviceTyped
  <2>2. TaskGrounded'
    BY <1>1, <1>2, <1>5, <1>6, TrustStays DEF Listed
  <2>3. InvitesIssued'
    BY <1>1, <1>2, InvitesKept DEF BindingInv, GrantInv
  <2> QED  BY <1>1, <1>2, <1>5, <1>6, <2>1, <2>2, <2>3, StillKeeps
<1>7. CASE Applied(d, u.add, u.peer)
  <2>1. Applied(d, a, x)
    BY <1>3, <1>7
  <2>2. Grounded(d)'
    BY <1>1, <1>2, <1>4, <1>5 DEF Grounded, Listed, Wanted, At, Peer
  <2> QED  BY <1>1, <1>2, <1>4, <1>5, <2>1, <2>2, TrustChanges
<1> QED  BY <1>1, <1>6, <1>7

LEMMA RestartKeeps == ASSUME BindingInv, NEW d \in Devices, Restart(d) PROVE BindingInv'
<1>1. EndTyped /\ Routed /\ LinksOpen /\ DeviceTyped /\ ReadyTold
  BY DEF BindingInv, WireInv
<1>2. /\ UNCHANGED <<route, inbox, disk, trusted, issued, invited, approved, withdrawn, clientOnly>>
      /\ link' = [link EXCEPT ![d] = None] /\ store' = [store EXCEPT ![d] = disk[d]]
      /\ task' = [task EXCEPT ![d] = None] /\ invite' = [invite EXCEPT ![d] = 0]
      /\ dialog' = [dialog EXCEPT ![d] = None] /\ crashes' = crashes + 1 /\ crashes < MaxCrashes
  BY DEF Restart
<1>3. end' = [c \in Connections |-> [s \in Sides |->
                  IF route[c] # <<>> /\ At(c, s) = d
                  THEN [end[c][s] EXCEPT !.ended = TRUE] ELSE end[c][s]]]
  BY DEF Restart
<1>4. \A c2, s2 : At(c2, s2)' = At(c2, s2) /\ Peer(c2, s2)' = Peer(c2, s2)
  BY <1>2 DEF At, Peer
<1>5. /\ end' \in [Connections -> [Sides -> [Flags -> BOOLEAN]]]
      /\ \A c \in Connections, s \in Sides :
            /\ \A f \in Flags \ {"ended"} : end'[c][s][f] = end[c][s][f]
            /\ ~(route[c] # <<>> /\ At(c, s) = d) => end'[c][s] = end[c][s]
  <2>1. ASSUME NEW c \in Connections, NEW s \in Sides
        PROVE  /\ end'[c][s] \in [Flags -> BOOLEAN]
               /\ \A f \in Flags \ {"ended"} : end'[c][s][f] = end[c][s][f]
               /\ ~(route[c] # <<>> /\ At(c, s) = d) => end'[c][s] = end[c][s]
    <3>1. end[c][s] \in [Flags -> BOOLEAN]
      BY <1>1 DEF EndTyped
    <3>2. end'[c][s] = IF route[c] # <<>> /\ At(c, s) = d THEN Ended(end[c][s]) ELSE end[c][s]
      BY <1>3 DEF Ended
    <3> QED  BY <3>1, <3>2, EndedIsTyped
  <2> QED  BY <1>3, <2>1
<1>6. /\ \A c \in Connections, s \in Sides :
            /\ end'[c][s].accepted = end[c][s].accepted /\ end'[c][s].localReady = end[c][s].localReady
            /\ end'[c][s].remoteReady = end[c][s].remoteReady
  BY <1>5 DEF Flags
<1>7. /\ link' \in [Devices -> Connections \cup {None}]
      /\ \A x \in Devices : link'[x] = IF x = d THEN None ELSE link[x]
  BY <1>1, <1>2 DEF EndTyped
<1>8. /\ store' \in [Devices -> [Devices -> Records]]
      /\ \A x, y \in Devices : store'[x][y] = IF x = d THEN disk[x][y] ELSE store[x][y]
  BY <1>1, <1>2 DEF DeviceTyped
<1>9. /\ task' \in [Devices -> Tasks \cup {None}]
      /\ \A x \in Devices : task'[x] = IF x = d THEN None ELSE task[x]
  BY <1>1, <1>2 DEF DeviceTyped
<1>10. EndTyped'
  BY <1>1, <1>2, <1>5, <1>7 DEF EndTyped
<1>11. Routed'
  <2> SUFFICES ASSUME NEW x \in Connections
               PROVE  /\ route'[x] = <<>> => \A s \in Sides : end'[x][s] = Fresh /\ inbox'[x][s] = <<>>
                      /\ route'[x] # <<>> => At(x, "from")' # At(x, "to")' /\ At(x, "to")' \notin clientOnly'
                      /\ "request" \notin Waiting(x, "from")'
    BY DEF Routed
  <2>1. "request" \notin Waiting(x, "from")'
    BY <1>1, <1>2 DEF Routed, Waiting
  <2>2. route'[x] = <<>> => \A s \in Sides : end'[x][s] = Fresh /\ inbox'[x][s] = <<>>
    BY <1>1, <1>2, <1>5 DEF Routed
  <2>3. route'[x] # <<>> => At(x, "from")' # At(x, "to")' /\ At(x, "to")' \notin clientOnly'
    BY <1>1, <1>2, <1>4 DEF Routed
  <2> QED  BY <2>1, <2>2, <2>3
<1>12. LinksOpen'
  <2> SUFFICES ASSUME NEW x \in Devices, link'[x] # None PROVE PendingIsOpen(x)'
    BY DEF LinksOpen
  <2>1. PICK l \in Connections : x # d /\ link[x] = l /\ link'[x] = l
    BY <1>1, <1>7 DEF EndTyped
  <2>2. PICK s \in Sides : route[l] # <<>> /\ At(l, s) = x /\ ~end[l][s].ended
    BY <1>1, <1>7, <2>1 DEF LinksOpen, PendingIsOpen
  <2>3. route'[l] # <<>> /\ At(l, s)' = x /\ ~end'[l][s].ended
    BY <1>2, <1>4, <1>5, <2>1, <2>2
  <2> QED  BY <2>1, <2>3 DEF PendingIsOpen, At
<1>13. Agreed' = Agreed
  BY <1>2 DEF Agreed
<1>14. AcceptedIsAgreed'
  BY <1>6, <1>13 DEF BindingInv, GrantInv, AcceptedIsAgreed, Sides
<1>15. StandsOn
  BY <1>2, <1>8 DEF StandsOn, Stands, Holds
<1>16. ReadyTold'
  <2> SUFFICES ASSUME NEW x \in Devices, NEW y \in Devices, "ready" \in {store'[x][y], disk'[x][y]}
               PROVE  Stands(y, x)'
    BY DEF ReadyTold
  <2>1. "ready" \in {store[x][y], disk[x][y]}
    BY <1>2, <1>8
  <2> QED  BY <1>1, <1>15, <2>1 DEF ReadyTold, StandsOn
<1>17. Promised'
  <2>1. ASSUME NEW c \in Connections, NEW s \in Sides, end[c][s].localReady
        PROVE  Stands(At(c, s), Peer(c, s))'
    <3>1. route[c] # <<>>
      BY <1>1, <2>1 DEF Routed, Fresh
    <3>2. At(c, s) \in Devices /\ Peer(c, s) \in Devices
      BY <1>1, <3>1, Ends
    <3>3. Stands(At(c, s), Peer(c, s))
      BY <2>1 DEF BindingInv, Promised
    <3> QED  BY <1>4, <1>15, <3>2, <3>3 DEF StandsOn, Stands, Holds
  <2>2. \A c2 \in Connections, s2 \in Sides : Waiting(c2, s2)' = Waiting(c2, s2)
    BY <1>2 DEF Waiting
  <2> QED  BY <1>6, <2>1, <2>2, SidesDiffer DEF BindingInv, Promised
<1>18. \A x, y \in Devices : Listed(x, y) => Listed(x, y)'
  BY <1>2, <1>8 DEF Listed
<1>19. TaskGrounded' /\ TrustGrounded'
  BY <1>2, <1>7, <1>13, <1>18, AnswerTaken
<1>20. DeviceTyped'
  <2>1. UsersTyped'
    <3>1. crashes + 1 \in 0..MaxCrashes /\ 0 \in 0..MaxInvites
      BY <1>1, <1>2, BindingConstants DEF DeviceTyped, UsersTyped, BindingConstants
    <3> QED  BY <1>1, <1>2, <3>1 DEF DeviceTyped, UsersTyped
  <2> QED  BY <1>1, <1>2, <1>8, <1>9, <2>1 DEF DeviceTyped
<1>21. InvitesIssued'
  <2>1. \A x \in Devices : invite'[x] \in {invite[x], 0}
    BY <1>1, <1>2 DEF DeviceTyped, UsersTyped
  <2> QED  BY <1>1, <1>2, <2>1, InvitesKept DEF BindingInv, GrantInv
<1> QED  BY <1>10, <1>11, <1>12, <1>14, <1>16, <1>17, <1>19, <1>20, <1>21 DEF BindingInv, WireInv, GrantInv

-----------------------------------------------------------------------------
(* Updates that the host may still serve                                   *)

\* Nothing that such an update stands for is given up.
LEMMA LateStays ==
    ASSUME WholeInv, late' = late, clientOnly' = clientOnly, Agreed \subseteq Agreed',
           \A c \in Connections : route[c] # <<>> => route'[c] = route[c],
           \A d \in Devices : late[d] # {} =>
              /\ task'[d] # None /\ task'[d].reply = "ok" => task[d] # None /\ task[d].reply = "ok"
              /\ \A p \in Devices : <<d, p>> \in withdrawn => <<d, p>> \in withdrawn'
              /\ \A p \in Devices : Listed(d, p) => Listed(d, p)'
    PROVE  LateGrounded'
<1>1. WantedOn
  BY WantedStays DEF WholeInv, BindingInv, WireInv
<1> SUFFICES ASSUME NEW d \in Devices, late[d] # {} PROVE LateIs(d)'
  BY DEF WholeInv, LateGrounded, LateIs
<1>2. LateIs(d) /\ \A u \in late[d] : u.peer \in Devices
  BY DEF WholeInv, LateGrounded, GivenUp
<1>3. d \notin clientOnly' /\ ~(task'[d] # None /\ task'[d].reply = "ok")
  BY <1>2 DEF LateIs
<1>4. ASSUME NEW u \in late[d]
      PROVE  <<d, u.peer>> \in withdrawn' /\ (u.add => Listed(d, u.peer)' /\ Wanted(d, u.peer)')
  BY <1>1, <1>2 DEF LateIs, WantedOn
<1> QED  BY <1>3, <1>4 DEF LateIs, Listed, Wanted

\* A record that is written is not forgotten.
LEMMA ListedStays ==
    ASSUME DeviceTyped, NEW d \in Devices, NEW p \in Devices, NEW value \in Records \ {"none"},
           Remember(d, p, value), SaveAll(d) \/ UNCHANGED disk
    PROVE  \A x, y \in Devices : Listed(x, y) => Listed(x, y)'
<1>1. PICK saved \in BOOLEAN : Writes(d, p, value, saved)
  BY DEF Writes, Remember, SaveAll
<1>2. /\ \A x, y \in Devices : ~(x = d /\ y = p) => Unwritten(x, y)
      /\ store'[d][p] = value /\ disk'[d][p] = IF saved THEN value ELSE disk[d][p]
  BY <1>1, Written
<1> QED  BY <1>2 DEF Listed, Unwritten

LEMMA GrantLeaves ==
    ASSUME BindingInv, NEW c \in Connections, NEW s \in Sides, Open(c, s),
           NEW e, NEW read, NEW out, Grant(c, s, e, read, out)
    PROVE  /\ route' = route /\ withdrawn \subseteq withdrawn'
           /\ \A x, y \in Devices : Listed(x, y) => Listed(x, y)'
           /\ \A x \in Devices : task'[x] = task[x] \/ task'[x].reply = "none"
<1>1. PICK d \in Devices, p \in Devices : d = At(c, s) /\ p = Peer(c, s)
  BY Ends DEF BindingInv, WireInv, Open
<1>2. /\ Remember(d, p, "saved") /\ (SaveAll(d) \/ UNCHANGED disk)
      /\ withdrawn \subseteq withdrawn' /\ route' = route
      /\ task' = task \/ task' = [task EXCEPT ![d] = Asked(TRUE, p)]
  BY <1>1 DEF Grant, SavedFirst, Update, Fails
<1>3. \A x, y \in Devices : Listed(x, y) => Listed(x, y)'
  BY <1>2, ListedStays DEF BindingInv, WireInv, Records
<1> QED  BY <1>2, <1>3 DEF Asked, BindingInv, WireInv, DeviceTyped

LEMMA FinishLeaves ==
    ASSUME BindingInv, NEW c \in Connections, NEW s \in Sides, Open(c, s),
           NEW e, NEW read, NEW out, Finish(c, s, e, read, out)
    PROVE  route' = route /\ \A x, y \in Devices : Listed(x, y) => Listed(x, y)'
<1>1. PICK d \in Devices, p \in Devices : d = At(c, s) /\ p = Peer(c, s)
  BY Ends DEF BindingInv, WireInv, Open
<1>2. route' = route
  BY DEF Finish, Update, Fails
<1>3. CASE UNCHANGED peerVars
  BY <1>2, <1>3 DEF Listed, peerVars
<1>4. CASE Remember(d, p, "ready") /\ SaveAll(d)
  BY <1>2, <1>4, ListedStays DEF BindingInv, WireInv, Records
<1> QED  BY <1>1, <1>3, <1>4 DEF Finish

\* A message forgets nothing, and only a viewer is told that what it took back
\* stands again.
LEMMA ReceiveLeaves ==
    ASSUME WholeInv, NEW c \in Connections, NEW s \in Sides, Receive(c, s)
    PROVE  LateGrounded'
<1> DEFINE m == Head(inbox[c][s])
           old == end[c][s]
<1> USE DEF inviteVars, userVars, lifeVars, peerVars, trustVars
<1>1. Open(c, s) /\ inbox[c][s] # <<>> /\ UNCHANGED <<userVars, lifeVars>> /\ BindingInv
  BY DEF Receive, WholeInv
<1>2. m.kind = "request" => s = "to"
  BY <1>1, HeadIs
<1>3. CASE UNCHANGED <<route, peerVars, trustVars, withdrawn>> /\ Agreed \subseteq Agreed'
  BY <1>1, <1>3, LateStays DEF Listed
<1>4. ASSUME NEW e, NEW out, Grant(c, s, e, TRUE, out), Agreed \subseteq Agreed' PROVE LateGrounded'
  <2>1. /\ route' = route /\ withdrawn \subseteq withdrawn'
        /\ \A x, y \in Devices : Listed(x, y) => Listed(x, y)'
        /\ \A x \in Devices : task'[x] = task[x] \/ task'[x].reply = "none"
    BY <1>1, <1>4, GrantLeaves
  <2> QED  BY <1>1, <1>4, <2>1, LateStays
<1>5. CASE m.kind = "request" /\ ReceiveRequest(c, m.token)
  <2>1. Agreed \subseteq Agreed'
    BY <1>1, <1>5 DEF ReceiveRequest, Agreed
  <2>2. \/ UNCHANGED <<route, peerVars, trustVars, withdrawn>>
        \/ \E e, out : Grant(c, "to", e, TRUE, out)
    BY <1>5 DEF ReceiveRequest, Fails, Update
  <2> QED  BY <1>2, <1>3, <1>4, <1>5, <2>1, <2>2
<1>6. CASE m.kind # "request"
  <2>1. UNCHANGED inviteVars /\ Agreed' = Agreed
    BY <1>1, <1>6 DEF Receive, Agreed
  <2>2. ASSUME NEW e, Finish(c, s, e, TRUE, <<>>), UNCHANGED <<trustVars, withdrawn>>
        PROVE  LateGrounded'
    <3>1. route' = route /\ \A x, y \in Devices : Listed(x, y) => Listed(x, y)'
      BY <1>1, <2>2, FinishLeaves
    <3> QED  BY <1>1, <2>1, <2>2, <3>1, LateStays
  <2>3. ASSUME ForViewer(c), s = "from", ViewerSaves(c, old), UNCHANGED trustVars PROVE LateGrounded'
    <3>1. PICK d \in Devices, p \in Devices :
             d = At(c, "from") /\ p = Peer(c, "from") /\ d \in clientOnly
      BY <1>1, <2>3, Ends DEF BindingInv, WireInv, Open
    <3>2. late[d] = {}
      BY <3>1 DEF WholeInv, LateGrounded, LateIs
    <3>3. CASE UNCHANGED <<route, peerVars, withdrawn>>
      BY <1>3, <2>1, <2>3, <3>3
    <3>4. CASE /\ Remember(d, p, "granted") /\ SaveAll(d) /\ withdrawn' = withdrawn \ {<<d, p>>}
               /\ route' = route
      <4>1. \A x, y \in Devices : Listed(x, y) => Listed(x, y)'
        BY <1>1, <3>4, ListedStays DEF BindingInv, WireInv, Records
      <4>2. \A x, y \in Devices : x # d /\ <<x, y>> \in withdrawn => <<x, y>> \in withdrawn'
        BY <3>4
      <4> QED  BY <1>1, <2>1, <2>3, <3>2, <3>4, <4>1, <4>2, LateStays
    <3> QED  BY <2>3, <3>1, <3>3, <3>4 DEF ViewerSaves, Fails, Update
  <2>4. \/ UNCHANGED <<route, peerVars, trustVars, withdrawn>>
        \/ \E e : Grant(c, s, e, TRUE, <<>>)
        \/ ForViewer(c) /\ s = "from" /\ ViewerSaves(c, old) /\ UNCHANGED trustVars
        \/ \E e : Finish(c, s, e, TRUE, <<>>) /\ UNCHANGED <<trustVars, withdrawn>>
    <3>1. CASE ~Expected(c, s, old, m.kind)
      BY <1>6, <3>1 DEF Receive, Fails, Update
    <3>2. CASE Expected(c, s, old, m.kind) /\ m.kind \in {"pending", "accept"}
      BY <1>6, <3>2 DEF Receive, Update
    <3>3. CASE Expected(c, s, old, m.kind) /\ m.kind = "ready" /\ ForViewer(c)
      <4>1. s = "from"
        BY <3>3 DEF Expected
      <4> QED  BY <1>6, <3>3, <4>1 DEF Receive
    <3>4. CASE /\ Expected(c, s, old, m.kind) /\ m.kind \notin {"pending", "accept"}
               /\ ~(m.kind = "ready" /\ ForViewer(c))
      BY <1>6, <3>4 DEF Receive
    <3> QED  BY <3>1, <3>2, <3>3, <3>4
  <2> QED  BY <1>3, <1>4, <2>1, <2>2, <2>3, <2>4
<1> QED  BY <1>5, <1>6 DEF Receive

LEMMA UsersLeave ==
    ASSUME WholeInv, User
    PROVE  LateGrounded'
<1> USE DEF endVars, inviteVars, userVars, lifeVars, peerVars, trustVars
<1>1. BindingInv /\ DeviceTyped
  BY DEF WholeInv, BindingInv, WireInv
<1>2. ASSUME NEW c \in Connections, NEW d \in Devices, NEW p \in Devices, Request(c, d, p)
      PROVE  LateGrounded'
  <2>1. /\ UNCHANGED <<peerVars, trustVars, inviteVars, userVars, withdrawn, lifeVars>>
        /\ \A x \in Connections : route[x] # <<>> => route'[x] = route[x]
    BY <1>1, <1>2 DEF Request, BindingInv, WireInv, EndTyped
  <2> QED  BY <2>1, LateStays DEF Agreed, Listed
<1>3. ASSUME NEW d \in Devices, Shown(d) \/ Reject(d) \/ CreateInvitation(d) \/ RevokeInvitation(d)
      PROVE  LateGrounded'
  <2>1. UNCHANGED <<route, peerVars, trustVars, approved, invited, withdrawn, lifeVars>>
    BY <1>3 DEF Shown, Reject, CreateInvitation, RevokeInvitation, Fails, Update
  <2> QED  BY <2>1, LateStays DEF Agreed, Listed
<1>4. ASSUME NEW d \in Devices, Approve(d) PROVE LateGrounded'
  <2>1. UNCHANGED <<inviteVars, lifeVars>> /\ Agreed \subseteq Agreed'
    BY <1>4 DEF Approve, Agreed
  <2>2. CASE StillWaits(d)
    <3>1. PICK c \in Connections : c = link[d] /\ Open(c, "to")
      BY <1>1, <1>4, <2>2, WaitingLink DEF Approve
    <3>2. PICK e, out : Grant(c, "to", e, FALSE, out)
      BY <1>4, <2>2, <3>1 DEF Approve
    <3>3. /\ route' = route /\ withdrawn \subseteq withdrawn'
          /\ \A x, y \in Devices : Listed(x, y) => Listed(x, y)'
          /\ \A x \in Devices : task'[x] = task[x] \/ task'[x].reply = "none"
      BY <1>1, <3>1, <3>2, GrantLeaves DEF Sides
    <3> QED  BY <2>1, <3>3, LateStays
  <2>3. CASE ~StillWaits(d)
    BY <1>4, <2>1, <2>3, LateStays DEF Approve, Listed
  <2> QED  BY <2>2, <2>3
<1>5. ASSUME NEW d \in Devices, NEW p \in Devices, Revoke(d, p) PROVE LateGrounded'
  <2>1. /\ withdrawn' = withdrawn \cup {<<d, p>>}
        /\ UNCHANGED <<endVars, link, trusted, inviteVars, userVars, lifeVars>>
    BY <1>5 DEF Revoke
  <2>2. CASE d \in clientOnly
    <3>1. late[d] = {} /\ task' = task
      BY <1>5, <2>2 DEF WholeInv, LateGrounded, LateIs, Revoke
    <3>2. \A x, y \in Devices : x # d /\ Listed(x, y) => Listed(x, y)'
      BY <1>1, <1>5, <2>2 DEF Revoke, Remember, SaveAll, Listed, DeviceTyped
    <3> QED  BY <2>1, <3>1, <3>2, LateStays DEF Agreed
  <2>3. CASE d \notin clientOnly
    <3>1. task' = [task EXCEPT ![d] = Asked(FALSE, p)] /\ UNCHANGED peerVars
      BY <1>5, <2>3 DEF Revoke
    <3>2. \A x \in Devices : task'[x] = task[x] \/ task'[x].reply = "none"
      BY <1>1, <3>1 DEF Asked, DeviceTyped
    <3> QED  BY <2>1, <3>1, <3>2, LateStays DEF Agreed, Listed
  <2> QED  BY <2>2, <2>3
<1> QED  BY <1>2, <1>3, <1>4, <1>5 DEF User

\* The answer that makes a device forget a peer, or stand by what it tells it,
\* came after every update before it was served.
LEMMA GrantedLeaves ==
    ASSUME WholeInv, NEW d \in Devices, Granted(d)
    PROVE  LateGrounded'
<1> USE DEF endVars, inviteVars, userVars, lifeVars, peerVars
<1>1. BindingInv /\ DeviceTyped /\ LateIs(d)
  BY DEF WholeInv, LateGrounded, BindingInv, WireInv
<1>2. /\ task[d] # None /\ task' = [task EXCEPT ![d] = None]
      /\ UNCHANGED <<trusted, inviteVars, userVars, lifeVars>>
  BY DEF Granted
<1>3. /\ \A x \in Devices : task'[x] = task[x] \/ task'[x] = None
      /\ Agreed' = Agreed /\ late' = late /\ clientOnly' = clientOnly
  BY <1>1, <1>2 DEF DeviceTyped, Agreed
<1>4. CASE UNCHANGED <<route, peerVars, withdrawn>>
  BY <1>3, <1>4, LateStays DEF Listed
<1>5. CASE /\ task[d].reply = "ok" /\ Removed(d) /\ UNCHANGED <<route, withdrawn>>
  <2>1. late[d] = {}
    BY <1>1, <1>2, <1>5 DEF LateIs
  <2>2. \A x, y \in Devices : x # d /\ Listed(x, y) => Listed(x, y)'
    BY <1>1, <1>5 DEF Removed, Remember, SaveAll, Listed, DeviceTyped
  <2> QED  BY <1>3, <1>5, <2>1, <2>2, LateStays
<1>6. CASE task[d].reply = "ok" /\ task[d].add /\ link[d] # None /\ Authorized(d)
  <2>1. late[d] = {}
    BY <1>1, <1>2, <1>6 DEF LateIs
  <2>2. PICK s \in Sides, c \in Connections, p \in Devices :
           s = (IF At(link[d], "to") = d THEN "to" ELSE "from") /\ c = link[d] /\ p = Peer(c, s)
    <3>1. PICK s \in Sides, c \in Connections :
             s = (IF At(link[d], "to") = d THEN "to" ELSE "from") /\ c = link[d] /\ Open(c, s)
      BY <1>1, <1>6, LinkEnd DEF BindingInv, Sides
    <3> QED  BY <1>1, <3>1, Ends DEF BindingInv, WireInv, Open
  <2>3. /\ Remember(d, p, "granted") /\ (SaveAll(d) \/ UNCHANGED disk)
        /\ withdrawn' = withdrawn \/ withdrawn' = withdrawn \ {<<d, p>>}
        /\ route' = route
    BY <1>6, <2>2 DEF Authorized, Update, Fails
  <2>4. \A x, y \in Devices : Listed(x, y) => Listed(x, y)'
    BY <1>1, <2>3, ListedStays DEF Records
  <2>5. \A x, y \in Devices : x # d /\ <<x, y>> \in withdrawn => <<x, y>> \in withdrawn'
    BY <2>3
  <2> QED  BY <1>3, <2>1, <2>3, <2>4, <2>5, LateStays
<1> QED
  <2>1. CASE ~task[d].add
    BY <1>4, <1>5, <2>1 DEF Granted, Removed
  <2>2. CASE task[d].add
    BY <1>4, <1>6, <2>2 DEF Granted, Fails, Update
  <2> QED  BY <2>1, <2>2

LEMMA TrustLeaves ==
    ASSUME WholeInv, NEW d \in Devices,
           TrustServed(d) \/ TrustReplyLost(d) \/ LateServed(d) \/ Restart(d)
    PROVE  LateGrounded'
<1> USE DEF endVars, inviteVars, userVars, lifeVars, peerVars
<1>1. BindingInv /\ DeviceTyped /\ LateGrounded /\ Grounded(d) /\ LateIs(d)
  BY DEF WholeInv, LateGrounded, BindingInv, WireInv, GrantInv, TaskGrounded
<1>2. CASE TrustServed(d)
  <2>1. /\ UNCHANGED <<endVars, link, peerVars, inviteVars, userVars, withdrawn, lifeVars>>
        /\ \A x \in Devices : x # d => task'[x] = task[x]
    BY <1>1, <1>2 DEF TrustServed, DeviceTyped
  <2>2. late[d] # {} => task'[d].reply = "failed"
    BY <1>1, <1>2 DEF TrustServed, InOrder, DeviceTyped, Tasks
  <2> QED  BY <2>1, <2>2, LateStays DEF Agreed, Listed
<1>3. CASE TrustReplyLost(d)
  <2>1. /\ UNCHANGED <<endVars, link, peerVars, trusted, inviteVars, userVars, withdrawn,
                        crashes, clientOnly>>
        /\ \A x \in Devices : x # d => task'[x] = task[x]
        /\ task'[d].reply = "failed" /\ task[d] \in Tasks /\ task[d] # None
    BY <1>1, <1>3 DEF TrustReplyLost, DeviceTyped, Tasks
  <2>2. PICK u \in GivenUp : u.add = task[d].add /\ u.peer = task[d].peer
                            /\ late' \in {late, [late EXCEPT ![d] = @ \cup {u}]}
    <3> DEFINE v == [add |-> task[d].add, peer |-> task[d].peer]
    <3>1. v \in GivenUp /\ v.add = task[d].add /\ v.peer = task[d].peer
      BY <2>1 DEF Tasks, GivenUp
    <3> HIDE DEF v
    <3>2. late' \in {late, [late EXCEPT ![d] = @ \cup {v}]}
      BY <1>3 DEF TrustReplyLost, v
    <3> QED  BY <3>1, <3>2
  <2>3. /\ late' \in [Devices -> SUBSET GivenUp] /\ late'[d] \subseteq late[d] \cup {u}
        /\ \A x \in Devices : x # d => late'[x] = late[x]
    BY <1>1, <2>2 DEF LateGrounded
  <2>4. /\ d \notin clientOnly /\ <<d, u.peer>> \in withdrawn
        /\ u.add => Listed(d, u.peer) /\ Wanted(d, u.peer)
    BY <1>1, <2>1, <2>2 DEF Grounded
  <2>5. LateIs(d)'
    BY <1>1, <2>1, <2>3, <2>4 DEF LateIs, Listed, Wanted, Agreed
  <2>6. ASSUME NEW x \in Devices, x # d PROVE LateIs(x)'
    <3>1. LateIs(x) /\ late'[x] = late[x] /\ task'[x] = task[x]
      BY <1>1, <2>1, <2>3, <2>6 DEF LateGrounded
    <3> QED  BY <2>1, <3>1 DEF LateIs, Listed, Wanted, Agreed
  <2> QED  BY <2>3, <2>5, <2>6 DEF LateGrounded
<1>4. CASE LateServed(d)
  <2>1. /\ UNCHANGED <<endVars, link, peerVars, task, inviteVars, userVars, withdrawn,
                        crashes, clientOnly>>
        /\ late' \in [Devices -> SUBSET GivenUp] /\ \A x \in Devices : late'[x] \subseteq late[x]
    BY <1>1, <1>4 DEF LateServed, LateGrounded
  <2>2. ASSUME NEW x \in Devices PROVE LateIs(x)'
    <3>1. LateIs(x) /\ late'[x] \subseteq late[x]
      BY <1>1, <2>1 DEF LateGrounded
    <3> QED  BY <2>1, <3>1 DEF LateIs, Listed, Wanted, Agreed
  <2> QED  BY <2>1, <2>2 DEF LateGrounded
<1>5. CASE Restart(d)
  <2>1. /\ UNCHANGED <<route, disk, late, invited, approved, withdrawn, clientOnly>>
        /\ \A x \in Devices : task'[x] = task[x] \/ task'[x] = None
        /\ \A x, y \in Devices : store'[x][y] = IF x = d THEN disk[x][y] ELSE store[x][y]
    BY <1>1, <1>5 DEF Restart, DeviceTyped
  <2>2. \A x, y \in Devices : Listed(x, y) => Listed(x, y)'
    BY <2>1 DEF Listed
  <2> QED  BY <2>1, <2>2, LateStays DEF Agreed
<1> QED  BY <1>2, <1>3, <1>4, <1>5

LEMMA LateGoesOn == WholeInv /\ [Next]_vars => LateGrounded'
<1> SUFFICES ASSUME WholeInv, [Next]_vars PROVE LateGrounded'
  OBVIOUS
<1>1. BindingInv
  BY DEF WholeInv
<1>2. ASSUME NEW c \in Connections, NEW s \in Sides, HostReady(c, s) PROVE LateGrounded'
  <2>1. UNCHANGED <<trustVars, inviteVars, userVars, withdrawn, lifeVars>>
    BY <1>2 DEF HostReady
  <2>2. route' = route /\ \A x, y \in Devices : Listed(x, y) => Listed(x, y)'
    BY <1>1, <1>2, FinishLeaves DEF HostReady
  <2> QED  BY <2>1, <2>2, LateStays DEF Agreed, trustVars, inviteVars, userVars, lifeVars
<1>3. ASSUME NEW c \in Connections, NEW s \in Sides, LinkLost(c, s) PROVE LateGrounded'
  <2>1. UNCHANGED <<route, peerVars, trustVars, inviteVars, userVars, withdrawn, lifeVars>>
    BY <1>3 DEF LinkLost, Fails, Update
  <2> QED  BY <2>1, LateStays DEF Agreed, Listed, peerVars, trustVars, inviteVars, userVars, lifeVars
<1>4. CASE UNCHANGED vars
  <2>1. UNCHANGED <<endVars, peerVars, trustVars, inviteVars, userVars, withdrawn, lifeVars>>
    BY <1>4 DEF vars
  <2> QED  BY <2>1, LateStays DEF Agreed, Listed, endVars, peerVars, trustVars, inviteVars, userVars, lifeVars
<1> QED  BY <1>2, <1>3, <1>4, UsersLeave, ReceiveLeaves, GrantedLeaves, TrustLeaves DEF Next

-----------------------------------------------------------------------------
(* The theorems                                                            *)

LEMMA FreshIsTyped == Fresh \in [Flags -> BOOLEAN]
<1>1. DOMAIN Fresh = Flags
  BY DEF Fresh, Flags
<1>2. \A f \in Flags : Fresh[f] \in BOOLEAN
  <2>1. /\ Fresh["requested"] = FALSE /\ Fresh["accepted"] = FALSE /\ Fresh["localReady"] = FALSE
        /\ Fresh["remoteReady"] = FALSE /\ Fresh["hostReadySent"] = FALSE /\ Fresh["ended"] = FALSE
    BY DEF Fresh
  <2> QED  BY <2>1 DEF Flags
<1>3. Fresh = [f \in DOMAIN Fresh |-> Fresh[f]]
  BY DEF Fresh
<1> QED  BY <1>1, <1>2, <1>3

LEMMA BindingStarts == Init => WholeInv
<1> SUFFICES ASSUME Init PROVE WholeInv
  OBVIOUS
<1> USE DEF Init
<1>1. <<>> \in Seq(Messages) /\ KindsOf(<<>>) = {} /\ Fresh \in [Flags -> BOOLEAN]
  BY FreshIsTyped, NoNotice
<1>2. EndTyped
  BY <1>1 DEF EndTyped
<1>3. DeviceTyped
  BY BindingConstants DEF DeviceTyped, UsersTyped, Records, BindingConstants
<1>4. \A c \in Connections, s \in Sides :
         route[c] = <<>> /\ end[c][s] = Fresh /\ inbox[c][s] = <<>> /\ Waiting(c, s) = {}
  BY <1>1 DEF Waiting
<1>5. Routed
  BY <1>4 DEF Routed, Sides
<1>6. LinksOpen
  BY DEF LinksOpen
<1>7. GrantInv
  <2>1. TaskGrounded /\ TrustGrounded
    BY DEF TaskGrounded, Grounded, TrustGrounded
  <2>2. AcceptedIsAgreed
    BY <1>4 DEF AcceptedIsAgreed, Fresh, Sides
  <2>3. InvitesIssued
    <3>1. \A d \in Devices : {c \in invited : At(c, "to") = d} = {} /\ invite[d] = 0 /\ issued[d] = 0
      OBVIOUS
    <3>2. IsFiniteSet({}) /\ Cardinality({}) = 0
      BY FS_EmptySet
    <3> QED  BY <3>1, <3>2 DEF InvitesIssued
  <2> QED  BY <2>1, <2>2, <2>3 DEF GrantInv
<1>8. Promised
  BY <1>4 DEF Promised, Fresh
<1>9. ReadyTold
  BY DEF ReadyTold
<1>10. LateGrounded
  BY DEF LateGrounded, LateIs
<1> QED  BY <1>2, <1>3, <1>5, <1>6, <1>7, <1>8, <1>9, <1>10 DEF WholeInv, BindingInv, WireInv

LEMMA BindingGoesOn == WholeInv /\ [Next]_vars => WholeInv'
<1> SUFFICES ASSUME WholeInv, [Next]_vars PROVE BindingInv'
  BY LateGoesOn DEF WholeInv
<1> USE DEF WholeInv
<1>1. ASSUME NEW c \in Connections, NEW d \in Devices, NEW p \in Devices, Request(c, d, p)
      PROVE  BindingInv'
  BY <1>1, RequestKeeps
<1>2. ASSUME NEW d \in Devices, Shown(d) \/ Approve(d) \/ Reject(d) PROVE BindingInv'
  BY <1>2, ShownKeeps, ApproveKeeps, RejectKeeps
<1>3. ASSUME NEW d \in Devices, CreateInvitation(d) \/ RevokeInvitation(d) PROVE BindingInv'
  BY <1>3, CreateInvitationKeeps, RevokeInvitationKeeps
<1>4. ASSUME NEW d \in Devices, NEW p \in Devices, Revoke(d, p) PROVE BindingInv'
  BY <1>4, RevokeKeeps
<1>5. ASSUME NEW c \in Connections, NEW s \in Sides, Receive(c, s) \/ HostReady(c, s) \/ LinkLost(c, s)
      PROVE  BindingInv'
  BY <1>5, ReceiveKeeps, HostReadyKeeps, LinkLostKeeps
<1>6. ASSUME NEW d \in Devices,
             \/ Granted(d) \/ TrustServed(d) \/ TrustReplyLost(d)
             \/ LateServed(d) \/ Restart(d)
      PROVE  BindingInv'
  BY <1>6, GrantedKeeps, TrustServedKeeps, TrustReplyLostKeeps, LateServedKeeps, RestartKeeps
<1>7. CASE UNCHANGED vars
  <2>1. /\ UNCHANGED <<endVars, link, peerVars, trustVars, withdrawn, lifeVars>>
        /\ UNCHANGED <<inviteVars, userVars>>
    BY <1>7 DEF vars
  <2>2. UsersTyped' /\ Agreed \subseteq Agreed'
    BY <2>1 DEF BindingInv, WireInv, DeviceTyped, UsersTyped, Agreed, inviteVars, userVars, lifeVars
  <2>3. InvitesIssued'
    BY <2>1, InvitesKept DEF BindingInv, WireInv, GrantInv, inviteVars, endVars
  <2> QED  BY <2>1, <2>2, <2>3, UsersKeep
<1> QED  BY <1>1, <1>2, <1>3, <1>4, <1>5, <1>6, <1>7 DEF Next, User

\* What every state of two devices that bind, remove each other, lose their
\* connection or restart has in common: the records, the trust of the hosts and
\* the messages on their way agree, and so do the updates that a host may still
\* serve late.
THEOREM BindingInvariant == Spec => []WholeInv
  BY BindingStarts, BindingGoesOn, PTL DEF Spec

\* The links, queues, records and trust of every device are well formed, and
\* m_Link is a live connection of the device.
THEOREM BindingTyped == Spec => []TypeOK
<1>1. WholeInv => TypeOK
  <2> SUFFICES ASSUME WholeInv PROVE TypeOK
    OBVIOUS
  <2>1. DOMAIN Fresh = Flags
    BY DEF Fresh, Flags
  <2>2. EndTyped /\ DeviceTyped /\ UsersTyped /\ LinksOpen
    BY DEF WholeInv, BindingInv, WireInv, DeviceTyped
  <2>3. \A c \in Connections, s \in Sides : \A i \in 1..Len(inbox[c][s]) :
           inbox[c][s][i] \in [kind : Kinds, token : 0..MaxInvites]
    <3> SUFFICES ASSUME NEW c \in Connections, NEW s \in Sides, NEW i \in 1..Len(inbox[c][s])
                 PROVE  inbox[c][s][i] \in Messages
      BY DEF Messages
    <3>1. inbox[c][s] \in Seq(Messages)
      BY <2>2 DEF EndTyped
    <3> QED  BY <3>1
  <2> QED  BY <2>1, <2>2, <2>3 DEF TypeOK, EndTyped, DeviceTyped, UsersTyped, LinksOpen, WholeInv, LateGrounded
<1> QED  BY <1>1, BindingInvariant, PTL

\* A device that a host lets in is listed among its devices, after any restart:
\* grant() saves the record before the host lets the peer in, and a removal
\* deletes it after.
THEOREM TrustIsListed == Spec => []TrustedIsListed
<1>1. WholeInv => TrustedIsListed
  <2> SUFFICES ASSUME WholeInv, NEW d \in Devices, NEW p \in Devices, p \in trusted[d]
               PROVE  disk[d][p] # "none"
    BY DEF TrustedIsListed
  <2> QED  BY DEF WholeInv, BindingInv, GrantInv, TrustGrounded, Listed
<1> QED  BY <1>1, BindingInvariant, PTL

\* Nobody is let in whom the user did not ask, approve or invite, and an
\* invitation lets in one device at most.
THEOREM AccessIsApproved == Spec => []OnlyApproved
<1>1. WholeInv => OnlyApproved
  <2> SUFFICES ASSUME WholeInv PROVE OnlyApproved
    OBVIOUS
  <2>1. \A c \in Connections : end[c]["to"].accepted => c \in approved \cup invited
    BY DEF WholeInv, BindingInv, GrantInv, AcceptedIsAgreed, Agreed
  <2>2. ASSUME NEW d \in Devices, NEW p \in trusted[d]
        PROVE  \E c \in Connections :
                  \/ route[c] = <<d, p>>
                  \/ route[c] = <<p, d>> /\ c \in approved \cup invited
    <3>1. Wanted(d, p)
      BY DEF WholeInv, BindingInv, GrantInv, TrustGrounded
    <3> QED  BY <3>1 DEF Wanted, Agreed
  <2>3. ASSUME NEW d \in Devices
        PROVE  Cardinality({c \in invited : At(c, "to") = d}) <= issued[d]
    <3> DEFINE used == {c \in invited : At(c, "to") = d}
    <3>1. Cardinality(used) + (IF invite[d] # 0 THEN 1 ELSE 0) <= issued[d]
      BY DEF WholeInv, BindingInv, GrantInv, InvitesIssued
    <3>2. IsFiniteSet(used)
      BY FS_Subset DEF WholeInv, BindingInv, GrantInv, InvitesIssued
    <3>3. Cardinality(used) \in Nat /\ issued[d] \in Nat
      BY <3>2, FS_CardinalityType, BindingConstants
         DEF WholeInv, BindingInv, WireInv, DeviceTyped, UsersTyped, BindingConstants
    <3> HIDE DEF used
    <3>4. Cardinality(used) <= issued[d]
      BY <3>1, <3>3
    <3> QED  BY <3>4 DEF used
  <2> QED  BY <2>1, <2>2, <2>3 DEF OnlyApproved
<1> QED  BY <1>1, BindingInvariant, PTL

\* A binding is complete only when the other end has saved its grant and lets
\* this device in, unless it has taken that back since.
THEOREM ReadyIsAgreed == Spec => []ReadyIsMutual
<1>1. WholeInv => ReadyIsMutual
  <2> SUFFICES ASSUME WholeInv, NEW d \in Devices, NEW p \in Devices,
                      store[d][p] = "ready", <<p, d>> \notin withdrawn
               PROVE  /\ disk[p][d] \in {"granted", "ready"}
                      /\ p \notin clientOnly => d \in trusted[p]
    BY DEF ReadyIsMutual
  <2>1. Holds(p, d)
    BY DEF WholeInv, BindingInv, ReadyTold, Stands
  <2> QED  BY <2>1 DEF Holds
<1> QED  BY <1>1, BindingInvariant, PTL
=============================================================================

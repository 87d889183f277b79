-------------------------- MODULE ExclusiveSession --------------------------
(***************************************************************************)
(* What a DeskPort host promises about its desktop, without saying how: at *)
(* most one connection owns it, under one lease; a claim wins only an      *)
(* unowned desktop, and only for a device that is allowed at that moment;  *)
(* an owner is replaced in place only by its own device, which keeps the   *)
(* lease; and a device whose access goes loses the desktop in the same     *)
(* step.                                                                   *)
(*                                                                         *)
(* SessionAdmission implements it: the links, challenges, HTTP requests,   *)
(* restarts and timeouts there are stutters or one of the steps below.     *)
(***************************************************************************)
CONSTANTS
    Links,      \* connections
    Clients,    \* devices
    Owner,      \* the device of each connection
    NoLink,
    Leases,
    NoLease

VARIABLES
    owner,      \* the connection that owns the desktop, or NoLink
    held,       \* the lease it owns it under
    claim,      \* the one claim in progress: its connection and its lease
    allowed     \* the devices that may own the desktop

vars == <<owner, held, claim, allowed>>

NoClaim == [link |-> NoLink, lease |-> NoLease]

Init ==
    /\ owner = NoLink
    /\ held = NoLease
    /\ claim = NoClaim
    /\ allowed = Clients

\* One claim at a time, by an allowed device, for a desktop it does not own.
Begin(l, token) ==
    /\ claim = NoClaim
    /\ l # owner
    /\ Owner[l] \in allowed
    /\ claim' = [link |-> l, lease |-> token]
    /\ UNCHANGED <<owner, held, allowed>>

\* A claim may come to nothing, whatever it met.
GiveUp ==
    /\ claim # NoClaim
    /\ claim' = NoClaim
    /\ UNCHANGED <<owner, held, allowed>>

\* A claim never pushes the owner aside: the desktop is unowned before it wins.
Win ==
    /\ claim # NoClaim
    /\ owner = NoLink
    /\ Owner[claim.link] \in allowed
    /\ owner' = claim.link
    /\ held' = claim.lease
    /\ claim' = NoClaim
    /\ UNCHANGED allowed

\* The device replaces its connection; it keeps what it owns.
Reconnect(l) ==
    /\ claim = NoClaim
    /\ owner \notin {NoLink, l}
    /\ Owner[l] = Owner[owner]
    /\ Owner[l] \in allowed
    /\ owner' = l
    /\ UNCHANGED <<held, claim, allowed>>

Leave ==
    /\ owner # NoLink
    /\ owner' = NoLink
    /\ held' = NoLease
    /\ UNCHANGED <<claim, allowed>>

\* Access that goes takes the desktop along; what another device owns stays.
Deny(c) ==
    /\ c \in allowed
    /\ allowed' = allowed \ {c}
    /\ IF owner # NoLink /\ Owner[owner] = c
       THEN owner' = NoLink /\ held' = NoLease
       ELSE UNCHANGED <<owner, held>>
    /\ UNCHANGED claim

Allow(c) ==
    /\ allowed' = allowed \cup {c}
    /\ UNCHANGED <<owner, held, claim>>

Next ==
    \/ \E l \in Links, token \in Leases : Begin(l, token)
    \/ \E l \in Links : Reconnect(l)
    \/ GiveUp \/ Win \/ Leave
    \/ \E c \in Clients : Deny(c) \/ Allow(c)

Spec == Init /\ [][Next]_vars
=============================================================================

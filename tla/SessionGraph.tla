---------------------------- MODULE SessionGraph ----------------------------
(***************************************************************************)
(* Acyclic session chains (app/backend/sessiongraph.h, its callers in      *)
(* peermanager-session.cpp and peermanager.cpp, and the reservations of    *)
(* AdaptiveDisplay and MultiSessions).                                     *)
(*                                                                         *)
(* A desktop can host one session while it views others.  Every viewer     *)
(* registers its edge at its own desktop before it asks the host for       *)
(* admission.  The host then checks that admitting the viewer closes no    *)
(* cycle: it probes the hosts of all its own outgoing edges, each of which *)
(* does the same, handing on the path of desktops visited so far.  No lock *)
(* spans two desktops, so attempts of several desktops interleave freely.  *)
(***************************************************************************)
EXTENDS Naturals, Sequences, FiniteSets

CONSTANTS
    Nodes,          \* desktops, by certificate digest
    MaxAttempts,    \* bound: viewers opened in a behaviour
    MaxPath,        \* longest path dp_session_path_check accepts
    NetworkFails    \* whether a probe may fail or miss its 4.5 s deadline

ASSUME GraphConstants ==
    /\ MaxAttempts \in Nat
    /\ MaxPath \in Nat \ {0}
    /\ NetworkFails \in BOOLEAN

VARIABLES
    route,      \* viewers opened so far: the edge each of them reserves
    stage,      \* stage of each viewer
    revision,   \* SessionGraph::revisions of each desktop
    checks,     \* SessionGraph::check calls that wait for probes
    probes,     \* probes that are being connected or served
    results     \* outcomes that have not been handled yet

vars == <<route, stage, revision, checks, probes, results>>

Edges == [from : Nodes, to : Nodes]
Viewers == 1..Len(route)

\* Stages: reserved (edge registered), asking (the host checks the path),
\* cleared (sessionRequestVerified), admitted, refused (told so by the host; the
\* edge stays until the viewer is closed) and closed.
Stages == {"reserved", "asking", "cleared", "admitted", "refused", "closed"}
Codes  == {"safe", "cycle", "unavailable"}

\* A check is named by the chain of viewers that led to it: the viewer that asks
\* for admission, then one outgoing edge of each desktop that was probed.
Chains == Seq(Nat \ {0})

TypeOK ==
    /\ route \in Seq(Edges) /\ Len(route) <= MaxAttempts
    /\ stage \in [Viewers -> Stages]
    /\ revision \in [Nodes -> Nat]
    /\ \A c \in checks : /\ c.chain \in Chains
                         /\ c.revision \in Nat
                         /\ c.waiting \subseteq Viewers /\ c.waiting # {}
    /\ probes \subseteq Chains
    /\ \A r \in results : r.chain \in Chains /\ r.code \in Codes

Init ==
    /\ route = <<>>
    /\ stage = <<>>
    /\ revision = [n \in Nodes |-> 0]
    /\ checks = {}
    /\ probes = {}
    /\ results = {}

-----------------------------------------------------------------------------
Registered(k) == stage[k] # "closed"

\* SessionGraph::branches: all outgoing edges of a desktop.
Branches(n) == {k \in Viewers : Registered(k) /\ route[k].from = n}

Last(chain)  == chain[Len(chain)]
Self(chain)  == route[Last(chain)].to
Path(chain)  == {route[chain[i]].from : i \in 1..Len(chain)}
Root(chain)  == chain[1]

\* Mutant: only established sessions are visible to a check.
EstablishedOnly(n) == {k \in Viewers : stage[k] = "admitted" /\ route[k].from = n}

Outgoing(n) == Branches(n)

-----------------------------------------------------------------------------
(* Viewers                                                                 *)

\* SessionGraph::reserve, before any request: not for an edge to oneself.
Reserve(a, b) ==
    /\ a # b
    /\ Len(route) < MaxAttempts
    /\ route' = Append(route, [from |-> a, to |-> b])
    /\ stage' = Append(stage, "reserved")
    /\ revision' = [revision EXCEPT ![a] = @ + 1]
    /\ UNCHANGED <<checks, probes, results>>

\* Mutant: the desktop that asks is not part of the path it is checked against.
ClosesLongerCycle(chain) == Len(chain) > 2 /\ Self(chain) \in Path(chain)

\* dp_session_path_check: this desktop is already on the path.
ClosesCycle(chain) == Self(chain) \in Path(chain)

Verdict(chain) ==
    IF ClosesCycle(chain) THEN "cycle"
    ELSE IF Len(chain) > MaxPath THEN "unavailable"
    ELSE IF Outgoing(Self(chain)) = {} THEN "safe"
    ELSE "branches"

\* SessionGraph::check at the desktop a chain leads to: an outcome at once, or a
\* probe of every outgoing edge.
Check(chain, asked) ==
    IF Verdict(chain) # "branches"
    THEN /\ results' = results \cup {[chain |-> chain, code |-> Verdict(chain)]}
         /\ probes' = asked
         /\ UNCHANGED checks
    ELSE /\ checks' = checks \cup {[chain |-> chain, revision |-> revision[Self(chain)],
                                    waiting |-> Outgoing(Self(chain))]}
         /\ probes' = asked \cup {Append(chain, k) : k \in Outgoing(Self(chain))}
         /\ UNCHANGED results

\* sessionRequest: the host checks the path that starts with the viewer.
Ask(k) ==
    /\ stage[k] = "reserved"
    /\ stage' = [stage EXCEPT ![k] = "asking"]
    /\ Check(<<k>>, probes)
    /\ UNCHANGED <<route, revision>>

\* The viewer is closed: its thread is joined and the edge is released.  What
\* its host's check finds now is dropped, for the link has ended.
Close(k) ==
    /\ stage[k] # "closed"
    /\ stage' = [stage EXCEPT ![k] = "closed"]
    /\ revision' = [revision EXCEPT ![route[k].from] = @ + 1]
    /\ checks' = {c \in checks : Root(c.chain) # k}
    /\ probes' = {chain \in probes : Root(chain) # k}
    /\ results' = {r \in results : Root(r.chain) # k}
    /\ UNCHANGED route

-----------------------------------------------------------------------------
(* Probes                                                                  *)

\* session-path at the probed desktop.
ServeProbe(chain) ==
    /\ chain \in probes
    /\ Check(chain, probes \ {chain})
    /\ UNCHANGED <<route, stage, revision>>

\* The desktop is unreachable, refuses the path, or does not answer in 4.5 s.
ProbeFails(chain) ==
    /\ NetworkFails
    /\ chain \in probes
    /\ probes' = probes \ {chain}
    /\ results' = results \cup {[chain |-> chain, code |-> "unavailable"]}
    /\ UNCHANGED <<route, stage, revision, checks>>

Below(chain, other) == Len(other) > Len(chain) /\ SubSeq(other, 1, Len(chain)) = chain

\* Mutant: one safe branch is enough.
FinishedByFirst(code, remaining) == TRUE

\* Mutant: the last safe branch does not end the check.
FinishedByFailure(code, remaining) == code # "safe"

Finished(code, remaining) == code # "safe" \/ remaining = {}

\* The outcome of one branch.  Any but "safe" ends the check; so does a change
\* of the desktop's own edges since it began.  Nobody waits for the branches
\* that are still being probed then.
BranchDone(c, r) ==
    /\ c \in checks /\ r \in results
    /\ \E k \in c.waiting :
        /\ r.chain = Append(c.chain, k)
        /\ LET code == IF revision[Self(c.chain)] # c.revision THEN "unavailable" ELSE r.code
               remaining == c.waiting \ {k}
           IN  IF Finished(code, remaining)
               THEN /\ checks' = {d \in checks : d # c /\ ~Below(c.chain, d.chain)}
                    /\ probes' = {q \in probes : ~Below(c.chain, q)}
                    /\ results' = {s \in results : ~Below(c.chain, s.chain)}
                                    \cup {[chain |-> c.chain, code |-> code]}
               ELSE /\ checks' = (checks \ {c}) \cup {[c EXCEPT !.waiting = remaining]}
                    /\ results' = results \ {r}
                    /\ UNCHANGED probes
    /\ UNCHANGED <<route, stage, revision>>

-----------------------------------------------------------------------------
(* Admission                                                               *)

\* The callback of the check: sessionRequestVerified, or an error for the viewer.
Decide(k) ==
    /\ stage[k] = "asking"
    /\ \E r \in results :
        /\ r.chain = <<k>>
        /\ results' = results \ {r}
        /\ stage' = [stage EXCEPT ![k] = IF r.code = "safe" THEN "cleared" ELSE "refused"]
    /\ UNCHANGED <<route, revision, checks, probes>>

\* The host admits the viewer, some time after the check (SessionAdmission); the
\* viewer it takes over from is told that its session has ended.
Admit(k) ==
    /\ stage[k] = "cleared"
    /\ stage' = [j \in Viewers |->
            IF j = k THEN "admitted"
            ELSE IF stage[j] = "admitted" /\ route[j].to = route[k].to THEN "refused"
            ELSE stage[j]]
    /\ UNCHANGED <<route, revision, checks, probes, results>>

-----------------------------------------------------------------------------
CheckStep ==
    \/ \E chain \in probes : ServeProbe(chain) \/ ProbeFails(chain)
    \/ \E c \in checks, r \in results : BranchDone(c, r)
    \/ \E k \in Viewers : Decide(k)

Next ==
    \/ \E a, b \in Nodes : Reserve(a, b)
    \/ \E k \in Viewers : Ask(k) \/ Admit(k) \/ Close(k)
    \/ CheckStep

Spec == Init /\ [][Next]_vars

\* A probe ends at its deadline at the latest, and callbacks run.
FairSpec == Spec /\ WF_vars(CheckStep)

-----------------------------------------------------------------------------
(* Properties                                                              *)

\* "The sessionTopology 1 extension now enforces acyclic session chains for
\* updated desktop peers, including pending connections"
\* (docs/SESSION_TAKEOVER.md): in every set of desktops there is one that
\* views no other of them, however the attempts interleave.  A check ends long
\* before the admission, so the edges of the viewers that have passed it count:
\* then no order in which hosts admit them can close a cycle.
ClearedAcyclic ==
    \A S \in (SUBSET Nodes) \ {{}} : \E n \in S :
        \A k \in Viewers :
            (stage[k] \in {"cleared", "admitted"} /\ route[k].from = n) => route[k].to \notin S

\* Every path check comes to an end: desktops that probe each other at the same
\* time do not wait for each other for ever.
Asking(k) == k \in Viewers /\ stage[k] = "asking"
ChecksEnd == \A k \in 1..MaxAttempts : Asking(k) ~> ~Asking(k)
=============================================================================

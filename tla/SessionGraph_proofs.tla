------------------------- MODULE SessionGraph_proofs -------------------------
(***************************************************************************)
(* No order of concurrent checks lets a cycle of viewers pass              *)
(* (SessionGraph), for any number of desktops and viewers, probes that     *)
(* fail, and viewers that close meanwhile.                                 *)
(*                                                                         *)
(* Of the viewers on a cycle one reserved its edge last, when all other    *)
(* edges were visible.  That its check nevertheless ended well would mean  *)
(* a set of desktops that its host can reach, that contains no desktop of  *)
(* the path and that no edge reserved before its own leaves: such a set    *)
(* certifies every safe outcome (`Safe'), also the partial ones, and stays *)
(* one whatever is closed or reserved later.                               *)
(***************************************************************************)
EXTENDS SessionGraph, FiniteSetTheorems, SequenceTheorems, WellFoundedInduction, TLAPS

-----------------------------------------------------------------------------
(* The invariant                                                           *)

Checks == [chain : Seq(Viewers), revision : Nat, waiting : SUBSET Viewers]
Results == [chain : Seq(Viewers), code : Codes]

Typed ==
    /\ route \in Seq(Edges) /\ Len(route) <= MaxAttempts
    /\ stage \in [Viewers -> Stages]
    /\ revision \in [Nodes -> Nat]
    /\ checks \subseteq Checks /\ probes \subseteq Seq(Viewers) /\ results \subseteq Results
    /\ \A c \in checks : c.chain # <<>> /\ c.waiting # {}
    /\ \A chain \in probes : chain # <<>>
    /\ \A r \in results : r.chain # <<>>

\* The desktops of S can be reached from the end of the chain over older edges.
Certifies(S, chain) ==
    /\ Self(chain) \in S /\ S \cap Path(chain) = {}
    /\ \A j \in Viewers :
          Registered(j) /\ j < Root(chain) /\ route[j].from \in S => route[j].to \in S

Safe(chain) == \E S \in SUBSET Nodes : Certifies(S, chain)

ResultsSafe == \A r \in results : r.code = "safe" => Safe(r.chain)

\* A branch that is no longer waited for has been safe.
ChecksSafe ==
    \A c \in checks :
        /\ Self(c.chain) \notin Path(c.chain)
        /\ \A k \in Outgoing(Self(c.chain)) \ c.waiting :
              k < Root(c.chain) => Safe(Append(c.chain, k))

Passed(k) == stage[k] \in {"cleared", "admitted"}
PassedSafe == \A k \in Viewers : Passed(k) => Safe(<<k>>)

GraphInv == Typed /\ ResultsSafe /\ ChecksSafe /\ PassedSafe

-----------------------------------------------------------------------------
(* Chains                                                                  *)

Named(chain) == chain \in Seq(Viewers) /\ chain # <<>>

\* What a chain names, and what one more viewer adds to it.
LEMMA ChainParts ==
    ASSUME Typed, NEW chain, Named(chain)
    PROVE  /\ Len(chain) \in Nat \ {0}
           /\ \A i \in 1..Len(chain) : chain[i] \in Viewers
           /\ Root(chain) \in Viewers /\ Last(chain) \in Viewers
           /\ Self(chain) \in Nodes /\ Path(chain) \subseteq Nodes
<1>1. /\ Len(chain) \in Nat \ {0}
      /\ \A i \in 1..Len(chain) : chain[i] \in Viewers
  BY DEF Named
<1>2. \A j \in Viewers : route[j] \in Edges
  BY DEF Typed, Viewers
<1> QED  BY <1>1, <1>2 DEF Root, Last, Self, Path, Edges

LEMMA ChainLonger ==
    ASSUME Typed, NEW chain, Named(chain), NEW k \in Viewers
    PROVE  /\ Named(Append(chain, k))
           /\ Root(Append(chain, k)) = Root(chain)
           /\ Self(Append(chain, k)) = route[k].to
           /\ Path(Append(chain, k)) = Path(chain) \cup {route[k].from}
<1> DEFINE longer == Append(chain, k)
<1>1. Len(chain) \in Nat \ {0}
  BY ChainParts
<1>2. /\ longer \in Seq(Viewers) /\ Len(longer) = Len(chain) + 1
      /\ longer[Len(chain) + 1] = k
      /\ \A i \in 1..Len(chain) : longer[i] = chain[i]
  BY <1>1, AppendProperties DEF Named
<1>3. 1..Len(longer) = (1..Len(chain)) \cup {Len(chain) + 1}
  BY <1>1, <1>2
<1> HIDE DEF longer
<1>4. Named(longer)
  BY <1>1, <1>2 DEF Named
<1>5. Root(longer) = Root(chain) /\ Self(longer) = route[k].to
  BY <1>1, <1>2 DEF Root, Self, Last
<1>6. Path(longer) = Path(chain) \cup {route[k].from}
  <2>1. \A n : n \in Path(longer) <=> \E i \in 1..Len(longer) : n = route[longer[i]].from
    BY DEF Path
  <2>2. \A n : n \in Path(chain) <=> \E i \in 1..Len(chain) : n = route[chain[i]].from
    BY DEF Path
  <2> QED  BY <1>2, <1>3, <2>1, <2>2
<1> QED  BY <1>4, <1>5, <1>6 DEF longer

LEMMA ChainOfOne ==
    ASSUME Typed, NEW k \in Viewers
    PROVE  /\ Named(<<k>>) /\ Root(<<k>>) = k
           /\ Self(<<k>>) = route[k].to /\ Path(<<k>>) = {route[k].from}
  BY DEF Named, Root, Self, Last, Path

-----------------------------------------------------------------------------
(* Certificates                                                            *)

\* A step that changes no edge, opens no closed viewer and numbers new ones last.
Keeps ==
    /\ Len(route) <= Len(route') /\ Len(route') \in Nat
    /\ \A j \in Viewers : route'[j] = route[j]
    /\ \A j \in Viewers : stage'[j] # "closed" => stage[j] # "closed"

\* Certificates outlive every step, since only edges older than the root count.
LEMMA SafeStays ==
    ASSUME Typed, Keeps, NEW chain, Named(chain)
    PROVE  /\ Named(chain)'
           /\ Self(chain)' = Self(chain) /\ Path(chain)' = Path(chain)
           /\ Safe(chain) => Safe(chain)'
<1>1. /\ Len(chain) \in Nat \ {0}
      /\ \A i \in 1..Len(chain) : chain[i] \in Viewers
      /\ Root(chain) \in Viewers /\ Last(chain) \in Viewers
  BY ChainParts
<1>2. Len(route) \in Nat /\ Viewers \subseteq Viewers'
  BY DEF Typed, Viewers, Keeps
<1>3. Named(chain)'
  BY <1>1, <1>2 DEF Named
<1>4. Self(chain)' = Self(chain) /\ Path(chain)' = Path(chain)
  BY <1>1 DEF Self, Path, Last, Keeps
<1>5. \A j \in Viewers' : j < Root(chain) => j \in Viewers
  BY <1>1, <1>2 DEF Viewers
<1>6. ASSUME NEW S \in SUBSET Nodes, Certifies(S, chain)
      PROVE  Certifies(S, chain)'
  <2>1. \A j \in Viewers' : Registered(j)' /\ j < Root(chain) /\ route'[j].from \in S
                              => route'[j].to \in S
    BY <1>5, <1>6 DEF Certifies, Registered, Keeps
  <2> QED  BY <1>4, <1>6, <2>1 DEF Certifies, Root
<1> QED  BY <1>3, <1>4, <1>6 DEF Safe

\* Steps of checks and admissions leave every edge where it is.
Stable ==
    /\ UNCHANGED <<route, revision>> /\ stage' \in [Viewers -> Stages]
    /\ \A j \in Viewers : stage'[j] = "closed" <=> stage[j] = "closed"

LEMMA StableKeeps ==
    ASSUME Typed, Stable
    PROVE  Keeps /\ Viewers' = Viewers /\ \A n : Outgoing(n)' = Outgoing(n)
<1>1. Len(route) \in Nat /\ Viewers' = Viewers /\ route' = route
  BY DEF Typed, Stable, Viewers
<1>2. Keeps
  BY <1>1 DEF Keeps, Stable
<1>3. ASSUME NEW n PROVE Outgoing(n)' = Outgoing(n)
  BY <1>1 DEF Outgoing, Branches, Registered, Stable
<1> QED  BY <1>1, <1>2, <1>3

\* The three parts about outcomes survive a step that only keeps or closes edges
\* and that takes nothing new into checks, results or admissions.
LEMMA PartsStay ==
    ASSUME GraphInv, Keeps, Typed',
           results' \subseteq results, checks' \subseteq checks,
           \A n, k : k \in Viewers /\ k \in Outgoing(n)' => k \in Outgoing(n),
           \A k \in Viewers' : Passed(k)' => k \in Viewers /\ Passed(k)
    PROVE  GraphInv'
<1>1. Typed
  BY DEF GraphInv
<1>2. ResultsSafe'
  <2>1. \A r \in results : Named(r.chain)
    BY <1>1 DEF Typed, Results, Named
  <2> QED  BY <1>1, <2>1, SafeStays DEF GraphInv, ResultsSafe
<1>3. ChecksSafe'
  <2> SUFFICES ASSUME NEW c \in checks'
               PROVE  /\ Self(c.chain)' \notin Path(c.chain)'
                      /\ \A k \in Outgoing(Self(c.chain))' \ c.waiting :
                            k < Root(c.chain) => Safe(Append(c.chain, k))'
    BY DEF ChecksSafe, Root
  <2>1. c \in checks /\ Named(c.chain)
    BY <1>1 DEF Typed, Checks, Named
  <2>2. Self(c.chain)' = Self(c.chain) /\ Path(c.chain)' = Path(c.chain)
    BY <1>1, <2>1, SafeStays
  <2>3. Self(c.chain) \notin Path(c.chain)
    BY <2>1 DEF GraphInv, ChecksSafe
  <2>4. ASSUME NEW k \in Outgoing(Self(c.chain))' \ c.waiting, k < Root(c.chain)
        PROVE  Safe(Append(c.chain, k))'
    <3>1. Root(c.chain) \in Viewers /\ Len(route) \in Nat
      <4>1. Root(c.chain) \in Viewers
        BY <1>1, <2>1, ChainParts
      <4>2. Len(route) \in Nat
        BY <1>1 DEF Typed
      <4> QED  BY <4>1, <4>2
    <3>2. k \in Viewers
      BY <2>4, <3>1 DEF Viewers, Outgoing, Branches
    <3>3. k \in Outgoing(Self(c.chain)) \ c.waiting
      BY <2>2, <2>4, <3>2
    <3>4. Safe(Append(c.chain, k))
      BY <2>1, <2>4, <3>3 DEF GraphInv, ChecksSafe
    <3>5. Named(Append(c.chain, k))
      BY <1>1, <2>1, <3>2, ChainLonger
    <3> QED  BY <1>1, <3>4, <3>5, SafeStays
  <2> QED  BY <2>2, <2>3, <2>4
<1>4. PassedSafe'
  <2> SUFFICES ASSUME NEW k \in Viewers', Passed(k)' PROVE Safe(<<k>>)'
    BY DEF PassedSafe
  <2>1. k \in Viewers /\ Safe(<<k>>)
    BY DEF GraphInv, PassedSafe
  <2>2. Named(<<k>>)
    BY <1>1, <2>1, ChainOfOne
  <2> QED  BY <1>1, <2>1, <2>2, SafeStays
<1> QED  BY <1>2, <1>3, <1>4 DEF GraphInv

-----------------------------------------------------------------------------
(* Steps of the checks                                                     *)

\* A desktop without outgoing edges, off the path, is a certificate by itself.
LEMMA SafeAtOnce ==
    ASSUME Typed, NEW chain, Named(chain), Verdict(chain) = "safe"
    PROVE  Safe(chain)
<1>1. ~ClosesCycle(chain) /\ Outgoing(Self(chain)) = {}
  BY DEF Verdict
<1>2. Self(chain) \in Nodes
  BY ChainParts
<1>3. Certifies({Self(chain)}, chain)
  BY <1>1 DEF Certifies, ClosesCycle, Outgoing, Branches
<1> QED  BY <1>2, <1>3 DEF Safe

\* A check that begins: its outcome, if it has one, is certified; otherwise it
\* waits for all its branches.
LEMMA CheckBegins ==
    ASSUME GraphInv, Stable, NEW chain, Named(chain),
           NEW asked, asked \subseteq Seq(Viewers), \A p \in asked : p # <<>>,
           Check(chain, asked),
           \A k \in Viewers : Passed(k)' => Passed(k)
    PROVE  GraphInv'
<1>1. Typed
  BY DEF GraphInv
<1>2. Keeps /\ Viewers' = Viewers /\ \A n : Outgoing(n)' = Outgoing(n)
  BY <1>1, StableKeeps
<1>3. Self(chain) \in Nodes /\ Outgoing(Self(chain)) \subseteq Viewers
  BY <1>1, ChainParts DEF Outgoing, Branches
<1>4. \A p : Named(p) => Named(p)' /\ Self(p)' = Self(p) /\ Path(p)' = Path(p)
                           /\ (Safe(p) => Safe(p)')
  BY <1>1, <1>2, SafeStays
<1> DEFINE new == [chain |-> chain, revision |-> revision[Self(chain)],
                   waiting |-> Outgoing(Self(chain))]
           outcome == [chain |-> chain, code |-> Verdict(chain)]
<1>5. PassedSafe'
  BY <1>1, <1>2, <1>4, ChainOfOne DEF GraphInv, PassedSafe
<1>6. CASE Verdict(chain) # "branches"
  <2>1. results' = results \cup {outcome} /\ probes' = asked /\ checks' = checks
    BY <1>6 DEF Check
  <2>2. outcome \in Results
    BY <1>6 DEF Results, Codes, Verdict, Named
  <2>3. Typed'
    <3>1. checks' \subseteq Checks' /\ probes' \subseteq Seq(Viewers)' /\ results' \subseteq Results'
      BY <1>1, <1>2, <2>1, <2>2 DEF Typed, Checks, Results
    <3>2. \A r \in results' : r.chain # <<>>
      BY <1>1, <2>1 DEF Typed, Named
    <3> QED  BY <1>1, <1>2, <2>1, <3>1, <3>2 DEF Typed, Stable
  <2>4. ResultsSafe'
    <3>1. \A r \in results : Named(r.chain)
      BY <1>1 DEF Typed, Results, Named
    <3>2. Verdict(chain) = "safe" => Safe(chain)'
      BY <1>1, <1>4, SafeAtOnce
    <3> QED  BY <1>4, <2>1, <3>1, <3>2 DEF GraphInv, ResultsSafe
  <2>5. ChecksSafe'
    <3>1. \A c \in checks : Named(c.chain)
      BY <1>1 DEF Typed, Checks, Named
    <3>2. ASSUME NEW c \in checks, NEW k \in Viewers PROVE Named(Append(c.chain, k))
      BY <1>1, <3>1, ChainLonger
    <3>3. \A n : Outgoing(n) \subseteq Viewers
      BY DEF Outgoing, Branches
    <3> QED  BY <1>2, <1>4, <2>1, <3>1, <3>2, <3>3 DEF GraphInv, ChecksSafe, Root
  <2> QED  BY <1>5, <2>3, <2>4, <2>5 DEF GraphInv
<1>7. CASE Verdict(chain) = "branches"
  <2>1. /\ checks' = checks \cup {new} /\ results' = results
        /\ probes' = asked \cup {Append(chain, k) : k \in Outgoing(Self(chain))}
    BY <1>7 DEF Check
  <2>2. Outgoing(Self(chain)) # {} /\ Self(chain) \notin Path(chain)
    BY <1>7 DEF Verdict, ClosesCycle
  <2>3. new \in Checks
    BY <1>1, <1>3 DEF Checks, Typed, Named
  <2>4. \A k \in Outgoing(Self(chain)) : Named(Append(chain, k))
    BY <1>1, <1>3, ChainLonger
  <2>5. Typed'
    <3>1. checks' \subseteq Checks' /\ results' \subseteq Results'
      BY <1>1, <1>2, <2>1, <2>3 DEF Typed, Checks, Results
    <3>2. probes' \subseteq Seq(Viewers)' /\ \A p \in probes' : p # <<>>
      BY <1>2, <2>1, <2>4 DEF Named
    <3>3. \A c \in checks' : c.chain # <<>> /\ c.waiting # {}
      BY <1>1, <2>1, <2>2 DEF Typed, Named
    <3> QED  BY <1>1, <1>2, <2>1, <3>1, <3>2, <3>3 DEF Typed, Stable
  <2>6. ResultsSafe'
    <3>1. \A r \in results : Named(r.chain)
      BY <1>1 DEF Typed, Results, Named
    <3> QED  BY <1>4, <2>1, <3>1 DEF GraphInv, ResultsSafe
  <2>7. ChecksSafe'
    <3> SUFFICES ASSUME NEW c \in checks'
                 PROVE  /\ Self(c.chain)' \notin Path(c.chain)'
                        /\ \A k \in Outgoing(Self(c.chain))' \ c.waiting :
                              k < Root(c.chain) => Safe(Append(c.chain, k))'
      BY DEF ChecksSafe, Root
    <3>1. CASE c = new
      BY <1>2, <1>4, <2>2, <3>1
    <3>2. CASE c \in checks
      <4>1. Named(c.chain)
        BY <1>1, <3>2 DEF Typed, Checks, Named
      <4>2. \A k \in Outgoing(Self(c.chain)) : Named(Append(c.chain, k))
        BY <1>1, <4>1, ChainLonger DEF Outgoing, Branches
      <4> QED  BY <1>2, <1>4, <3>2, <4>1, <4>2 DEF GraphInv, ChecksSafe
    <3> QED  BY <2>1, <3>1, <3>2
  <2> QED  BY <1>5, <2>5, <2>6, <2>7 DEF GraphInv
<1> QED  BY <1>6, <1>7

\* The certificates of all older branches make one for the check that waited.
LEMMA SafeTogether ==
    ASSUME Typed, NEW chain, Named(chain), Self(chain) \notin Path(chain),
           \A k \in Outgoing(Self(chain)) : k < Root(chain) => Safe(Append(chain, k))
    PROVE  Safe(chain)
<1> DEFINE older == {k \in Outgoing(Self(chain)) : k < Root(chain)}
           parts == {T \in SUBSET Nodes : \E k \in older : Certifies(T, Append(chain, k))}
           S == {Self(chain)} \cup UNION parts
<1>1. Self(chain) \in Nodes
  BY ChainParts
<1>2. ASSUME NEW k \in older
      PROVE  /\ k \in Viewers /\ Root(Append(chain, k)) = Root(chain)
             /\ Self(Append(chain, k)) = route[k].to
             /\ Path(chain) \subseteq Path(Append(chain, k))
  BY ChainLonger DEF Outgoing, Branches
<1>3. S \in SUBSET Nodes
  BY <1>1
<1>4. S \cap Path(chain) = {}
  BY <1>2 DEF Certifies
<1>5. ASSUME NEW j \in Viewers, Registered(j), j < Root(chain), route[j].from \in S
      PROVE  route[j].to \in S
  <2>1. CASE route[j].from = Self(chain)
    <3>1. j \in older
      BY <1>5, <2>1 DEF Outgoing, Branches
    <3>2. PICK T \in SUBSET Nodes : Certifies(T, Append(chain, j))
      BY <3>1 DEF Safe
    <3> QED  BY <1>2, <3>1, <3>2 DEF Certifies
  <2>2. CASE \E T \in parts : route[j].from \in T
    <3>1. PICK T \in parts : route[j].from \in T
      BY <2>2
    <3>2. PICK k \in older : Certifies(T, Append(chain, k))
      BY <3>1
    <3>3. route[j].to \in T
      BY <1>2, <1>5, <3>1, <3>2 DEF Certifies
    <3> QED  BY <3>1, <3>3
  <2> QED  BY <1>5, <2>1, <2>2
<1>6. Certifies(S, chain)
  BY <1>4, <1>5 DEF Certifies
<1> HIDE DEF S
<1> QED  BY <1>3, <1>6 DEF Safe

LEMMA BranchEnds ==
    ASSUME GraphInv, NEW c \in checks, NEW r \in results, BranchDone(c, r)
    PROVE  GraphInv'
<1>1. Typed /\ UNCHANGED <<route, stage, revision>>
  BY DEF GraphInv, BranchDone
<1>2. PICK k \in c.waiting :
         /\ r.chain = Append(c.chain, k)
         /\ LET code == IF revision[Self(c.chain)] # c.revision THEN "unavailable" ELSE r.code
                remaining == c.waiting \ {k}
            IN  IF Finished(code, remaining)
                THEN /\ checks' = {d \in checks : d # c /\ ~Below(c.chain, d.chain)}
                     /\ probes' = {q \in probes : ~Below(c.chain, q)}
                     /\ results' = {s \in results : ~Below(c.chain, s.chain)}
                                     \cup {[chain |-> c.chain, code |-> code]}
                ELSE /\ checks' = (checks \ {c}) \cup {[c EXCEPT !.waiting = remaining]}
                     /\ results' = results \ {r}
                     /\ UNCHANGED probes
  BY DEF BranchDone
<1> DEFINE code == IF revision[Self(c.chain)] # c.revision THEN "unavailable" ELSE r.code
           remaining == c.waiting \ {k}
           outcome == [chain |-> c.chain, code |-> code]
           rest == [c EXCEPT !.waiting = remaining]
<1>3. /\ c \in Checks /\ r \in Results /\ Named(c.chain) /\ k \in Viewers
      /\ Self(c.chain) \notin Path(c.chain)
  BY <1>1 DEF Typed, Checks, Named, GraphInv, ChecksSafe
<1>4. Stable
  BY <1>1 DEF Stable, Typed
<1>5. Keeps /\ Viewers' = Viewers /\ \A n : Outgoing(n)' = Outgoing(n)
  BY <1>1, <1>4, StableKeeps
<1>6. \A p : Named(p) => Self(p)' = Self(p) /\ Path(p)' = Path(p) /\ (Safe(p) => Safe(p)')
  BY <1>1, <1>5, SafeStays
<1>7. \A n : Outgoing(n) \subseteq Viewers
  BY DEF Outgoing, Branches
<1>8. \A d \in checks, j \in Viewers : Named(d.chain) /\ Named(Append(d.chain, j))
  BY <1>1, ChainLonger DEF Typed, Checks, Named
<1>9. \A s \in results : Named(s.chain)
  BY <1>1 DEF Typed, Results, Named
<1>10. code = "safe" =>
          \A j \in Outgoing(Self(c.chain)) \ remaining :
             j < Root(c.chain) => Safe(Append(c.chain, j))
  <2>1. code = "safe" => Safe(Append(c.chain, k))
    BY <1>2 DEF GraphInv, ResultsSafe
  <2> QED  BY <2>1 DEF GraphInv, ChecksSafe
<1>11. PassedSafe'
  BY <1>1, <1>5, <1>6, ChainOfOne DEF GraphInv, PassedSafe, Passed
<1>12. ASSUME NEW d \in checks
       PROVE  /\ Self(d.chain)' \notin Path(d.chain)'
              /\ \A j \in Outgoing(Self(d.chain))' \ d.waiting :
                    j < Root(d.chain) => Safe(Append(d.chain, j))'
  <2>1. Self(d.chain)' = Self(d.chain) /\ Path(d.chain)' = Path(d.chain)
    BY <1>6, <1>8, <1>3
  <2>2. ASSUME NEW j \in Outgoing(Self(d.chain)) \ d.waiting, j < Root(d.chain)
        PROVE  Safe(Append(d.chain, j))'
    <3>1. Safe(Append(d.chain, j)) /\ Named(Append(d.chain, j))
      BY <1>7, <1>8, <2>2 DEF GraphInv, ChecksSafe
    <3> QED  BY <1>6, <3>1
  <2>3. Self(d.chain) \notin Path(d.chain)
    BY DEF GraphInv, ChecksSafe
  <2> QED  BY <1>5, <2>1, <2>2, <2>3
<1>13. CASE Finished(code, remaining)
  <2>1. /\ checks' \subseteq checks /\ probes' \subseteq probes
        /\ \A s \in results' : s \in results \/ s = outcome
    BY <1>2, <1>13
  <2>2. outcome \in Results
    BY <1>3 DEF Results, Checks, Codes
  <2>3. Typed'
    <3>1. checks' \subseteq Checks' /\ probes' \subseteq Seq(Viewers)' /\ results' \subseteq Results'
      BY <1>1, <1>5, <2>1, <2>2 DEF Typed, Checks, Results
    <3>2. \A s \in results' : s.chain # <<>>
      BY <1>1, <1>3, <2>1 DEF Typed, Named
    <3> QED  BY <1>1, <1>5, <2>1, <3>1, <3>2 DEF Typed
  <2>4. code = "safe" => Safe(c.chain)
    <3>1. code = "safe" => remaining = {}
      BY <1>13 DEF Finished
    <3> QED  BY <1>1, <1>3, <1>10, <3>1, SafeTogether
  <2>5. ResultsSafe'
    <3>1. ASSUME NEW s \in results', s.code = "safe" PROVE Safe(s.chain)'
      <4>1. CASE s \in results
        BY <1>6, <1>9, <3>1, <4>1 DEF GraphInv, ResultsSafe
      <4>2. CASE s = outcome
        <5>1. s.chain = c.chain /\ code = "safe"
          BY <3>1, <4>2
        <5> QED  BY <1>3, <1>6, <2>4, <5>1
      <4> QED  BY <2>1, <4>1, <4>2
    <3> QED  BY <3>1 DEF ResultsSafe
  <2>6. ChecksSafe'
    BY <1>12, <2>1 DEF ChecksSafe, Root
  <2> QED  BY <1>11, <2>3, <2>5, <2>6 DEF GraphInv
<1>14. CASE ~Finished(code, remaining)
  <2>1. /\ checks' = (checks \ {c}) \cup {rest} /\ results' \subseteq results
        /\ probes' = probes
    BY <1>2, <1>14
  <2>2. code = "safe" /\ remaining # {}
    BY <1>14 DEF Finished
  <2>3. /\ rest \in Checks /\ rest.chain = c.chain /\ rest.waiting = remaining
    BY <1>3 DEF Checks
  <2>4. Typed'
    <3>1. checks' \subseteq Checks' /\ results' \subseteq Results'
      BY <1>1, <1>5, <2>1, <2>3 DEF Typed, Checks, Results
    <3>2. \A d \in checks' : d.chain # <<>> /\ d.waiting # {}
      BY <1>1, <1>3, <2>1, <2>2, <2>3 DEF Typed, Named
    <3> QED  BY <1>1, <1>5, <2>1, <3>1, <3>2 DEF Typed
  <2>5. ResultsSafe'
    BY <1>6, <1>9, <2>1 DEF GraphInv, ResultsSafe
  <2>6. ChecksSafe'
    <3> SUFFICES ASSUME NEW d \in checks'
                 PROVE  /\ Self(d.chain)' \notin Path(d.chain)'
                        /\ \A j \in Outgoing(Self(d.chain))' \ d.waiting :
                              j < Root(d.chain) => Safe(Append(d.chain, j))'
      BY DEF ChecksSafe, Root
    <3>1. CASE d = rest
      <4>1. Self(c.chain)' = Self(c.chain) /\ Path(c.chain)' = Path(c.chain)
        BY <1>3, <1>6
      <4>2. ASSUME NEW j \in Outgoing(Self(c.chain)) \ remaining, j < Root(c.chain)
            PROVE  Safe(Append(c.chain, j))'
        <5>1. Safe(Append(c.chain, j)) /\ Named(Append(c.chain, j))
          BY <1>7, <1>8, <1>10, <2>2, <4>2
        <5> QED  BY <1>6, <5>1
      <4> HIDE DEF rest, remaining
      <4> QED  BY <1>3, <1>5, <2>3, <3>1, <4>1, <4>2
    <3>2. CASE d \in checks
      BY <1>12, <3>2
    <3> QED  BY <2>1, <3>1, <3>2
  <2> QED  BY <1>11, <2>4, <2>5, <2>6 DEF GraphInv
<1> QED  BY <1>13, <1>14

-----------------------------------------------------------------------------
(* The other steps                                                         *)

LEMMA Initially == ASSUME GraphConstants, Init PROVE GraphInv
<1>1. Typed
  BY EmptySeq DEF Init, Typed, Viewers, GraphConstants
<1>2. Viewers = {}
  BY DEF Init, Viewers
<1> QED  BY <1>1, <1>2 DEF Init, GraphInv, ResultsSafe, ChecksSafe, PassedSafe

LEMMA ReserveStep ==
    ASSUME GraphInv, NEW a \in Nodes, NEW b \in Nodes, Reserve(a, b)
    PROVE  GraphInv'
<1>1. Typed
  BY DEF GraphInv
<1> DEFINE edge == [from |-> a, to |-> b]
<1>2. /\ route' = Append(route, edge) /\ stage' = Append(stage, "reserved")
      /\ UNCHANGED <<checks, probes, results>> /\ Len(route) < MaxAttempts
  BY DEF Reserve
<1>3. stage \in Seq(Stages) /\ Len(stage) = Len(route) /\ Len(route) \in Nat
  BY <1>1, IsASeq, LenProperties DEF Typed, Viewers
<1>4. /\ route' \in Seq(Edges) /\ Len(route') = Len(route) + 1
      /\ \A j \in 1..Len(route) : route'[j] = route[j]
  BY <1>1, <1>2, AppendProperties DEF Typed, Edges
<1>5. /\ Len(stage') = Len(route) + 1 /\ stage'[Len(route) + 1] = "reserved"
      /\ \A j \in 1..Len(route) : stage'[j] = stage[j]
      /\ stage' \in [1..(Len(route) + 1) -> Stages]
  <2>1. /\ stage' \in Seq(Stages) /\ Len(stage') = Len(route) + 1
        /\ stage'[Len(route) + 1] = "reserved"
        /\ \A j \in 1..Len(route) : stage'[j] = stage[j]
    BY <1>2, <1>3, AppendProperties DEF Stages
  <2>2. stage' \in [1..Len(stage') -> Stages]
    BY <2>1, LenProperties
  <2> QED  BY <2>1, <2>2
<1>6. Viewers' = Viewers \cup {Len(route) + 1} /\ Len(route) + 1 \notin Viewers
  BY <1>3, <1>4 DEF Viewers
<1>7. Keeps
  BY <1>3, <1>4, <1>5 DEF Keeps, Viewers
<1>8. Typed'
  <2>1. revision' \in [Nodes -> Nat]
    BY <1>1 DEF Typed, Reserve
  <2>2. Len(route') <= MaxAttempts
    BY <1>2, <1>3, <1>4, GraphConstants DEF GraphConstants
  <2>3. Seq(Viewers) \subseteq Seq(Viewers')
    BY <1>6
  <2>4. checks' \subseteq Checks' /\ probes' \subseteq Seq(Viewers)' /\ results' \subseteq Results'
    BY <1>1, <1>2, <1>6, <2>3 DEF Typed, Checks, Results
  <2>5. stage' \in [Viewers' -> Stages]
    BY <1>3, <1>4, <1>5 DEF Viewers
  <2> QED  BY <1>1, <1>2, <1>4, <2>1, <2>2, <2>4, <2>5 DEF Typed
<1>9. \A n, k : k \in Viewers /\ k \in Outgoing(n)' => k \in Outgoing(n)
  BY <1>4, <1>5 DEF Outgoing, Branches, Registered, Viewers
<1>10. \A k \in Viewers' : Passed(k)' => k \in Viewers /\ Passed(k)
  BY <1>5, <1>6 DEF Passed, Viewers
<1> QED  BY <1>2, <1>7, <1>8, <1>9, <1>10, PartsStay

LEMMA CloseStep == ASSUME GraphInv, NEW k \in Viewers, Close(k) PROVE GraphInv'
<1>1. Typed
  BY DEF GraphInv
<1>2. /\ route' = route /\ stage' = [stage EXCEPT ![k] = "closed"]
      /\ checks' \subseteq checks /\ probes' \subseteq probes /\ results' \subseteq results
      /\ revision' = [revision EXCEPT ![route[k].from] = @ + 1]
  BY DEF Close
<1>3. Len(route) \in Nat /\ Viewers' = Viewers
  BY <1>1, <1>2 DEF Typed, Viewers
<1>4. /\ stage' \in [Viewers -> Stages]
      /\ \A j \in Viewers : stage'[j] = "closed" \/ stage'[j] = stage[j]
  BY <1>1, <1>2 DEF Typed, Stages
<1>5. Typed'
  <2>1. revision' \in [Nodes -> Nat]
    <3>1. revision \in [Nodes -> Nat] /\ route[k].from \in Nodes
      <4>1. route[k] \in Edges
        BY <1>1 DEF Typed, Viewers
      <4> QED  BY <1>1, <4>1 DEF Typed, Edges
    <3>2. revision[route[k].from] + 1 \in Nat
      BY <3>1
    <3> QED  BY <1>2, <3>1, <3>2
  <2>2. Checks' = Checks /\ Results' = Results
    BY <1>3 DEF Checks, Results
  <2> QED  BY <1>1, <1>2, <1>3, <1>4, <2>1, <2>2 DEF Typed
<1>6. Keeps
  BY <1>2, <1>3, <1>4 DEF Keeps
<1>7. \A n, j : j \in Viewers /\ j \in Outgoing(n)' => j \in Outgoing(n)
  BY <1>2, <1>4 DEF Outgoing, Branches, Registered
<1>8. \A j \in Viewers' : Passed(j)' => j \in Viewers /\ Passed(j)
  BY <1>3, <1>4 DEF Passed
<1> QED  BY <1>2, <1>5, <1>6, <1>7, <1>8, PartsStay

LEMMA AskStep == ASSUME GraphInv, NEW k \in Viewers, Ask(k) PROVE GraphInv'
<1>1. Typed
  BY DEF GraphInv
<1>2. /\ stage[k] = "reserved" /\ stage' = [stage EXCEPT ![k] = "asking"]
      /\ UNCHANGED <<route, revision>> /\ Check(<<k>>, probes)
  BY DEF Ask
<1>3. Stable /\ \A j \in Viewers : Passed(j)' => Passed(j)
  BY <1>1, <1>2 DEF Stable, Typed, Stages, Passed
<1>4. Named(<<k>>) /\ probes \subseteq Seq(Viewers) /\ \A p \in probes : p # <<>>
  BY <1>1, ChainOfOne DEF Typed
<1> QED  BY <1>2, <1>3, <1>4, CheckBegins

LEMMA ServeStep ==
    ASSUME GraphInv, NEW chain \in probes, ServeProbe(chain)
    PROVE  GraphInv'
<1>1. Typed /\ UNCHANGED <<route, stage, revision>> /\ Check(chain, probes \ {chain})
  BY DEF GraphInv, ServeProbe
<1>2. Stable /\ \A j \in Viewers : Passed(j)' => Passed(j)
  BY <1>1 DEF Stable, Typed, Passed
<1>3. Named(chain) /\ probes \ {chain} \subseteq Seq(Viewers) /\ \A p \in probes \ {chain} : p # <<>>
  BY <1>1 DEF Typed, Named
<1> HIDE DEF Named
<1> QED  BY <1>1, <1>2, <1>3, CheckBegins

LEMMA FailStep ==
    ASSUME GraphInv, NEW chain \in probes, ProbeFails(chain)
    PROVE  GraphInv'
<1> DEFINE outcome == [chain |-> chain, code |-> "unavailable"]
<1>1. /\ Typed /\ UNCHANGED <<route, stage, revision, checks>>
      /\ results' = results \cup {outcome} /\ probes' \subseteq probes
  BY DEF GraphInv, ProbeFails
<1>2. outcome \in Results /\ chain # <<>>
  BY <1>1 DEF Typed, Results, Codes
<1>3. Viewers' = Viewers
  BY <1>1 DEF Viewers
<1>4. Typed'
  <2>1. Checks' = Checks /\ Results' = Results
    BY <1>3 DEF Checks, Results
  <2>2. \A r \in results' : r.chain # <<>>
    BY <1>1, <1>2 DEF Typed
  <2> QED  BY <1>1, <1>2, <1>3, <2>1, <2>2 DEF Typed
<1>5. \A p : Safe(p)' = Safe(p)
  BY <1>1, <1>3 DEF Safe, Certifies, Self, Last, Path, Root, Registered
<1>6. ResultsSafe' /\ PassedSafe'
  BY <1>1, <1>3, <1>5 DEF GraphInv, ResultsSafe, PassedSafe, Passed
<1>7. ChecksSafe'
  BY <1>1, <1>3, <1>5 DEF GraphInv, ChecksSafe, Self, Last, Path, Root, Outgoing, Branches, Registered
<1> QED  BY <1>4, <1>6, <1>7 DEF GraphInv

LEMMA AdmitStep == ASSUME GraphInv, NEW k \in Viewers, Admit(k) PROVE GraphInv'
<1>1. Typed
  BY DEF GraphInv
<1>2. /\ UNCHANGED <<route, revision, checks, probes, results>>
      /\ stage[k] = "cleared"
      /\ stage' = [j \in Viewers |->
            IF j = k THEN "admitted"
            ELSE IF stage[j] = "admitted" /\ route[j].to = route[k].to THEN "refused"
            ELSE stage[j]]
  BY DEF Admit
<1>3. Stable /\ \A j \in Viewers : Passed(j)' => Passed(j)
  BY <1>1, <1>2 DEF Stable, Typed, Stages, Passed
<1>4. Keeps /\ Viewers' = Viewers /\ \A n : Outgoing(n)' = Outgoing(n)
  BY <1>1, <1>3, StableKeeps
<1>5. Typed'
  BY <1>1, <1>2, <1>3, <1>4 DEF Typed, Stable, Checks, Results
<1> QED  BY <1>2, <1>3, <1>4, <1>5, PartsStay

LEMMA DecideStep == ASSUME GraphInv, NEW k \in Viewers, Decide(k) PROVE GraphInv'
<1>1. Typed
  BY DEF GraphInv
<1>2. PICK r \in results :
         /\ r.chain = <<k>> /\ results' = results \ {r}
         /\ stage' = [stage EXCEPT ![k] = IF r.code = "safe" THEN "cleared" ELSE "refused"]
  BY DEF Decide
<1>3. stage[k] = "asking" /\ UNCHANGED <<route, revision, checks, probes>>
  BY DEF Decide
<1>4. Stable
  BY <1>1, <1>2, <1>3 DEF Stable, Typed, Stages
<1>5. Keeps /\ Viewers' = Viewers /\ \A n : Outgoing(n)' = Outgoing(n)
  BY <1>1, <1>4, StableKeeps
<1>6. Typed'
  BY <1>1, <1>2, <1>3, <1>4, <1>5 DEF Typed, Stable, Checks, Results
<1>7. \A p : Named(p) => Self(p)' = Self(p) /\ Path(p)' = Path(p) /\ (Safe(p) => Safe(p)')
  BY <1>1, <1>5, SafeStays
<1>8. ResultsSafe'
  BY <1>1, <1>2, <1>7 DEF GraphInv, ResultsSafe, Typed, Results, Named
<1>9. ASSUME NEW c \in checks
      PROVE  /\ Self(c.chain)' \notin Path(c.chain)'
             /\ \A j \in Outgoing(Self(c.chain))' \ c.waiting :
                   j < Root(c.chain) => Safe(Append(c.chain, j))'
  <2>1. Named(c.chain) /\ \A j \in Viewers : Named(Append(c.chain, j))
    BY <1>1, ChainLonger DEF Typed, Checks, Named
  <2>2. Self(c.chain)' = Self(c.chain) /\ Path(c.chain)' = Path(c.chain)
    BY <1>7, <2>1
  <2>3. ASSUME NEW j \in Outgoing(Self(c.chain)) \ c.waiting, j < Root(c.chain)
        PROVE  Safe(Append(c.chain, j))'
    <3>1. Safe(Append(c.chain, j)) /\ Named(Append(c.chain, j))
      BY <2>1, <2>3 DEF GraphInv, ChecksSafe, Outgoing, Branches
    <3> QED  BY <1>7, <3>1
  <2>4. Self(c.chain) \notin Path(c.chain)
    BY DEF GraphInv, ChecksSafe
  <2> QED  BY <1>5, <2>2, <2>3, <2>4
<1>10. PassedSafe'
  <2> SUFFICES ASSUME NEW j \in Viewers', Passed(j)' PROVE Safe(<<j>>)'
    BY DEF PassedSafe
  <2>1. j \in Viewers /\ Named(<<j>>)
    BY <1>1, <1>5, ChainOfOne
  <2>2. CASE j = k
    <3>1. r.code = "safe"
      BY <1>1, <1>2, <2>2 DEF Passed, Typed
    <3> QED  BY <1>2, <1>7, <2>1, <2>2, <3>1 DEF GraphInv, ResultsSafe
  <2>3. CASE j # k
    <3>1. Passed(j)
      BY <1>1, <1>2, <2>1, <2>3 DEF Passed, Typed
    <3> QED  BY <1>7, <2>1, <3>1 DEF GraphInv, PassedSafe
  <2> QED  BY <2>2, <2>3
<1> QED  BY <1>3, <1>6, <1>8, <1>9, <1>10 DEF GraphInv, ChecksSafe, Root

LEMMA Idles == ASSUME GraphInv, UNCHANGED vars PROVE GraphInv'
<1>1. /\ UNCHANGED <<route, stage, revision, checks, probes, results>> /\ Viewers' = Viewers
  BY DEF vars, Viewers
<1>2. \A p : Safe(p)' = Safe(p)
  BY <1>1 DEF Safe, Certifies, Self, Last, Path, Root, Registered
<1>3. Typed'
  BY <1>1 DEF GraphInv, Typed, Checks, Results
<1>4. ResultsSafe' /\ PassedSafe'
  BY <1>1, <1>2 DEF GraphInv, ResultsSafe, PassedSafe, Passed
<1>5. ChecksSafe'
  BY <1>1, <1>2 DEF GraphInv, ChecksSafe, Self, Last, Path, Root, Outgoing, Branches, Registered
<1> QED  BY <1>3, <1>4, <1>5 DEF GraphInv

THEOREM GraphInvariant == Spec => []GraphInv
<1>1. Init => GraphInv
  BY Initially, GraphConstants
<1>2. GraphInv /\ [Next]_vars => GraphInv'
  <2> SUFFICES ASSUME GraphInv, [Next]_vars PROVE GraphInv'
    OBVIOUS
  <2>1. CASE \E a, b \in Nodes : Reserve(a, b)
    BY <2>1, ReserveStep
  <2>2. CASE \E k \in Viewers : Ask(k)
    BY <2>2, AskStep
  <2>3. CASE \E k \in Viewers : Admit(k)
    BY <2>3, AdmitStep
  <2>4. CASE \E k \in Viewers : Close(k)
    BY <2>4, CloseStep
  <2>5. CASE CheckStep
    <3>1. CASE \E chain \in probes : ServeProbe(chain)
      BY <3>1, ServeStep
    <3>2. CASE \E chain \in probes : ProbeFails(chain)
      BY <3>2, FailStep
    <3>3. CASE \E c \in checks, r \in results : BranchDone(c, r)
      BY <3>3, BranchEnds
    <3>4. CASE \E k \in Viewers : Decide(k)
      BY <3>4, DecideStep
    <3> QED  BY <2>5, <3>1, <3>2, <3>3, <3>4 DEF CheckStep
  <2>6. CASE UNCHANGED vars
    BY <2>6, Idles
  <2> QED  BY <2>1, <2>2, <2>3, <2>4, <2>5, <2>6 DEF Next
<1> QED  BY <1>1, <1>2, PTL DEF Spec

-----------------------------------------------------------------------------
(* Results                                                                 *)

\* Type correctness (TypeOK of SessionGraph).
THEOREM GraphTyped == Spec => []TypeOK
<1>1. ASSUME Typed PROVE TypeOK
  <2>1. Viewers \subseteq Nat \ {0}
    BY DEF Viewers
  <2>2. \A S : Viewers \subseteq S => Seq(Viewers) \subseteq Seq(S)
    OBVIOUS
  <2>3. Seq(Viewers) \subseteq Chains
    BY <2>1, <2>2 DEF Chains
  <2> QED  BY <1>1, <2>3 DEF Typed, TypeOK, Checks, Results
<1>2. GraphInv => TypeOK
  BY <1>1 DEF GraphInv
<1> QED  BY <1>2, GraphInvariant, PTL

LEMMA LargestExists ==
    ASSUME NEW n \in Nat, NEW E \in SUBSET (1..n), E # {}
    PROVE  \E k \in E : \A j \in E : j <= k
<1> DEFINE above(i) == {j \in E : i <= j}
           T == {above(i) : i \in E}
<1>1. IsFiniteSet(1..n)
  BY FS_Interval
<1>2. T \subseteq FiniteSubsetsOf(1..n) /\ T # {}
  <2>1. ASSUME NEW i \in E PROVE above(i) \in SUBSET (1..n) /\ IsFiniteSet(above(i))
    BY <1>1, FS_Subset
  <2> QED  BY <2>1 DEF FiniteSubsetsOf
<1>3. PICK F \in T : \A G \in T : ~ (<<G, F>> \in StrictSubsetOrdering(1..n))
  <2> HIDE DEF T
  <2> QED  BY <1>2, FS_StrictSubsetOrderingWellFounded, WFMin
<1>4. PICK k \in E : F = above(k)
  OBVIOUS
<1>5. ASSUME NEW j \in E, ~(j <= k) PROVE FALSE
  <2>1. j \in Int /\ k \in Int /\ \A i \in E : i \in Int
    OBVIOUS
  <2>2. ASSUME NEW i \in E, j <= i PROVE k <= i
    BY <1>5, <2>1, <2>2
  <2>3. above(j) \subseteq above(k) /\ above(j) # above(k)
    <3>1. k <= k /\ ~(j <= k)
      BY <1>5, <2>1
    <3>2. k \in above(k) /\ k \notin above(j)
      BY <3>1
    <3>3. above(j) \subseteq above(k)
      BY <2>2
    <3> QED  BY <3>2, <3>3
  <2>4. above(j) \in SUBSET (1..n) /\ above(k) \in SUBSET (1..n)
    OBVIOUS
  <2>5. <<above(j), above(k)>> \in StrictSubsetOrdering(1..n)
    <3> HIDE DEF above
    <3> QED  BY <2>3, <2>4 DEF StrictSubsetOrdering
  <2> QED  BY <1>3, <1>4, <2>5
<1> QED  BY <1>5

\* The edges of the viewers that have passed, between desktops of S.
Inner(S) == {k \in Viewers : Passed(k) /\ route[k].from \in S /\ route[k].to \in S}

\* Every desktop of S views another one of S.
Cyclic(S) == S # {} /\ \A n \in S : \E k \in Inner(S) : route[k].from = n

\* The certificate of the youngest inner edge splits a cyclic set: the part that
\* it certifies is cyclic as well, without that edge.
LEMMA CycleShrinks ==
    ASSUME GraphInv, NEW S \in SUBSET Nodes, Cyclic(S)
    PROVE  \E U \in SUBSET Nodes : Cyclic(U) /\ Inner(U) \subseteq Inner(S) /\ Inner(U) # Inner(S)
<1>1. Typed /\ Len(route) \in Nat /\ Inner(S) \subseteq 1..Len(route) /\ Inner(S) # {}
  <2>1. Typed /\ Len(route) \in Nat
    BY DEF GraphInv, Typed
  <2>2. Inner(S) \subseteq 1..Len(route)
    BY DEF Inner, Viewers
  <2>3. Inner(S) # {}
    BY DEF Cyclic
  <2> QED  BY <2>1, <2>2, <2>3
<1>2. PICK k \in Inner(S) : \A j \in Inner(S) : j <= k
  BY <1>1, LargestExists
<1>3. k \in Viewers /\ Passed(k) /\ route[k].from \in S /\ route[k].to \in S
  BY DEF Inner
<1>4. PICK C \in SUBSET Nodes : Certifies(C, <<k>>)
  BY <1>3 DEF GraphInv, PassedSafe, Safe
<1>5. /\ route[k].to \in C /\ route[k].from \notin C
      /\ \A j \in Viewers : Registered(j) /\ j < k /\ route[j].from \in C => route[j].to \in C
  BY <1>1, <1>3, <1>4, ChainOfOne DEF Certifies
<1> DEFINE U == S \cap C
<1>6. ASSUME NEW n \in U PROVE \E j \in Inner(U) : route[j].from = n
  <2>1. PICK j \in Inner(S) : route[j].from = n
    BY DEF Cyclic
  <2>2. j # k /\ j \in Viewers /\ Passed(j) /\ route[j].to \in S
    BY <1>5, <2>1 DEF Inner
  <2>3. j < k
    BY <1>1, <1>2, <2>2
  <2>4. route[j].to \in C
    BY <1>5, <2>1, <2>2, <2>3 DEF Registered, Passed
  <2> QED  BY <2>1, <2>2, <2>4 DEF Inner
<1>7. Cyclic(U)
  BY <1>3, <1>5, <1>6 DEF Cyclic
<1>8. Inner(U) \subseteq Inner(S) /\ k \notin Inner(U)
  BY <1>5 DEF Inner
<1> QED  BY <1>7, <1>8

LEMMA NoCycle == ASSUME GraphInv PROVE ClearedAcyclic
<1>1. Typed /\ Len(route) \in Nat
  BY DEF GraphInv, Typed
<1> DEFINE T == {Inner(S) : S \in {R \in SUBSET Nodes : Cyclic(R)}}
<1>2. T \subseteq FiniteSubsetsOf(Viewers)
  <2>1. IsFiniteSet(Viewers)
    BY <1>1, FS_Interval DEF Viewers
  <2>2. ASSUME NEW S PROVE Inner(S) \in SUBSET Viewers /\ IsFiniteSet(Inner(S))
    BY <2>1, FS_Subset DEF Inner
  <2> QED  BY <2>2 DEF FiniteSubsetsOf
<1>3. ASSUME NEW S \in SUBSET Nodes, Cyclic(S) PROVE FALSE
  <2>1. T # {}
    BY <1>3
  <2>2. PICK F \in T : \A G \in T : ~ (<<G, F>> \in StrictSubsetOrdering(Viewers))
    <3> HIDE DEF T
    <3> QED  BY <1>2, <2>1, FS_StrictSubsetOrderingWellFounded, WFMin
  <2>3. PICK R \in SUBSET Nodes : Cyclic(R) /\ F = Inner(R)
    OBVIOUS
  <2>4. PICK U \in SUBSET Nodes :
           Cyclic(U) /\ Inner(U) \subseteq Inner(R) /\ Inner(U) # Inner(R)
    BY <2>3, CycleShrinks
  <2>5. Inner(U) \in SUBSET Viewers /\ Inner(R) \in SUBSET Viewers
    BY DEF Inner
  <2>6. <<Inner(U), Inner(R)>> \in StrictSubsetOrdering(Viewers)
    BY <2>4, <2>5 DEF StrictSubsetOrdering
  <2> QED  BY <2>2, <2>3, <2>4, <2>6
<1>4. ASSUME NEW S \in SUBSET Nodes, S # {}
      PROVE  \E n \in S : \A k \in Viewers : Passed(k) /\ route[k].from = n => route[k].to \notin S
  <2>1. PICK n \in S : \A k \in Inner(S) : route[k].from # n
    BY <1>3, <1>4 DEF Cyclic
  <2> QED  BY <2>1 DEF Inner
<1> QED  BY <1>4 DEF ClearedAcyclic, Passed

\* However checks of several desktops interleave, the viewers that have passed
\* theirs never form a cycle (ClearedAcyclic of SessionGraph).
THEOREM GraphStaysAcyclic == Spec => []ClearedAcyclic
<1>1. GraphInv => ClearedAcyclic
  BY NoCycle
<1> QED  BY <1>1, GraphInvariant, PTL
=============================================================================

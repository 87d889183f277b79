------------------------- MODULE HostDisplay_proofs -------------------------
(***************************************************************************)
(* The display control is safe for any connections, any number of requests *)
(* and any capacity of the pipes below the range of the wire sequence:     *)
(* proofs of TypeOK, QueuedHasController, WorkspaceIsControllers and       *)
(* SettledMeansRestored for HostDisplay.                                   *)
(*                                                                         *)
(* What the two properties about workspaces rest on is that the lines in   *)
(* the pipes carry the last wire numbers in order (`PipesOrdered'), so that *)
(* an acknowledgment that matches is that of the last line, after which    *)
(* the pipes are empty; and that the last line belongs to whom the         *)
(* outstanding request will be reported to (`LastIsAnswered').             *)
(*                                                                         *)
(* The lemmas serve two systems.  In one of them `other', who is no        *)
(* connection, uses the display too, with numbers above MaxResizes and up  *)
(* to `top'.  HostDisplay alone is the case of no such numbers.            *)
(***************************************************************************)
EXTENDS HostDisplay, SequenceTheorems, TLAPS

\* The types of the display control that `other' shares, with numbers up to top.
WellTyped(top, other) ==
    /\ top \in Nat /\ MaxResizes <= top
    /\ link \in [Links -> {"open", "ended", "dropped"}]
    /\ displayLink \in Links \cup {NoLink}
    /\ displayLink # NoLink => link[displayLink] = "open"
    /\ linkSequence \in [Links -> 0..MaxResizes]
    /\ sent \in [Links -> 0..MaxResizes]
    /\ told \in [Links -> {"nothing", "ok", "error"}]
    /\ sequence \in Restore..top
    /\ wire \in 0..WireMax
    /\ queued \in [link : Links \cup {other}, seq : 1..top] \cup {NoRequest}
    /\ queued.seq \in 1..MaxResizes => queued.link \in Links
    /\ restoreArmed \in BOOLEAN
    /\ toHelper \in Seq([wire : 1..WireMax, owner : Links \cup {other, Physical}])
    /\ fromHelper \in Seq([wire : 1..WireMax, okay : BOOLEAN])
    /\ workspace \in Links \cup {other, Physical, Disturbed}
    /\ barrier \in {"none", "waiting", "restored", "failed"}
    /\ trustBusy \in BOOLEAN
    /\ hostState \in {"up", "stopping", "down"}
    /\ stops \in 0..MaxStops

\* Only the controller's request, or the other's while there is none, waits, and
\* behind a restoration.
QueueIsOwned(other) ==
    queued # NoRequest =>
        /\ sequence = Restore
        /\ displayLink # NoLink <=> queued.seq <= MaxResizes
        /\ queued.seq > MaxResizes => queued.link = other

Pending == Len(toHelper) + Len(fromHelper)

\* The wire number that was given out j requests before w.
Back(w, j) == IF w > j THEN w - j ELSE w - j + WireMax

\* The pipes hold the last requests, oldest first.
PipesOrdered ==
    /\ Pending <= MaxBacklog
    /\ Pending > 0 => wire > 0
    /\ \A i \in 1..Len(toHelper) : toHelper[i].wire = Back(wire, Len(toHelper) - i)
    /\ \A i \in 1..Len(fromHelper) : fromHelper[i].wire = Back(wire, Pending - i)

\* A request that is outstanding has not been acknowledged.
OutstandingIsPending == sequence # 0 => Pending > 0

\* The last request in the pipes shows o its workspace, when it succeeds.
LastShows(o) ==
    /\ toHelper # <<>> => toHelper[Len(toHelper)].owner = o
    /\ toHelper = <<>> /\ fromHelper # <<>> /\ fromHelper[Len(fromHelper)].okay => workspace = o

\* The outstanding request is of the controller that will be told of its end, or
\* of the other.
LastIsAnswered(other) ==
    /\ sequence < 0 => LastShows(Physical)
    /\ displayLink # NoLink /\ sequence > 0 /\ linkSequence[displayLink] = sequence =>
          LastShows(displayLink)
    /\ sequence > MaxResizes => LastShows(other)

\* The queued request is its controller's, or of one that a resume has replaced.
QueueIsControllers ==
    queued # NoRequest /\ displayLink # NoLink /\ linkSequence[displayLink] # 0 =>
        queued.link = displayLink

\* A connection is told and awaits something only as the controller.
OnlyControllerWaits ==
    \A l \in Links : link[l] = "open" /\ l # displayLink =>
        linkSequence[l] = 0 /\ told[l] = "nothing"

\* A resize of a controller that has stayed is not followed by a restoration.
TimerIsOutdated == displayLink # NoLink /\ sequence > 0 => ~restoreArmed

\* A controller whose resize has succeeded is at rest with its workspace.
ControllerAtRest ==
    displayLink # NoLink /\ told[displayLink] = "ok" /\ linkSequence[displayLink] = 0 =>
        /\ workspace = displayLink
        /\ Pending = 0 /\ sequence = 0 /\ ~restoreArmed

\* A host that stops controls no display.
StoppedIsIdle ==
    hostState # "up" => displayLink = NoLink /\ sequence = 0 /\ queued = NoRequest

DisplayInv(top, other) ==
    /\ WellTyped(top, other)
    /\ QueueIsOwned(other)
    /\ PipesOrdered
    /\ OutstandingIsPending
    /\ LastIsAnswered(other)
    /\ QueueIsControllers
    /\ OnlyControllerWaits
    /\ TimerIsOutdated
    /\ ControllerAtRest
    /\ StoppedIsIdle

USE DEF Pending

-----------------------------------------------------------------------------
(* The pipes.                                                              *)

\* The null pointer is no connection, and wire numbers do not repeat in the pipes.
LEMMA Bounds ==
    /\ NoLink \notin Links
    /\ MaxBacklog \in Nat /\ MaxBacklog > 0
    /\ WireMax \in Nat /\ WireMax > MaxBacklog
    /\ MaxResizes \in Nat /\ MaxStops \in Nat
    /\ NoRequest.seq = 0 /\ NoRequest.link = NoLink
BY DisplayConstants DEF NoRequest

\* The controllers' numbers are the lower ones.
LEMMA Numbers ==
    ASSUME NEW top, NEW other, DisplayInv(top, other)
    PROVE  /\ top \in Nat /\ MaxResizes <= top /\ sequence \in Restore..top
           /\ WellTyped(top, other)
BY DEF DisplayInv, WellTyped

\* Reading the first line of a pipe.
LEMMA Reading ==
    ASSUME NEW S, NEW s \in Seq(S)
    PROVE  /\ Len(s) \in Nat /\ (s = <<>> <=> Len(s) = 0)
           /\ s # <<>> => /\ Head(s) = s[1] /\ s[1] \in S /\ s[Len(s)] \in S
                          /\ Tail(s) \in Seq(S) /\ Len(Tail(s)) = Len(s) - 1
                          /\ \A i \in 1..Len(Tail(s)) : Tail(s)[i] = s[i + 1]
BY HeadTailProperties, EmptySeq

\* Adding a line at the end of a pipe.
LEMMA Writing ==
    ASSUME NEW S, NEW s \in Seq(S), NEW e \in S
    PROVE  /\ Append(s, e) \in Seq(S) /\ Len(Append(s, e)) = Len(s) + 1
           /\ Append(s, e) # <<>> /\ Append(s, e)[Len(s) + 1] = e
           /\ \A i \in 1..Len(s) : Append(s, e)[i] = s[i]
OBVIOUS

\* What the two pipes carry.
Requested(other) == [wire : 1..WireMax, owner : Links \cup {other, Physical}]
Answered  == [wire : 1..WireMax, okay : BOOLEAN]

\* A step in the numbering moves every earlier number back by one.
LEMMA NextIsAhead ==
    ASSUME wire \in 1..WireMax, NEW j \in Nat, j < WireMax
    PROVE  Back(NextWire, j + 1) = Back(wire, j)
BY Bounds DEF Back, NextWire

\* The last number is that of no earlier line.
LEMMA BackIsOther ==
    ASSUME NEW w \in 1..WireMax, NEW j \in Nat, 0 < j, j < WireMax
    PROVE  Back(w, j) # w
BY Bounds DEF Back

\* A request that is sent is the last in the pipes; a line may be read meanwhile.
LEMMA TransmitKeepsOrder ==
    ASSUME NEW top, NEW other, WellTyped(top, other),
           PipesOrdered, NEW seq, NEW o \in Links \cup {other, Physical},
           Transmit(seq, o),
           fromHelper' = fromHelper \/ (fromHelper # <<>> /\ fromHelper' = Tail(fromHelper))
    PROVE  PipesOrdered' /\ Pending' > 0 /\ LastShows(o)'
<1>1. toHelper \in Seq(Requested(other)) /\ fromHelper \in Seq(Answered)
    BY DEF WellTyped, Requested, Answered
<1>2. /\ wire' = NextWire /\ wire' \in 1..WireMax
      /\ Len(toHelper) \in Nat /\ Len(fromHelper) \in Nat
      /\ Len(toHelper) + Len(fromHelper) < MaxBacklog
    BY <1>1, Reading, Bounds DEF Transmit, NextWire, WellTyped
<1>3. /\ toHelper' \in Seq(Requested(other)) /\ toHelper' # <<>>
      /\ Len(toHelper') = Len(toHelper) + 1
      /\ \A i \in 1..Len(toHelper) : toHelper'[i] = toHelper[i]
      /\ toHelper'[Len(toHelper')] = [wire |-> NextWire, owner |-> o]
  <2>1. [wire |-> NextWire, owner |-> o] \in Requested(other)
    BY <1>2 DEF Requested
  <2> QED
    BY <2>1, <1>1, Writing DEF Transmit
<1>4. /\ Len(fromHelper') \in Nat
      /\ Len(fromHelper') <= Len(fromHelper)
      /\ fromHelper' # fromHelper =>
            /\ Len(fromHelper') = Len(fromHelper) - 1
            /\ \A i \in 1..Len(fromHelper') : fromHelper'[i] = fromHelper[i + 1]
    BY <1>1, <1>2, Reading
<1>5. ASSUME NEW i \in 1..Len(toHelper')
      PROVE  toHelper'[i].wire = Back(wire', Len(toHelper') - i)
  <2>1. CASE i = Len(toHelper')
    BY <2>1, <1>3, <1>2 DEF Back
  <2>2. CASE i # Len(toHelper')
    <3>1. i \in 1..Len(toHelper)
        BY <2>2, <1>3, <1>2
    <3>2. wire \in 1..WireMax /\ Len(toHelper) - i \in Nat /\ Len(toHelper) - i < WireMax
      <4>1. WireMax \in Nat /\ WireMax > MaxBacklog /\ MaxBacklog \in Nat
        BY Bounds
      <4>2. wire \in 0..WireMax
        BY DEF WellTyped
      <4>3. wire > 0
        BY <3>1, <1>2 DEF PipesOrdered
      <4>4. Len(toHelper) < MaxBacklog
        BY <1>2, <4>1
      <4> QED  BY <3>1, <1>2, <4>1, <4>2, <4>3, <4>4
    <3>3. toHelper[i].wire = Back(wire, Len(toHelper) - i)
        BY <3>1 DEF PipesOrdered
    <3>4. Back(wire', (Len(toHelper) - i) + 1) = Back(wire, Len(toHelper) - i)
        BY <3>2, <1>2, NextIsAhead
    <3> QED
        BY <3>1, <3>3, <3>4, <1>3, <1>2
  <2> QED
    BY <2>1, <2>2
<1>6. ASSUME NEW i \in 1..Len(fromHelper')
      PROVE  fromHelper'[i].wire = Back(wire', Pending' - i)
  <2> DEFINE k == IF fromHelper' = fromHelper THEN i ELSE i + 1
  <2>1. /\ k \in 1..Len(fromHelper) /\ fromHelper'[i] = fromHelper[k]
        /\ Len(fromHelper') - i = Len(fromHelper) - k
    <3>1. CASE fromHelper' = fromHelper
        BY <3>1, <1>2
    <3>2. CASE fromHelper' # fromHelper
        <4>1. i \in 1..Len(fromHelper') /\ k = i + 1
            BY <3>2
        <4>2. fromHelper'[i] = fromHelper[i + 1] /\ Len(fromHelper') = Len(fromHelper) - 1
            BY <4>1, <3>2, <1>4
        <4> QED
            BY <4>1, <4>2, <1>2
    <3> QED
        BY <3>1, <3>2
  <2>2. /\ wire \in 1..WireMax /\ Pending - k \in Nat /\ Pending - k < WireMax
    <3> HIDE DEF k
    <3>1. k \in Int /\ 1 <= k /\ k <= Len(fromHelper)
        BY <2>1, <1>2
    <3>2. wire > 0 /\ wire \in 0..WireMax
        BY <3>1, <1>2 DEF PipesOrdered, WellTyped
    <3> QED
        BY <3>1, <3>2, <1>2, Bounds
  <2>3. fromHelper[k].wire = Back(wire, Pending - k)
    BY <2>1 DEF PipesOrdered
  <2>4. Back(wire', (Pending - k) + 1) = Back(wire, Pending - k)
    BY <2>2, <1>2, NextIsAhead
  <2>5. Pending' - i = (Pending - k) + 1
    BY <2>1, <1>3, <1>4, <1>2
  <2> QED
    BY <2>1, <2>3, <2>4, <2>5
<1>7. Pending' <= MaxBacklog /\ Pending' > 0 /\ wire' > 0
    BY <1>3, <1>4, <1>2, Bounds
<1> QED
    BY <1>3, <1>5, <1>6, <1>7 DEF PipesOrdered, LastShows

\* What is sent has a number and an owner.
LEMMA TransmitTyped ==
    ASSUME NEW top, NEW other, WellTyped(top, other),
           NEW seq, NEW o \in Links \cup {other, Physical}, Transmit(seq, o)
    PROVE  toHelper' \in Seq(Requested(other)) /\ wire' \in 0..WireMax
<1>1. NextWire \in 1..WireMax
    BY Bounds DEF NextWire, WellTyped
<1>2. [wire |-> NextWire, owner |-> o] \in Requested(other)
    BY <1>1 DEF Requested
<1> QED
    BY <1>1, <1>2, Writing DEF Transmit, WellTyped, Requested

\* A line that is read leaves the others in order.
LEMMA ReadKeepsOrder ==
    ASSUME NEW top, NEW other, WellTyped(top, other),
           PipesOrdered, fromHelper # <<>>, fromHelper' = Tail(fromHelper),
           toHelper' = toHelper, wire' = wire
    PROVE  PipesOrdered'
<1>1. /\ Len(toHelper) \in Nat /\ Len(fromHelper) \in Nat \ {0}
      /\ Len(fromHelper') = Len(fromHelper) - 1
      /\ \A i \in 1..Len(fromHelper') : fromHelper'[i] = fromHelper[i + 1]
    BY Reading DEF WellTyped
<1>2. ASSUME NEW i \in 1..Len(fromHelper')
      PROVE  fromHelper'[i].wire = Back(wire', Pending' - i)
  <2>1. i + 1 \in 1..Len(fromHelper) /\ Pending' - i = Pending - (i + 1)
    BY <1>1
  <2> QED
    BY <2>1, <1>1 DEF PipesOrdered
<1>3. Pending' <= MaxBacklog /\ (Pending' > 0 => wire' > 0)
    BY <1>1, Bounds DEF PipesOrdered
<1> QED
    BY <1>2, <1>3 DEF PipesOrdered

\* What is acknowledged as the outstanding request is the last line there is.
LEMMA MatchIsLast ==
    ASSUME NEW top, NEW other, WellTyped(top, other),
           PipesOrdered, fromHelper # <<>>, AckMatches(Head(fromHelper))
    PROVE  toHelper = <<>> /\ Len(fromHelper) = 1 /\ Tail(fromHelper) = <<>>
<1>1. Len(toHelper) \in Nat /\ Len(fromHelper) \in Nat \ {0} /\ Head(fromHelper) = fromHelper[1]
    BY Reading DEF WellTyped
<1>2. wire \in 1..WireMax /\ Pending - 1 \in Nat /\ Pending - 1 < WireMax
    BY <1>1, Bounds DEF PipesOrdered, WellTyped
<1>3. wire = Back(wire, Pending - 1)
    BY <1>1 DEF PipesOrdered, AckMatches
<1>4. Pending - 1 = 0
    BY <1>2, <1>3, BackIsOther
<1>5. toHelper \in Seq(Requested(other)) /\ fromHelper \in Seq(Answered)
    BY DEF WellTyped, Requested, Answered
<1>6. Len(toHelper) = 0 /\ Len(fromHelper) = 1
  <2> SUFFICES ASSUME NEW n \in Nat, NEW k \in Nat \ {0}, (n + k) - 1 = 0
               PROVE  n = 0 /\ k = 1
    BY <1>1, <1>4
  <2> QED
    OBVIOUS
<1>7. Tail(fromHelper) \in Seq(Answered) /\ Len(Tail(fromHelper)) = 0
    BY <1>5, <1>6, Reading
<1> QED
    BY <1>5, <1>6, <1>7, Reading

-----------------------------------------------------------------------------
(* The invariant, one lemma per operation.                                 *)

\* The display starts idle and physical.
LEMMA DisplayInvInit ==
    ASSUME NEW top \in Nat, MaxResizes <= top, NEW other, Init
    PROVE  DisplayInv(top, other)
<1>1. WellTyped(top, other)
  <2>1. toHelper \in Seq(Requested(other)) /\ fromHelper \in Seq(Answered)
    BY EmptySeq DEF Init
  <2>2. sequence \in Restore..top /\ wire \in 0..WireMax /\ stops \in 0..MaxStops
    BY Bounds DEF Init, Restore
  <2>3. /\ linkSequence \in [Links -> 0..MaxResizes] /\ sent \in [Links -> 0..MaxResizes]
        /\ told \in [Links -> {"nothing", "ok", "error"}]
        /\ link \in [Links -> {"open", "ended", "dropped"}]
    BY Bounds DEF Init
  <2>4. /\ queued = NoRequest /\ restoreArmed = FALSE /\ workspace = Physical
        /\ displayLink = NoLink /\ barrier = "none" /\ trustBusy = FALSE /\ hostState = "up"
    BY DEF Init
  <2>5. top \in Nat /\ MaxResizes <= top
    OBVIOUS
  <2>6. /\ queued \in [link : Links \cup {other}, seq : 1..top] \cup {NoRequest}
        /\ queued.seq \in 1..MaxResizes => queued.link \in Links
    BY <2>4, Bounds
  <2> QED
    BY ONLY <2>1, <2>2, <2>3, <2>4, <2>5, <2>6 DEF WellTyped, Requested, Answered
<1>2. PipesOrdered /\ OutstandingIsPending
    BY Bounds DEF Init, PipesOrdered, OutstandingIsPending
<1> QED
    BY <1>1, <1>2, Bounds DEF Init, DisplayInv, QueueIsOwned, LastIsAnswered, QueueIsControllers,
        OnlyControllerWaits, TimerIsOutdated, ControllerAtRest, StoppedIsIdle

\* What leaves the connections, the requests and the pipes alone and stops nothing.
LEMMA OtherKeepsInv ==
    ASSUME NEW top, NEW other, DisplayInv(top, other),
           WellTyped(top, other)', UNCHANGED <<resizeVars, helperVars>>,
           UNCHANGED <<link, displayLink, linkSequence, told>>,
           hostState' = hostState \/ hostState' = "up"
    PROVE  DisplayInv(top, other)'
BY DEF DisplayInv, QueueIsOwned, PipesOrdered, OutstandingIsPending, LastIsAnswered,
    LastShows, QueueIsControllers, OnlyControllerWaits, TimerIsOutdated, ControllerAtRest,
    StoppedIsIdle, resizeVars, helperVars

\* The pipes and the outstanding request stay as they are.
LEMMA PipesStay ==
    ASSUME NEW top, NEW other, DisplayInv(top, other),
           UNCHANGED <<sequence, wire, helperVars>>
    PROVE  PipesOrdered' /\ OutstandingIsPending' /\ (\A o : LastShows(o)' <=> LastShows(o))
BY DEF DisplayInv, PipesOrdered, OutstandingIsPending, LastShows, helperVars

\* fail() of the controller: nothing is queued, nobody waits for the display.
LEMMA FailKeepsInv ==
    ASSUME NEW top, NEW other, DisplayInv(top, other),
           NEW reason \in {"ended", "dropped"}, FailController(reason),
           UNCHANGED <<sequence, wire, helperVars, hostState>>, WellTyped(top, other)'
    PROVE  DisplayInv(top, other)'
<1>1. /\ displayLink' = NoLink /\ queued' = NoRequest
      /\ \A l \in Links : link'[l] = "open" => link[l] = "open" /\ l # displayLink
    BY DEF FailController, RestoreDisplay, QueueForgotten, DisplayInv, WellTyped
<1>2. PipesOrdered' /\ OutstandingIsPending' /\ (\A o : LastShows(o)' <=> LastShows(o))
    BY PipesStay
<1>3. OnlyControllerWaits'
    BY <1>1 DEF DisplayInv, OnlyControllerWaits, FailController
<1> QED
    BY <1>1, <1>2, <1>3 DEF DisplayInv, QueueIsOwned, LastIsAnswered, QueueIsControllers,
        TimerIsOutdated, ControllerAtRest, StoppedIsIdle

\* fail() keeps the types of what it changes.
LEMMA FailTyped ==
    ASSUME NEW top, NEW other, WellTyped(top, other),
           NEW reason \in {"ended", "dropped"}, FailController(reason)
    PROVE  /\ link' \in [Links -> {"open", "ended", "dropped"}]
           /\ displayLink' = NoLink /\ queued' = NoRequest /\ restoreArmed' = TRUE
           /\ UNCHANGED <<linkSequence, sent, told>>
BY DEF FailController, RestoreDisplay, QueueForgotten, WellTyped

\* A resume: the new transport has asked for nothing yet.
LEMMA ResumeKeepsInv ==
    ASSUME NEW top, NEW other, DisplayInv(top, other),
           NEW l \in Links, ResumeController(l)
    PROVE  DisplayInv(top, other)'
<1>1. WellTyped(top, other)'
    BY DEF ResumeController, DisplayInv, WellTyped, resizeVars, helperVars, hostVars
<1>2. PipesOrdered' /\ OutstandingIsPending' /\ (\A o : LastShows(o)' <=> LastShows(o))
    BY PipesStay DEF ResumeController, resizeVars
<1>3. /\ displayLink' = l /\ displayLink # NoLink
      /\ linkSequence'[displayLink'] = 0 /\ told'[displayLink'] = "nothing"
    BY DEF ResumeController, DisplayInv, OnlyControllerWaits
<1>4. OnlyControllerWaits'
  <2> SUFFICES ASSUME NEW k \in Links, link'[k] = "open", k # displayLink'
               PROVE  linkSequence'[k] = 0 /\ told'[k] = "nothing"
    BY DEF OnlyControllerWaits
  <2>1. k # displayLink /\ link[k] = "open"
    BY DEF ResumeController, DisplayInv, WellTyped
  <2> QED
    BY <2>1 DEF ResumeController, DisplayInv, OnlyControllerWaits
<1>5. LastIsAnswered(other)'
    BY <1>2, <1>3 DEF ResumeController, resizeVars, DisplayInv, LastIsAnswered
<1>6. QueueIsOwned(other)' /\ StoppedIsIdle'
    BY <1>3, Bounds DEF ResumeController, resizeVars, hostVars, DisplayInv, QueueIsOwned,
        StoppedIsIdle
<1>7. QueueIsControllers' /\ TimerIsOutdated' /\ ControllerAtRest'
    BY <1>3 DEF ResumeController, resizeVars, DisplayInv, QueueIsControllers, TimerIsOutdated,
        ControllerAtRest
<1> QED
    BY <1>1, <1>2, <1>4, <1>5, <1>6, <1>7 DEF DisplayInv

\* The helper carries out the first line: it was not a controller's at rest.
LEMMA ServeKeepsInv ==
    ASSUME NEW top, NEW other, DisplayInv(top, other),
           NEW okay \in BOOLEAN, HelperServes(okay)
    PROVE  DisplayInv(top, other)'
<1>1. toHelper \in Seq(Requested(other)) /\ fromHelper \in Seq(Answered) /\ toHelper # <<>>
    BY DEF DisplayInv, WellTyped, HelperServes, Requested, Answered
<1>2. /\ Head(toHelper) = toHelper[1] /\ toHelper[1] \in Requested(other)
      /\ toHelper' \in Seq(Requested(other)) /\ Len(toHelper) \in Nat /\ Len(toHelper') = Len(toHelper) - 1
      /\ \A i \in 1..Len(toHelper') : toHelper'[i] = toHelper[i + 1]
      /\ (toHelper' = <<>> <=> Len(toHelper') = 0)
    BY <1>1, Reading DEF HelperServes
<1>3. /\ fromHelper' \in Seq(Answered) /\ Len(fromHelper) \in Nat
      /\ Len(fromHelper') = Len(fromHelper) + 1
      /\ fromHelper'[Len(fromHelper) + 1] = [wire |-> toHelper[1].wire, okay |-> okay]
      /\ \A i \in 1..Len(fromHelper) : fromHelper'[i] = fromHelper[i]
      /\ fromHelper' # <<>>
  <2>1. [wire |-> toHelper[1].wire, okay |-> okay] \in Answered
    BY <1>2 DEF Requested, Answered
  <2>2. fromHelper' = Append(fromHelper, [wire |-> toHelper[1].wire, okay |-> okay])
    BY <1>2 DEF HelperServes
  <2> QED
    BY <2>1, <2>2, <1>1, Writing, Reading
<1>4. Pending' = Pending /\ Len(toHelper) > 0
    BY <1>1, <1>2, <1>3, Reading
<1>5. UNCHANGED <<linkVars, resizeVars, hostState>>
    BY DEF HelperServes, hostVars
<1>6. WellTyped(top, other)'
  <2>1. workspace' \in Links \cup {other, Physical, Disturbed}
    BY <1>2 DEF HelperServes, Requested
  <2> QED
    BY <2>1, <1>2, <1>3, <1>5 DEF HelperServes, DisplayInv, WellTyped, Requested, Answered,
        linkVars, resizeVars, hostVars
<1>7. PipesOrdered'
  <2>1. ASSUME NEW i \in 1..Len(toHelper')
        PROVE  toHelper'[i].wire = Back(wire', Len(toHelper') - i)
    <3>1. i + 1 \in 1..Len(toHelper) /\ Len(toHelper') - i = Len(toHelper) - (i + 1)
        BY <1>2
    <3> QED
        BY <3>1, <1>2, <1>5 DEF DisplayInv, PipesOrdered, resizeVars
  <2>2. ASSUME NEW i \in 1..Len(fromHelper')
        PROVE  fromHelper'[i].wire = Back(wire', Pending' - i)
    <3>1. CASE i \in 1..Len(fromHelper)
        BY <3>1, <1>3, <1>4, <1>5 DEF DisplayInv, PipesOrdered, resizeVars
    <3>2. CASE i = Len(fromHelper) + 1
      <4>1. toHelper[1].wire = Back(wire, Len(toHelper) - 1)
        BY <1>2, <1>4 DEF DisplayInv, PipesOrdered
      <4>2. Pending' - i = Len(toHelper) - 1
        BY <3>2, <1>2, <1>3, <1>4
      <4> QED
        BY <4>1, <4>2, <3>2, <1>3, <1>5 DEF resizeVars
    <3> QED
        BY <3>1, <3>2, <1>3
  <2> QED
    BY <2>1, <2>2, <1>4, <1>5 DEF DisplayInv, PipesOrdered, resizeVars
<1>8. ASSUME NEW o, LastShows(o) PROVE LastShows(o)'
  <2>1. CASE toHelper' # <<>>
    BY <2>1, <1>2, <1>8 DEF LastShows
  <2>2. CASE toHelper' = <<>>
    <3>1. Len(toHelper) = 1
        BY <2>2, <1>2
    <3>2. toHelper[1].owner = o
        BY <3>1, <1>1, <1>8 DEF LastShows
    <3>3. okay => workspace' = o
        BY <3>2, <1>2 DEF HelperServes
    <3> QED
        BY <2>2, <3>3, <1>3 DEF LastShows
  <2> QED
    BY <2>1, <2>2
<1>9. LastIsAnswered(other)'
    BY <1>8, <1>5 DEF DisplayInv, LastIsAnswered, linkVars, resizeVars
<1>10. ControllerAtRest'
    BY <1>2, <1>3, <1>4, <1>5 DEF DisplayInv, ControllerAtRest, linkVars, resizeVars
<1> QED
    BY <1>4, <1>5, <1>6, <1>7, <1>9, <1>10 DEF DisplayInv, QueueIsOwned,
        OutstandingIsPending, QueueIsControllers, OnlyControllerWaits, TimerIsOutdated,
        StoppedIsIdle, linkVars, resizeVars

\* A resize that is rejected, queued behind a restoration or sent.
LEMMA ResizeKeepsInv ==
    ASSUME NEW top, NEW other, DisplayInv(top, other),
           NEW l \in Links, Resize(l)
    PROVE  DisplayInv(top, other)'
<1> DEFINE n == sent[l] + 1
<1>1. /\ n \in 1..MaxResizes /\ n # 0 /\ l # NoLink /\ link[l] = "open"
      /\ sent' = [sent EXCEPT ![l] = n] /\ sent' \in [Links -> 0..MaxResizes]
  <2>1. /\ link[l] = "open" /\ sent[l] < MaxResizes
        /\ sent' = [sent EXCEPT ![l] = sent[l] + 1]
    BY DEF Resize
  <2>2. sent \in [Links -> 0..MaxResizes] /\ MaxResizes \in Nat /\ NoLink \notin Links
    BY Bounds DEF DisplayInv, WellTyped
  <2>3. n \in 1..MaxResizes /\ n # 0 /\ l # NoLink
    BY <2>1, <2>2
  <2> QED  BY <2>1, <2>2, <2>3
<1>2. CASE linkSequence[l] # 0 \/ Rejected(n)
  <2>1. UNCHANGED <<link, displayLink, linkSequence, told, resizeVars, helperVars, hostVars, barrier>>
    BY <1>2 DEF Resize, helperVars
  <2>2. WellTyped(top, other)'
    BY <2>1, <1>1 DEF DisplayInv, WellTyped, resizeVars, helperVars, hostVars
  <2> QED
    BY <2>1, <2>2, OtherKeepsInv DEF hostVars
<1>3. CASE ~(linkSequence[l] # 0 \/ Rejected(n))
  <2>1. /\ displayLink' = l /\ displayLink \in {NoLink, l}
        /\ linkSequence' = [linkSequence EXCEPT ![l] = n]
        /\ told' = [told EXCEPT ![l] = "nothing"]
        /\ UNCHANGED <<link, fromHelper, workspace, barrier, hostVars>>
        /\ hostState = "up" /\ queued = NoRequest /\ sequence <= 0
    BY <1>1, <1>3, Bounds DEF Resize, Rejected, Available, Restore, DisplayInv, WellTyped
  <2>2. /\ linkSequence'[l] = n /\ linkSequence' \in [Links -> 0..MaxResizes]
        /\ told' \in [Links -> {"nothing", "ok", "error"}]
    BY <2>1, <1>1 DEF DisplayInv, WellTyped
  <2>3. OnlyControllerWaits'
    <3> SUFFICES ASSUME NEW k \in Links, link'[k] = "open", k # l
                 PROVE  linkSequence'[k] = 0 /\ told'[k] = "nothing"
        BY <2>1 DEF OnlyControllerWaits
    <3>1. k # displayLink /\ link[k] = "open"
        BY <2>1, Bounds
    <3>2. linkSequence'[k] = linkSequence[k] /\ told'[k] = told[k]
        BY <2>1 DEF DisplayInv, WellTyped
    <3> QED
        BY <3>1, <3>2 DEF DisplayInv, OnlyControllerWaits
  <2>4. ControllerAtRest' /\ StoppedIsIdle'
    BY <2>1, <2>2, <1>1 DEF ControllerAtRest, StoppedIsIdle, hostVars
  <2>5. CASE sequence = 0
    <3>1. Transmit(n, l) /\ queued' = NoRequest
        BY <2>1, <2>5, <1>3 DEF Resize
    <3>2. PipesOrdered' /\ Pending' > 0 /\ LastShows(l)'
        BY <3>1, <2>1, TransmitKeepsOrder DEF DisplayInv
    <3>3. sequence' = n /\ ~restoreArmed'
        BY <3>1 DEF Transmit, TimerOutdated
    <3>4. toHelper' \in Seq(Requested(other)) /\ wire' \in 0..WireMax
        BY <3>1, TransmitTyped DEF DisplayInv
    <3>5. WellTyped(top, other)'
        <4>1. sequence' \in Restore..top
            BY <3>3, <1>1, Bounds, Numbers DEF Restore
        <4>2. restoreArmed' \in BOOLEAN /\ queued' = NoRequest
            BY <3>1 DEF Transmit, TimerOutdated
        <4> QED
            BY <2>1, <2>2, <3>1, <3>4, <4>1, <4>2, <1>1, Bounds, Numbers DEF WellTyped, Requested, hostVars
    <3> QED
        BY <2>1, <2>3, <2>4, <3>1, <3>2, <3>3, <3>5, <1>1, Bounds, Numbers DEF DisplayInv, QueueIsOwned,
            OutstandingIsPending, LastIsAnswered, QueueIsControllers, TimerIsOutdated
  <2>6. CASE sequence # 0
    <3>1. /\ queued' = [link |-> l, seq |-> n]
          /\ UNCHANGED <<sequence, wire, restoreArmed, toHelper>>
          /\ sequence = Restore
        BY <2>1, <2>6, <1>3, Bounds DEF Resize, DisplayInv, WellTyped, Restore
    <3>2. PipesOrdered' /\ OutstandingIsPending' /\ (\A o : LastShows(o)' <=> LastShows(o))
        BY <3>1, <2>1, PipesStay DEF helperVars
    <3>3. WellTyped(top, other)'
        BY <3>1, <2>1, <2>2, <1>1, Bounds, Numbers DEF DisplayInv, WellTyped, hostVars, Requests
    <3>4. LastIsAnswered(other)'
        BY <3>1, <3>2 DEF DisplayInv, LastIsAnswered, Restore
    <3> QED
        BY <2>1, <2>3, <2>4, <3>1, <3>2, <3>3, <3>4, <1>1, Bounds, Numbers DEF DisplayInv, QueueIsOwned,
            QueueIsControllers, TimerIsOutdated, Restore
  <2> QED
    BY <2>5, <2>6
<1> QED
    BY <1>2, <1>3

\* The end of the outstanding request, by a timeout or by its acknowledgment.
LEMMA CompletedKeepsInv ==
    ASSUME NEW top, NEW other, DisplayInv(top, other),
           NEW okay \in BOOLEAN, sequence # 0, Completed(okay),
           UNCHANGED <<workspace, hostVars>>,
           \/ ~okay /\ fromHelper' = fromHelper
           \/ /\ fromHelper # <<>> /\ fromHelper' = Tail(fromHelper)
              /\ AckMatches(Head(fromHelper)) /\ okay = Head(fromHelper).okay
    PROVE  DisplayInv(top, other)'
<1>1. /\ UNCHANGED <<link, displayLink, sent>> /\ queued' = NoRequest
      /\ hostState = "up" /\ sequence \in Int
      /\ barrier' \in {"none", "waiting", "restored", "failed"}
    BY DEF Completed, Settled, StartsQueued, DisplayInv, QueueIsOwned, StoppedIsIdle,
        WellTyped, Restore
<1>2. fromHelper' \in Seq(Answered)
  <2>1. fromHelper \in Seq(Answered)
    BY DEF DisplayInv, WellTyped, Answered
  <2> QED
    BY <2>1, Reading
<1>3. ~(displayLink # NoLink /\ told[displayLink] = "ok" /\ linkSequence[displayLink] = 0)
    BY DEF DisplayInv, ControllerAtRest
<1>4. QueueIsOwned(other)' /\ QueueIsControllers' /\ StoppedIsIdle'
    BY <1>1 DEF QueueIsOwned, QueueIsControllers, StoppedIsIdle, hostVars
<1>5. CASE StartsQueued /\ Available
  <2>1. Transmit(queued.seq, queued.link) /\ UNCHANGED <<linkSequence, told>>
    BY <1>5 DEF Completed
  <2>2. /\ queued.link \in Links \cup {other} /\ queued.seq \in 1..top /\ queued # NoRequest
        /\ queued.seq <= MaxResizes => queued.link \in Links
    BY <1>5, Bounds DEF StartsQueued, DisplayInv, WellTyped
  <2>3. PICK o \in Links \cup {other}, n \in 1..top : o = queued.link /\ n = queued.seq
    BY <2>2
  <2>4. PipesOrdered' /\ Pending' > 0 /\ LastShows(o)'
    BY <2>1, <2>3, TransmitKeepsOrder DEF DisplayInv
  <2>5. sequence' = n /\ ~restoreArmed'
    BY <2>1, <2>3 DEF Transmit, TimerOutdated
  <2>6. toHelper' \in Seq(Requested(other)) /\ wire' \in 0..WireMax
    BY <2>1, <2>3, TransmitTyped DEF DisplayInv
  <2>7. WellTyped(top, other)'
    <3>1. sequence' \in Restore..top
        BY <2>5, Bounds DEF Restore
    <3>2. restoreArmed' \in BOOLEAN
        BY <2>5, <2>1 DEF Transmit, TimerOutdated
    <3>3. WellTyped(top, other)
        BY Numbers
    <3>4. queued' = NoRequest /\ NoRequest.seq = 0
        BY <1>1, Bounds
    <3>5. UNCHANGED <<link, displayLink, sent, linkSequence, told, workspace, trustBusy, hostState, stops>>
        BY <1>1, <2>1 DEF hostVars
    <3>6. /\ toHelper' \in Seq([wire : 1..WireMax, owner : Links \cup {other, Physical}])
          /\ fromHelper' \in Seq([wire : 1..WireMax, okay : BOOLEAN])
        BY <1>2, <2>6 DEF Requested, Answered
    <3> QED
        BY <1>1, <2>6, <3>1, <3>2, <3>3, <3>4, <3>5, <3>6 DEF WellTyped
  <2>8. LastIsAnswered(other)'
    <3>1. n > MaxResizes => o = other
        BY <2>2, <2>3 DEF DisplayInv, QueueIsOwned
    <3>2. displayLink # NoLink /\ linkSequence[displayLink] = n => o = displayLink
        BY <2>2, <2>3 DEF DisplayInv, QueueIsControllers
    <3> QED
        BY <1>1, <2>1, <2>4, <2>5, <3>1, <3>2 DEF LastIsAnswered
  <2>9. OnlyControllerWaits' /\ TimerIsOutdated' /\ ControllerAtRest' /\ OutstandingIsPending'
    BY <1>1, <1>3, <2>1, <2>4, <2>5 DEF DisplayInv, OnlyControllerWaits, TimerIsOutdated,
        ControllerAtRest, OutstandingIsPending
  <2> QED
    BY <1>4, <2>4, <2>7, <2>8, <2>9 DEF DisplayInv
<1>6. CASE ~(StartsQueued /\ Available)
  <2>1. sequence' = 0 /\ UNCHANGED <<wire, restoreArmed, toHelper>>
    BY <1>6 DEF Completed
  <2>2. PICK seq \in Int, result \in {"ok", "error"} :
            /\ Answer(seq, result)
            /\ result = "ok" => okay /\ seq = sequence
    BY <1>1, <1>6 DEF Completed, DisplayInv, WellTyped, Requests, StartsQueued
  <2>3. /\ linkSequence' \in [Links -> 0..MaxResizes]
        /\ told' \in [Links -> {"nothing", "ok", "error"}]
        /\ \A k \in Links \ {displayLink} :
              linkSequence'[k] = linkSequence[k] /\ told'[k] = told[k]
    <3>1. CASE displayLink # NoLink /\ linkSequence[displayLink] = seq
        <4>1. /\ linkSequence \in [Links -> 0..MaxResizes] /\ 0 \in 0..MaxResizes
              /\ told \in [Links -> {"nothing", "ok", "error"}]
            BY Bounds DEF DisplayInv, WellTyped
        <4>2. /\ linkSequence' = [linkSequence EXCEPT ![displayLink] = 0]
              /\ told' = [told EXCEPT ![displayLink] = result]
            BY <3>1, <2>2 DEF Answer
        <4> QED
            BY <4>1, <4>2
    <3>2. CASE ~(displayLink # NoLink /\ linkSequence[displayLink] = seq)
        BY <3>2, <2>2 DEF Answer, DisplayInv, WellTyped
    <3> QED
        BY <3>1, <3>2
  <2>4. WellTyped(top, other)'
    BY <1>1, <1>2, <2>1, <2>3, Bounds, Numbers DEF DisplayInv, WellTyped, Answered, hostVars, Restore
  <2>5. PipesOrdered'
    BY <2>1, ReadKeepsOrder DEF DisplayInv, PipesOrdered
  <2>6. OnlyControllerWaits'
    BY <1>1, <2>3 DEF DisplayInv, OnlyControllerWaits
  <2>7. ControllerAtRest'
    <3> SUFFICES ASSUME displayLink # NoLink, told'[displayLink] = "ok", linkSequence'[displayLink] = 0
                 PROVE  workspace' = displayLink /\ Pending' = 0 /\ ~restoreArmed'
        BY <1>1, <2>1 DEF ControllerAtRest
    <3>1. displayLink \in Links
        BY DEF DisplayInv, WellTyped
    <3>2. okay /\ linkSequence[displayLink] = sequence
        BY <1>3, <2>2, <3>1 DEF Answer, DisplayInv, WellTyped
    <3>3. sequence > 0
        BY <3>1, <3>2, Bounds DEF DisplayInv, WellTyped
    <3>4. /\ toHelper = <<>> /\ Len(fromHelper) = 1 /\ fromHelper # <<>>
          /\ fromHelper' = <<>> /\ Head(fromHelper) = fromHelper[1] /\ fromHelper[1].okay
        BY <3>2, MatchIsLast, Reading DEF DisplayInv, WellTyped
    <3>5. LastShows(displayLink)
        BY <3>2, <3>3 DEF DisplayInv, LastIsAnswered
    <3>6. workspace = displayLink
        BY <3>4, <3>5 DEF LastShows
    <3>7. Pending' = 0
        BY <3>4, <2>1, EmptySeq
    <3> QED
        BY <3>3, <3>6, <3>7, <2>1 DEF DisplayInv, TimerIsOutdated
  <2> QED
    BY <1>4, <2>1, <2>4, <2>5, <2>6, <2>7, Bounds, Numbers DEF DisplayInv, OutstandingIsPending, LastIsAnswered,
        TimerIsOutdated
<1> QED
    BY <1>5, <1>6

\* One line of the helper: an old one is thrown away.
LEMMA AckKeepsInv ==
    ASSUME NEW top, NEW other, DisplayInv(top, other),
           HelperAck
    PROVE  DisplayInv(top, other)'
<1>1. /\ toHelper \in Seq(Requested(other)) /\ fromHelper \in Seq(Answered) /\ fromHelper # <<>>
      /\ fromHelper' = Tail(fromHelper) /\ UNCHANGED <<workspace, hostVars>>
    BY DEF HelperAck, DisplayInv, WellTyped, Requested, Answered
<1>2. /\ Head(fromHelper) = fromHelper[1] /\ fromHelper[1] \in Answered
      /\ fromHelper' \in Seq(Answered) /\ Len(fromHelper) \in Nat \ {0} /\ Len(toHelper) \in Nat
      /\ Len(fromHelper') = Len(fromHelper) - 1
      /\ \A i \in 1..Len(fromHelper') : fromHelper'[i] = fromHelper[i + 1]
      /\ (fromHelper' = <<>> <=> Len(fromHelper') = 0)
  <2>1. /\ Len(toHelper) \in Nat /\ Len(fromHelper) \in Nat /\ Len(fromHelper) # 0
        /\ fromHelper' \in Seq(Answered)
    BY <1>1, Reading
  <2> QED
    BY <2>1, <1>1, Reading
<1>3. CASE AckMatches(Head(fromHelper))
  <2>1. Head(fromHelper).okay \in BOOLEAN /\ sequence # 0 /\ Completed(Head(fromHelper).okay)
    BY <1>2, <1>3 DEF HelperAck, AckMatches, Answered
  <2>2. PICK okay \in BOOLEAN : okay = Head(fromHelper).okay
    BY <2>1
  <2> QED
    BY <2>1, <2>2, <1>1, <1>3, CompletedKeepsInv
<1>4. CASE ~AckMatches(Head(fromHelper))
  <2>1. UNCHANGED <<linkVars, resizeVars, toHelper, barrier>>
    BY <1>4 DEF HelperAck
  <2>2. WellTyped(top, other)'
    <3>1. WellTyped(top, other)
      BY Numbers
    <3>2. UNCHANGED <<link, displayLink, linkSequence, sent, told, sequence, wire, queued, restoreArmed>>
      BY <2>1 DEF linkVars, resizeVars
    <3>3. UNCHANGED <<toHelper, workspace, barrier, trustBusy, hostState, stops>>
      BY <2>1, <1>1 DEF hostVars
    <3>4. fromHelper' \in Seq([wire : 1..WireMax, okay : BOOLEAN])
      BY <1>2 DEF Answered
    <3> QED  BY <3>1, <3>2, <3>3, <3>4 DEF WellTyped
  <2>3. PipesOrdered'
    BY <2>1, <1>1, ReadKeepsOrder DEF DisplayInv, resizeVars
  <2>4. ASSUME sequence # 0 PROVE Pending' > 0
    <3> SUFFICES ASSUME Len(fromHelper) = 1, Len(toHelper) = 0 PROVE FALSE
        BY <2>1, <1>2
    <3>1. fromHelper[1].wire = Back(wire, 0) /\ wire > 0
        BY DEF DisplayInv, PipesOrdered
    <3>2. Back(wire, 0) = wire
        BY <3>1 DEF Back, DisplayInv, WellTyped
    <3> QED
        BY <3>1, <3>2, <2>4, <1>2, <1>4 DEF AckMatches
  <2>5. ASSUME NEW o, LastShows(o) PROVE LastShows(o)'
    <3>1. CASE fromHelper' = <<>>
        BY <3>1, <2>5, <2>1 DEF LastShows
    <3>2. CASE fromHelper' # <<>>
        <4>1. Len(fromHelper') \in 1..Len(fromHelper') /\ Len(fromHelper') + 1 = Len(fromHelper)
            BY <3>2, <1>2
        <4>2. fromHelper'[Len(fromHelper')] = fromHelper[Len(fromHelper)]
            BY <4>1, <1>2
        <4> QED
            BY <4>2, <2>5, <2>1, <1>1 DEF LastShows
    <3> QED
        BY <3>1, <3>2
  <2>6. LastIsAnswered(other)' /\ OutstandingIsPending'
    BY <2>1, <2>4, <2>5 DEF DisplayInv, LastIsAnswered, OutstandingIsPending, linkVars, resizeVars
  <2>7. ControllerAtRest'
    BY <2>1, <1>2 DEF DisplayInv, ControllerAtRest, linkVars
  <2> QED
    BY <2>1, <1>1, <2>2, <2>3, <2>6, <2>7 DEF DisplayInv, QueueIsOwned, QueueIsControllers,
        OnlyControllerWaits, TimerIsOutdated, StoppedIsIdle, linkVars, resizeVars, hostVars
<1> QED
    BY <1>3, <1>4

\* The timer asks for the restoration, or clears the queue and starts again.
LEMMA TimerKeepsInv ==
    ASSUME NEW top, NEW other, DisplayInv(top, other),
           RestoreTimer
    PROVE  DisplayInv(top, other)'
<1>1. restoreArmed /\ UNCHANGED <<linkVars, fromHelper, workspace, barrier, hostVars>>
    BY DEF RestoreTimer
<1>2. OnlyControllerWaits'
    BY <1>1 DEF DisplayInv, OnlyControllerWaits, linkVars
<1>3. CASE sequence # 0
  <2>1. /\ queued' = NoRequest /\ restoreArmed' \in BOOLEAN
        /\ UNCHANGED <<sequence, wire, toHelper>>
    BY <1>3 DEF RestoreTimer, QueueForgotten, Rearmed
  <2>2. PipesOrdered' /\ OutstandingIsPending' /\ (\A o : LastShows(o)' <=> LastShows(o))
    BY <2>1, <1>1, PipesStay DEF helperVars
  <2>3. WellTyped(top, other)'
    BY <2>1, <1>1, Bounds, Numbers DEF DisplayInv, WellTyped, linkVars, hostVars
  <2> QED
    BY <1>1, <1>2, <1>3, <2>1, <2>2, <2>3 DEF DisplayInv, QueueIsOwned, LastIsAnswered,
        QueueIsControllers, TimerIsOutdated, ControllerAtRest, StoppedIsIdle, linkVars, hostVars
<1>4. CASE sequence = 0 /\ ~Rejected(Restore)
  <2>1. Transmit(Restore, Physical) /\ queued' = NoRequest /\ hostState = "up"
    BY <1>4 DEF RestoreTimer, Rejected, Available
  <2>2. PipesOrdered' /\ Pending' > 0 /\ LastShows(Physical)'
    BY <2>1, <1>1, TransmitKeepsOrder DEF DisplayInv
  <2>3. sequence' = -1 /\ ~restoreArmed'
    BY <2>1 DEF Transmit, Restore, TimerOutdated
  <2>4. WellTyped(top, other)'
    <3>1. sequence' \in Restore..top
        BY <2>3, Bounds, Numbers DEF Restore
    <3>2. restoreArmed' \in BOOLEAN
        BY <2>1 DEF Transmit, TimerOutdated
    <3>3. toHelper' \in Seq(Requested(other)) /\ wire' \in 0..WireMax
        BY <2>1, TransmitTyped DEF DisplayInv
    <3> QED
        BY <1>1, <2>1, <3>1, <3>2, <3>3, Bounds, Numbers DEF DisplayInv, WellTyped, linkVars, hostVars, Requested
  <2> QED
    BY <1>1, <1>2, <2>1, <2>2, <2>3, <2>4, Bounds, Numbers DEF DisplayInv, QueueIsOwned,
        OutstandingIsPending, LastIsAnswered, QueueIsControllers, TimerIsOutdated, ControllerAtRest,
        StoppedIsIdle, linkVars, hostVars
<1>5. CASE sequence = 0 /\ Rejected(Restore)
  <2>1. restoreArmed' = FALSE /\ UNCHANGED <<sequence, wire, toHelper, queued>>
    BY <1>5 DEF RestoreTimer
  <2>2. PipesOrdered' /\ OutstandingIsPending' /\ (\A o : LastShows(o)' <=> LastShows(o))
    BY <2>1, <1>1, PipesStay DEF helperVars
  <2>3. WellTyped(top, other)'
    BY <2>1, <1>1 DEF DisplayInv, WellTyped, linkVars, hostVars
  <2> QED
    BY <1>1, <1>2, <1>5, <2>1, <2>2, <2>3 DEF DisplayInv, QueueIsOwned, LastIsAnswered,
        QueueIsControllers, TimerIsOutdated, ControllerAtRest, StoppedIsIdle, linkVars, hostVars
<1> QED
    BY <1>3, <1>4, <1>5

\* A stop ends the controller and whatever is outstanding.
LEMMA StopKeepsInv ==
    ASSUME NEW top, NEW other, DisplayInv(top, other),
           HostStop
    PROVE  DisplayInv(top, other)'
<1>1. /\ displayLink' = NoLink /\ queued' = NoRequest /\ restoreArmed' \in BOOLEAN /\ sequence' = 0
      /\ link' \in [Links -> {"open", "ended", "dropped"}]
      /\ UNCHANGED <<linkSequence, sent, told, wire, helperVars, barrier, trustBusy>>
      /\ hostState' = "stopping" /\ stops' \in 0..MaxStops
  <2>1. stops' \in 0..MaxStops
    BY Bounds DEF HostStop, DisplayInv, WellTyped
  <2>2. CASE displayLink # NoLink
    BY <2>1, <2>2, FailTyped DEF HostStop, DisplayInv
  <2>3. CASE displayLink = NoLink
    BY <2>1, <2>3 DEF HostStop, DisplayInv, WellTyped, linkVars
  <2> QED
    BY <2>2, <2>3
<1>2. \A l \in Links : link'[l] = "open" => link[l] = "open" /\ l # displayLink
    BY Bounds DEF HostStop, FailController, DisplayInv, WellTyped, linkVars
<1>3. WellTyped(top, other)'
    BY <1>1, Bounds, Numbers DEF DisplayInv, WellTyped, helperVars, Restore
<1>4. PipesOrdered'
    BY <1>1 DEF DisplayInv, PipesOrdered, helperVars
<1> QED
    BY <1>1, <1>2, <1>3, <1>4, Bounds, Numbers DEF DisplayInv, QueueIsOwned, OutstandingIsPending,
        LastIsAnswered, QueueIsControllers, OnlyControllerWaits, TimerIsOutdated, ControllerAtRest,
        StoppedIsIdle

\* The helper has gone, and its pipes with it.
LEMMA DownKeepsInv ==
    ASSUME NEW top, NEW other, DisplayInv(top, other),
           HostDown
    PROVE  DisplayInv(top, other)'
<1>1. /\ displayLink = NoLink /\ sequence = 0 /\ queued = NoRequest
      /\ toHelper' = <<>> /\ fromHelper' = <<>> /\ workspace' = Physical /\ hostState' = "down"
      /\ UNCHANGED <<linkVars, resizeVars, barrier, trustBusy, stops>>
    BY DEF HostDown, DisplayInv, StoppedIsIdle
<1>2. toHelper' \in Seq(Requested(other)) /\ fromHelper' \in Seq(Answered)
    BY <1>1, EmptySeq
<1>3. WellTyped(top, other)'
    BY <1>1, <1>2 DEF DisplayInv, WellTyped, linkVars, resizeVars, Requested, Answered
<1>4. PipesOrdered'
    BY <1>1, Bounds DEF PipesOrdered
<1> QED
    BY <1>1, <1>3, <1>4, Bounds, Numbers DEF DisplayInv, QueueIsOwned, OutstandingIsPending, LastIsAnswered,
        QueueIsControllers, OnlyControllerWaits, TimerIsOutdated, ControllerAtRest, StoppedIsIdle,
        linkVars, resizeVars

\* Every step keeps the invariant.
LEMMA DisplayInvNext ==
    ASSUME NEW top, NEW other, DisplayInv(top, other), [Next]_vars
    PROVE  DisplayInv(top, other)'
<1>1. ASSUME NEW l \in Links, Resize(l) \/ ResumeController(l) PROVE DisplayInv(top, other)'
    BY <1>1, ResizeKeepsInv, ResumeKeepsInv
<1>2. CASE ControllerEnds \/ ControllerDropped \/ TakeOver
  <2>1. PICK reason \in {"ended", "dropped"} : FailController(reason)
    BY <1>2 DEF ControllerEnds, ControllerDropped, TakeOver
  <2>2. /\ UNCHANGED <<sequence, wire, helperVars, hostVars>>
        /\ barrier' \in {"none", "waiting", "restored", "failed"}
    BY <1>2 DEF ControllerEnds, ControllerDropped, TakeOver, DisplayInv, WellTyped
  <2>3. WellTyped(top, other)'
    <3>1. /\ WellTyped(top, other) /\ link' \in [Links -> {"open", "ended", "dropped"}]
          /\ displayLink' = NoLink /\ queued' = NoRequest /\ restoreArmed' = TRUE
          /\ UNCHANGED <<linkSequence, sent, told>>
        BY <2>1, FailTyped, Numbers
    <3> QED
        BY <2>2, <3>1, Bounds DEF WellTyped, helperVars, hostVars
  <2> QED
    BY <2>1, <2>2, <2>3, FailKeepsInv DEF hostVars
<1>3. CASE TrustBegins
  <2>1. /\ UNCHANGED <<sequence, wire, helperVars, barrier, hostState, stops>>
        /\ trustBusy' = TRUE
    BY <1>3 DEF TrustBegins
  <2>2. CASE UNCHANGED <<linkVars, queued, restoreArmed>>
    <3>1. WellTyped(top, other)'
        BY <2>1, <2>2 DEF DisplayInv, WellTyped, linkVars, helperVars
    <3> QED
        BY <2>1, <2>2, <3>1, OtherKeepsInv DEF linkVars, resizeVars
  <2>3. CASE FailController("ended")
    <3>1. WellTyped(top, other)'
      <4>1. /\ WellTyped(top, other) /\ link' \in [Links -> {"open", "ended", "dropped"}]
            /\ displayLink' = NoLink /\ queued' = NoRequest /\ restoreArmed' = TRUE
            /\ UNCHANGED <<linkSequence, sent, told>>
        BY <2>3, FailTyped, Numbers
      <4> QED
        BY <2>1, <4>1, Bounds DEF WellTyped, helperVars
    <3> QED
        BY <2>1, <2>3, <3>1, FailKeepsInv
  <2> QED
    BY <1>3, <2>2, <2>3 DEF TrustBegins
<1>4. CASE SettleTimeout \/ AdmissionEnds \/ TrustEnds \/ HostStart
  <2>1. /\ UNCHANGED <<linkVars, resizeVars, helperVars, stops>>
        /\ hostState' = hostState \/ hostState' = "up"
        /\ barrier' \in {"none", "waiting", "restored", "failed"} /\ trustBusy' \in BOOLEAN
    BY <1>4 DEF SettleTimeout, AdmissionEnds, TrustEnds, HostStart, hostVars, DisplayInv, WellTyped
  <2>2. WellTyped(top, other)'
    BY <2>1 DEF DisplayInv, WellTyped, linkVars, resizeVars, helperVars
  <2> QED
    BY <2>1, <2>2, OtherKeepsInv DEF linkVars
<1>5. CASE Helper
    BY <1>5, ServeKeepsInv DEF Helper
<1>6. CASE HelperAck
    BY <1>6, AckKeepsInv
<1>7. CASE ResizeTimeout
    BY <1>7, CompletedKeepsInv DEF ResizeTimeout
<1>8. CASE RestoreTimer
    BY <1>8, TimerKeepsInv
<1>9. CASE HostStop \/ HostDown
    BY <1>9, StopKeepsInv, DownKeepsInv
<1>10. CASE UNCHANGED vars
  <2>1. UNCHANGED <<linkVars, resizeVars, helperVars, barrier, hostVars>>
    BY <1>10 DEF vars
  <2>2. WellTyped(top, other)'
    BY <2>1 DEF DisplayInv, WellTyped, linkVars, resizeVars, helperVars, hostVars
  <2> QED
    BY <2>1, <2>2, OtherKeepsInv DEF linkVars, hostVars
<1> QED
    BY <1>1, <1>2, <1>3, <1>4, <1>5, <1>6, <1>7, <1>8, <1>9, <1>10 DEF Next

\* Nobody but the connections.
LEMMA DisplayInvariant == Spec => []DisplayInv(MaxResizes, Physical)
<1>1. Init => DisplayInv(MaxResizes, Physical)
    BY DisplayInvInit, Bounds
<1>2. DisplayInv(MaxResizes, Physical) /\ [Next]_vars => DisplayInv(MaxResizes, Physical)'
    BY DisplayInvNext
<1> QED
    BY <1>1, <1>2, PTL DEF Spec

-----------------------------------------------------------------------------
(* The theorems.                                                           *)

\* The state of the display control is well-typed.
THEOREM DisplayTyped == Spec => []TypeOK
<1>1. DisplayInv(MaxResizes, Physical) => TypeOK
    BY Bounds DEF DisplayInv, WellTyped, TypeOK, Requests, NoRequest
<1> QED
    BY <1>1, DisplayInvariant, PTL

\* Only a controller that is still there waits behind a restoration.
THEOREM QueueHasController == Spec => []QueuedHasController
<1>1. DisplayInv(MaxResizes, Physical) => QueuedHasController
    BY Bounds DEF DisplayInv, WellTyped, QueueIsOwned, QueuedHasController, NoRequest
<1> QED
    BY <1>1, DisplayInvariant, PTL

\* A controller told of its workspace sees it: whatever is late in the pipes.
THEOREM ControllerSeesWorkspace == Spec => []WorkspaceIsControllers
<1>1. DisplayInv(MaxResizes, Physical) => WorkspaceIsControllers
    BY DEF DisplayInv, ControllerAtRest, WorkspaceIsControllers
<1> QED
    BY <1>1, DisplayInvariant, PTL

\* A takeover is told that the layout is back only by the answer to its restoration.
LEMMA SettledByRestoration ==
    ASSUME DisplayInv(MaxResizes, Physical), [Next]_vars, barrier = "waiting", barrier' = "restored"
    PROVE  workspace = Physical /\ toHelper = <<>>
<1>1. HelperAck
    BY DEF Next, vars, Resize, ControllerEnds, ControllerDropped, ResumeController, TakeOver,
        SettleTimeout, AdmissionEnds, Helper, HelperServes, ResizeTimeout, Completed, Settled,
        RestoreTimer, TrustBegins, TrustEnds, HostStop, HostDown, HostStart
<1>2. /\ AckMatches(Head(fromHelper)) /\ fromHelper # <<>>
      /\ sequence <= 0 /\ Head(fromHelper).okay
    BY <1>1 DEF HelperAck, Completed, Settled, DisplayInv, WellTyped
<1>3. sequence < 0
    BY <1>2 DEF AckMatches, DisplayInv, WellTyped, Restore
<1>4. toHelper = <<>> /\ Len(fromHelper) = 1 /\ Head(fromHelper) = fromHelper[1]
    BY <1>2, MatchIsLast, Reading DEF DisplayInv, WellTyped
<1> QED
    BY <1>2, <1>3, <1>4 DEF DisplayInv, LastIsAnswered, LastShows

\* When a takeover goes on, the old workspace is gone and nothing can bring it back.
THEOREM SettledIsRestored == Spec => SettledMeansRestored
<1>1. DisplayInv(MaxResizes, Physical) /\ [Next]_vars =>
          [(barrier = "waiting" /\ barrier' = "restored") =>
                workspace = Physical /\ toHelper = <<>>]_vars
    BY SettledByRestoration
<1> QED
    BY <1>1, DisplayInvariant, PTL DEF Spec, SettledMeansRestored
=============================================================================

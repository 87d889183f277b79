------------------------- MODULE BrowserHost_proofs -------------------------
(***************************************************************************)
(* Browser sessions on the shared display (BrowserHost), for any number of *)
(* sessions, connections and resizes.                                      *)
(*                                                                         *)
(* Whatever is lost or late, no display is restored under running media:   *)
(* a request to start that is served late comes after the stop of its own  *)
(* session, and a reservation served late is one for which no start was    *)
(* ever sent (`StartedOnce').                                              *)
(*                                                                         *)
(* That viewer and browser see their own workspaces rests on the           *)
(* reservation: who has been answered holds the host (`Undisputed'), so    *)
(* the display control of HostDisplay is used by one of them at a time,    *)
(* and its invariant carries over with the browser's numbers above those   *)
(* of the connections.                                                     *)
(***************************************************************************)
EXTENDS BrowserHost, HostDisplay_proofs

-----------------------------------------------------------------------------
(* The invariants                                                          *)

Phases == {"idle", "active", "retry", "wait"} \cup Operating \cup Ending

BrowserStates ==
    [phase : Phases, id : 0..MaxSessions, cancelled : BOOLEAN, owned : BOOLEAN,
     number : 0..MaxBrowserResizes,
     awaited : {0} \cup MaxResizes + 1..MaxResizes + MaxBrowserResizes,
     live : {"none", "display", "media", "stale"}, waits : BOOLEAN,
     reply : {"none", "ok", "refused", "gone", "unavailable"}]

\* What each phase of a session b implies.
Sound(b) ==
    /\ b \in BrowserStates
    /\ b.phase # "idle" => b.id # 0
    /\ b.phase \in {"idle", "reserve", "resize", "start"} => b.live = "none"
    /\ b.phase = "reserve" => b.number < MaxBrowserResizes
    /\ b.owned => b.phase \notin {"idle", "reserve"}
    /\ b.reply = "refused" => b.phase \in {"reserve", "start", "wait"}

HostTyped ==
    /\ takeover \in BOOLEAN
    /\ late \subseteq Calling \X Sessions
    /\ lost \in 0..MaxLost
    /\ holder \in {Nobody, Viewers} \cup Sessions
    /\ media \in {"none", "reserved", "running", "stopped"}

\* The host has not heard of sessions to come.
Known == /\ holder \in Sessions => holder <= browser.id
         /\ \A r \in late : r[2] <= browser.id

Reserving == <<"reserve", browser.id>> \in late
Starting  == <<"start", browser.id>> \in late

\* The stop of the session has been acknowledged.
StopServed == \/ browser.phase \in {"settle", "release"}
              \/ browser.phase = "stop" /\ browser.reply = "ok"

\* No start was sent in a session of which the reservation may still be served;
\* and once it has been stopped, its media neither run nor will.
StartedOnce ==
    /\ browser.phase = "reserve" => ~Starting
    /\ Reserving =>
          /\ ~Starting
          /\ browser.phase \notin {"resize", "start", "active"}
          /\ browser.phase = "reserve" => browser.reply = "unavailable"
    /\ StopServed /\ holder = browser.id =>
          media # "running" /\ (media = "reserved" => ~Starting)

SessionInv == Sound(browser) /\ HostTyped /\ Known /\ StartedOnce

-----------------------------------------------------------------------------
(* A session                                                               *)

\* A session that is not held holds nothing, and waits for nothing.
LEMMA BrowserBounds ==
    /\ MaxSessions \in Nat /\ MaxBrowserResizes \in Nat /\ MaxLost \in Nat /\ MaxResizes \in Nat
    /\ Nobody = 0 /\ Viewers = -1 /\ Viewers \notin Sessions /\ Nobody \notin Sessions
    /\ \A s \in Sessions : s \in Nat /\ s # 0
    /\ Browser \notin Links \cup {NoLink, Physical, Disturbed}
  BY BrowserConstants, DisplayConstants DEF Nobody, Viewers, Sessions

\* The fields of a session.
LEMMA Fields ==
    ASSUME NEW b \in BrowserStates
    PROVE  /\ b.phase \in Phases /\ b.id \in Nat /\ b.id <= MaxSessions /\ b.number \in Nat
           /\ b.id # 0 => b.id \in Sessions
  BY BrowserBounds DEF BrowserStates, Sessions

\* A session that nobody has asked anything of.
LEMMA IdleSound ==
    ASSUME NEW b \in BrowserStates
    PROVE  /\ Sound(Idle(b.id, b.number)) /\ Idle(b.id, b.number).id = b.id
           /\ Idle(b.id, b.number).phase = "idle" /\ Idle(b.id, b.number).reply = "none"
           /\ Idle(b.id, b.number).number = b.number
  BY DEF Idle, Sound, BrowserStates, Phases

\* A request of the session is sent.
LEMMA CallSound ==
    ASSUME NEW b \in BrowserStates, b.id # 0, NEW action \in Phases,
           action \in {"idle", "reserve", "resize", "start"} => b.live = "none",
           action = "reserve" => b.number < MaxBrowserResizes,
           action \in {"idle", "reserve"} => ~b.owned
    PROVE  /\ Sound(Call(b, action))
           /\ Call(b, action) = [b EXCEPT !.phase = action, !.reply = "none"]
           /\ Call(b, action).phase = action /\ Call(b, action).reply = "none"
           /\ Call(b, action).id = b.id /\ Call(b, action).owned = b.owned
           /\ Call(b, action).live = b.live /\ Call(b, action).awaited = b.awaited
           /\ Call(b, action).number = b.number
  BY DEF Call, Sound, BrowserStates

\* end() stops the session, or waits for the host that it would ask.
LEMMA EndNowSound ==
    ASSUME NEW b \in BrowserStates, b.id # 0
    PROVE  /\ Sound(EndNow(b))
           /\ EndNow(b).id = b.id /\ EndNow(b).owned = b.owned
           /\ EndNow(b).phase = IF hostState = "up" THEN "stop" ELSE "wait"
           /\ hostState = "up" => EndNow(b).reply = "none"
           /\ EndNow(b).awaited = b.awaited /\ EndNow(b).number = b.number
<1>1. CASE hostState = "up"
  <2> DEFINE c == Call(b, "stop")
             flag == IF b.live = "none" THEN "none" ELSE "stale"
  <2>1. "stop" \in Phases
    BY DEF Phases, Ending
  <2>2. Sound(c) /\ c.phase = "stop" /\ c.reply = "none" /\ c.id = b.id /\ c.owned = b.owned
        /\ c.awaited = b.awaited /\ c.number = b.number
    BY <2>1, CallSound
  <2>3. EndNow(b) = [c EXCEPT !.live = flag] /\ flag \in {"none", "stale"}
    BY <1>1 DEF EndNow
  <2> HIDE DEF c, flag
  <2> QED
    BY <1>1, <2>2, <2>3 DEF Sound, BrowserStates
<1>2. CASE hostState # "up"
  <2>1. EndNow(b) = [b EXCEPT !.phase = "wait", !.cancelled = TRUE] /\ "wait" \in Phases
    BY <1>2 DEF EndNow, Phases
  <2> QED
    BY <1>2, <2>1 DEF Sound, BrowserStates
<1> QED
  BY <1>1, <1>2

\* How a session goes on while the host serves it nothing.
Onward ==
    /\ Sound(browser') /\ browser'.id = browser.id
    /\ browser'.phase \in {"resize", "start", "active"} =>
          \/ browser.phase \in {"resize", "start", "active"}
          \/ browser.phase = "reserve" /\ browser.reply = "ok"
    /\ browser'.phase = "reserve" =>
          browser.phase = "reserve" /\ browser'.reply \in {browser.reply, "unavailable"}
    /\ StopServed' => StopServed

LEMMA OnwardKeeps ==
    ASSUME SessionInv, Onward, takeover' \in BOOLEAN, UNCHANGED hostedVars
    PROVE  SessionInv'
<1>1. HostTyped' /\ Known'
  BY DEF SessionInv, HostTyped, Known, Onward, hostedVars
<1>2. StartedOnce'
  BY DEF SessionInv, StartedOnce, Reserving, Starting, Onward, hostedVars
<1> QED
  BY <1>1, <1>2 DEF SessionInv, Onward

-----------------------------------------------------------------------------
(* The steps of a session                                                  *)

\* A display request counts the numbers of the browser on.
LEMMA ResizeSound ==
    ASSUME browser \in BrowserStates, browser.number < MaxBrowserResizes,
           NEW b, NEW rejected, Sound(b), b.number = browser.number, b.phase # "reserve",
           ResizeDisplay(b, rejected)
    PROVE  \/ Rejected(NextSequence) /\ browser' = rejected /\ UNCHANGED vars
           \/ /\ ~Rejected(NextSequence) /\ Sound(browser')
              /\ browser' = [b EXCEPT !.number = b.number + 1, !.awaited = NextSequence]
              /\ browser'.phase = b.phase /\ browser'.id = b.id /\ browser'.reply = b.reply
              /\ browser'.owned = b.owned /\ browser'.live = b.live
<1>1. CASE Rejected(NextSequence)
  BY <1>1 DEF ResizeDisplay
<1>2. CASE ~Rejected(NextSequence)
  <2>1. browser' = [b EXCEPT !.number = b.number + 1, !.awaited = NextSequence]
    BY <1>2 DEF ResizeDisplay
  <2>2. /\ b.number + 1 \in 0..MaxBrowserResizes
        /\ NextSequence \in MaxResizes + 1..MaxResizes + MaxBrowserResizes
    BY BrowserBounds DEF NextSequence, BrowserStates, Sound
  <2>3. b \in BrowserStates
    BY DEF Sound
  <2> HIDE DEF NextSequence
  <2>4. /\ browser' \in BrowserStates
        /\ browser'.phase = b.phase /\ browser'.id = b.id /\ browser'.reply = b.reply
        /\ browser'.owned = b.owned /\ browser'.live = b.live
    BY <2>1, <2>2, <2>3 DEF BrowserStates
  <2> QED
    BY <1>2, <2>1, <2>4 DEF Sound
<1> QED
  BY <1>1, <1>2

\* The session ends or begins to wait for its end.
LEMMA EndOnward ==
    ASSUME SessionInv, NEW b \in BrowserStates, b.id = browser.id, browser.id # 0,
           browser' = EndNow(b)
    PROVE  Onward
  BY EndNowSound DEF Onward, StopServed

\* The session is forgotten.
LEMMA ForgetOnward ==
    ASSUME SessionInv, Forget
    PROVE  Onward /\ takeover' \in BOOLEAN /\ browser'.phase = "idle"
<1>1. browser \in BrowserStates
  BY DEF SessionInv, Sound
<1> QED
  BY <1>1, IdleSound DEF Forget, Onward, StopServed

\* end(), at any time.
LEMMA EndKeeps ==
    ASSUME SessionInv, busy, End, takeover' \in BOOLEAN, UNCHANGED hostedVars
    PROVE  SessionInv'
<1>1. Sound(browser) /\ browser.phase # "idle" /\ browser.id # 0
  BY DEF SessionInv, Sound, busy
<1>2. CASE browser.phase \in Operating
  <2>1. browser' = [browser EXCEPT !.cancelled = TRUE]
    BY <1>2 DEF End, Cancelled, Operating, Ending
  <2> QED
    BY <1>1, <2>1, OnwardKeeps DEF Onward, Sound, BrowserStates, StopServed
<1>3. CASE browser.phase \in Ending
  <2>1. browser' = browser
    BY <1>3 DEF End, Operating, Ending
  <2> QED
    BY <1>1, <2>1, OnwardKeeps DEF Onward, StopServed
<1>4. CASE browser.phase \notin Operating \cup Ending
  <2>1. browser' = EndNow(browser)
    BY <1>4 DEF End
  <2> QED
    BY <1>1, <2>1, EndOnward, OnwardKeeps DEF Sound
<1> QED
  BY <1>2, <1>3, <1>4

\* The reply to the reservation: only one that was confirmed goes on.
LEMMA ReservedKeeps ==
    ASSUME SessionInv, Reserved
    PROVE  SessionInv'
<1>1. /\ Sound(browser) /\ browser \in BrowserStates /\ browser.phase = "reserve" /\ browser.id # 0
      /\ browser.live = "none" /\ browser.number < MaxBrowserResizes
      /\ UNCHANGED hostedVars /\ takeover \in BOOLEAN
  BY DEF SessionInv, HostTyped, Sound, Reserved
<1>2. CASE browser.reply \in {"refused", "gone"}
  <2>1. Forget
    BY <1>2 DEF Reserved
  <2> QED
    BY <1>1, <2>1, ForgetOnward, OnwardKeeps
<1>3. CASE browser.reply \notin {"refused", "gone"} /\ (browser.reply = "unavailable" \/ browser.cancelled)
  <2>1. browser' = EndNow(browser) /\ UNCHANGED takeover
    BY <1>3 DEF Reserved
  <2> QED
    BY <1>1, <2>1, EndOnward, OnwardKeeps
<1>4. CASE browser.reply = "ok" /\ ~browser.cancelled /\ ~Available
  <2>1. browser' = Call(browser, "start") /\ UNCHANGED takeover /\ "start" \in Phases
    BY <1>4 DEF Reserved, Phases, Operating
  <2>2. Onward
    BY <1>1, <1>4, <2>1, CallSound DEF Onward, StopServed
  <2> QED
    BY <1>1, <2>1, <2>2, OnwardKeeps
<1>5. CASE browser.reply = "ok" /\ ~browser.cancelled /\ Available
  <2> DEFINE owner == [browser EXCEPT !.owned = TRUE, !.phase = "resize"]
  <2>1. ResizeDisplay(owner, EndNow(owner)) /\ UNCHANGED takeover
    BY <1>5 DEF Reserved
  <2>2. /\ Sound(owner) /\ owner \in BrowserStates /\ owner.phase = "resize"
        /\ owner.id = browser.id /\ owner.number = browser.number
    BY <1>1, <1>5 DEF Sound, BrowserStates, Phases, Operating
  <2> HIDE DEF owner
  <2>3. Onward
    <3>1. CASE browser' = EndNow(owner)
      BY <1>1, <2>2, <3>1, EndOnward
    <3>2. CASE browser' # EndNow(owner)
      BY <1>1, <1>5, <2>1, <2>2, <3>2, ResizeSound DEF Onward, StopServed
    <3> QED
      BY <3>1, <3>2
  <2> QED
    BY <1>1, <2>1, <2>3, OnwardKeeps
<1>6. browser.reply \in {"ok", "refused", "gone", "unavailable"}
  BY <1>1 DEF Reserved, BrowserStates
<1> QED
  BY <1>2, <1>3, <1>4, <1>5, <1>6

\* The other replies, and the timers of the end.
LEMMA RepliesKeep ==
    ASSUME SessionInv, Started \/ Stopped \/ Released \/ BrowserSettleTimeout \/ EndAgain \/ PollEnds
    PROVE  SessionInv'
<1>1. /\ Sound(browser) /\ browser \in BrowserStates /\ browser.phase # "idle" /\ browser.id # 0
      /\ UNCHANGED hostedVars /\ takeover \in BOOLEAN
  BY DEF SessionInv, HostTyped, Sound, Started, Stopped, Released, BrowserSettleTimeout, EndAgain,
     PollEnds
<1>2. {"active", "retry", "settle", "release"} \subseteq Phases
  BY DEF Phases, Ending
<1>3. CASE browser' = EndNow(browser) /\ UNCHANGED takeover
  BY <1>1, <1>3, EndOnward, OnwardKeeps
<1>4. CASE Started /\ browser' = Call(browser, "active")
  <2>1. browser.phase = "start" /\ "active" \in Phases /\ UNCHANGED takeover
    BY <1>2, <1>4 DEF Started
  <2>2. Sound(browser') /\ browser'.phase = "active" /\ browser'.id = browser.id
    BY <1>1, <1>4, <2>1, CallSound
  <2>3. Onward
    BY <2>1, <2>2 DEF Onward, StopServed
  <2> QED
    BY <1>1, <2>1, <2>3, OnwardKeeps
<1>5. CASE Forget
  BY <1>1, <1>5, ForgetOnward, OnwardKeeps
<1>6. CASE Retry
  <2>1. Onward /\ takeover' \in BOOLEAN
    BY <1>1, <1>2, <1>6, CallSound DEF Onward, StopServed, Retry
  <2> QED
    BY <1>1, <2>1, OnwardKeeps
<1>7. CASE browser' = Call(browser, "settle") /\ UNCHANGED takeover /\ StopServed
  <2>1. Onward
    BY <1>1, <1>2, <1>7, CallSound DEF Onward, StopServed
  <2> QED
    BY <1>1, <1>7, <2>1, OnwardKeeps
<1>8. CASE browser' = Call(browser, "release") /\ UNCHANGED takeover /\ StopServed
  <2>1. Onward
    BY <1>1, <1>2, <1>8, CallSound DEF Onward, StopServed
  <2> QED
    BY <1>1, <1>8, <2>1, OnwardKeeps
<1>9. CASE browser' = [Call(browser, "release") EXCEPT !.owned = FALSE] /\ UNCHANGED takeover /\ StopServed
  <2> DEFINE c == Call(browser, "release")
  <2>1. Sound(c) /\ c.phase = "release" /\ c.id = browser.id /\ c.reply = "none"
    BY <1>1, <1>2, CallSound
  <2>2. browser' = [c EXCEPT !.owned = FALSE]
    BY <1>9
  <2> HIDE DEF c
  <2>3. Onward
    BY <1>9, <2>1, <2>2 DEF Onward, Sound, BrowserStates, StopServed
  <2> QED
    BY <1>1, <1>9, <2>3, OnwardKeeps
<1>10. CASE Started
  BY <1>3, <1>4, <1>10 DEF Started
<1>11. CASE Stopped
  BY <1>5, <1>6, <1>7, <1>9, <1>11 DEF Stopped, StopProven, StopServed
<1>12. CASE Released
  BY <1>5, <1>6, <1>12 DEF Released
<1>13. CASE BrowserSettleTimeout
  BY <1>8, <1>13 DEF BrowserSettleTimeout, StopServed
<1>14. CASE EndAgain \/ PollEnds
  BY <1>3, <1>14 DEF EndAgain, PollEnds
<1> QED
  BY <1>10, <1>11, <1>12, <1>13, <1>14

\* A live resize: the session stays where it is.
LEMMA LiveKeeps ==
    ASSUME SessionInv, LiveResize \/ LiveResized
    PROVE  SessionInv'
<1>1. /\ Sound(browser) /\ browser \in BrowserStates /\ UNCHANGED hostedVars /\ takeover \in BOOLEAN
      /\ UNCHANGED takeover
  BY DEF SessionInv, HostTyped, Sound, LiveResize, LiveResized
<1>2. browser.phase \notin {"idle", "reserve", "resize", "start"}
  BY <1>1 DEF LiveResize, LiveResized, Sound
<1>3. ASSUME NEW b, b \in {browser, [browser EXCEPT !.waits = FALSE]}, ToDisplay(b)
      PROVE  SessionInv'
  <2>1. /\ b \in BrowserStates /\ b.phase = browser.phase /\ b.id = browser.id
        /\ b.number = browser.number /\ b.reply = browser.reply /\ b.owned = browser.owned
    BY <1>1, <1>3 DEF BrowserStates
  <2>2. ASSUME NEW now \in {"display", "media", "none"}
        PROVE  LET c == [b EXCEPT !.live = now]
               IN  /\ Sound(c) /\ c.phase = browser.phase /\ c.id = browser.id
                   /\ c.number = browser.number /\ c.reply = browser.reply
    BY <1>1, <1>2, <2>1 DEF Sound, BrowserStates
  <2>3. /\ Sound(browser') /\ browser'.phase = browser.phase /\ browser'.id = browser.id
        /\ browser'.reply = browser.reply
    <3>1. CASE browser.owned /\ Available
      <4>1. /\ browser.number < MaxBrowserResizes
            /\ ResizeDisplay([b EXCEPT !.live = "display"], [b EXCEPT !.live = "none"])
        BY <1>3, <3>1 DEF ToDisplay
      <4> QED
        BY <1>1, <1>2, <2>2, <4>1, ResizeSound
    <3>2. CASE ~(browser.owned /\ Available)
      BY <1>3, <2>2, <3>2 DEF ToDisplay
    <3> QED
      BY <3>1, <3>2
  <2>4. Onward
    BY <1>2, <2>3 DEF Onward, StopServed
  <2> QED
    BY <1>1, <2>4, OnwardKeeps
<1>4. ASSUME browser' = [browser EXCEPT !.waits = TRUE] \/ browser' = [browser EXCEPT !.live = "none"]
      PROVE  SessionInv'
  <2>1. Onward
    BY <1>1, <1>2, <1>4 DEF Onward, StopServed, Sound, BrowserStates
  <2> QED
    BY <1>1, <2>1, OnwardKeeps
<1> QED
  BY <1>3, <1>4 DEF LiveResize, LiveResized

\* The callback of the display request.
LEMMA AnsweredOnward ==
    ASSUME SessionInv, NEW okay, browser.awaited # 0, browser' = DisplayAnswered(okay)
    PROVE  Onward
<1> DEFINE b == [browser EXCEPT !.awaited = 0]
<1>1. /\ Sound(browser) /\ Sound(b) /\ b \in BrowserStates /\ b.phase = browser.phase /\ b.id = browser.id
      /\ b.live = browser.live /\ b.owned = browser.owned /\ b.number = browser.number
      /\ b.reply = browser.reply /\ b.cancelled = browser.cancelled
  BY DEF SessionInv, Sound, BrowserStates
<1> HIDE DEF b
<1>2. browser' = CASE b.phase = "resize" -> IF okay /\ ~b.cancelled THEN Call(b, "start") ELSE EndNow(b)
                   [] b.phase # "resize" /\ b.live = "display" ->
                         [b EXCEPT !.live = IF okay THEN "media" ELSE "none"]
                   [] OTHER -> b
  BY DEF DisplayAnswered, b
<1>3. CASE b.phase = "resize"
  <2>1. b.id # 0 /\ "start" \in Phases /\ b.live = "none" /\ ~(b.owned /\ b.phase = "idle")
    BY <1>1, <1>3 DEF Sound, Phases, Operating
  <2>2. CASE okay /\ ~b.cancelled
    <3>1. browser' = Call(b, "start")
      BY <1>2, <1>3, <2>2
    <3>2. Sound(Call(b, "start")) /\ Call(b, "start").phase = "start" /\ Call(b, "start").id = b.id
      BY <1>1, <2>1, CallSound
    <3>3. Sound(browser') /\ browser'.phase = "start" /\ browser'.id = b.id
      BY <3>1, <3>2
    <3> QED
      BY <1>1, <1>3, <3>3 DEF Onward, StopServed
  <2>3. CASE ~(okay /\ ~b.cancelled)
    <3>1. browser' = EndNow(b)
      BY <1>2, <1>3, <2>3
    <3> QED
      BY <1>1, <2>1, <3>1, EndOnward
  <2> QED
    BY <2>2, <2>3
<1>4. CASE b.phase # "resize" /\ b.live = "display"
  <2>1. PICK now \in {"media", "none"} : browser' = [b EXCEPT !.live = now]
    BY <1>2, <1>4
  <2>2. Sound(browser') /\ browser'.phase = b.phase /\ browser'.id = b.id /\ browser'.reply = b.reply
    BY <1>1, <1>4, <2>1 DEF Sound, BrowserStates
  <2> QED
    BY <1>1, <2>2 DEF Onward, StopServed
<1>5. CASE b.phase # "resize" /\ b.live # "display"
  <2>1. browser' = b
    BY <1>2, <1>5
  <2> QED
    BY <1>1, <2>1 DEF Onward, StopServed
<1> QED
  BY <1>3, <1>4, <1>5

\* displayResized reaches the session.
LEMMA HearsKeeps ==
    ASSUME SessionInv, NEW okay, BrowserHears(okay)
    PROVE  SessionInv'
<1>1. /\ Sound(browser) /\ browser \in BrowserStates /\ UNCHANGED hostedVars
      /\ takeover' \in BOOLEAN
  BY DEF SessionInv, HostTyped, Sound, BrowserHears
<1>2. \/ browser.awaited # 0 /\ browser' = DisplayAnswered(okay)
      \/ browser.awaited # 0 /\ browser' = DisplayAnswered(FALSE)
      \/ browser.phase = "settle" /\ browser' = [Call(browser, "release") EXCEPT !.owned = ~okay]
      \/ browser' = browser
  BY DEF BrowserHears
<1>3. CASE browser.awaited # 0 /\ \E said : browser' = DisplayAnswered(said)
  <2>1. PICK said : browser' = DisplayAnswered(said)
    BY <1>3
  <2> QED
    BY <1>1, <1>3, <2>1, AnsweredOnward, OnwardKeeps
<1>4. CASE browser.phase = "settle" /\ browser' = [Call(browser, "release") EXCEPT !.owned = ~okay]
  <2> DEFINE c == Call(browser, "release")
  <2>1. "release" \in Phases /\ browser.id # 0
    BY <1>1, <1>4 DEF Phases, Ending, Sound
  <2>2. Sound(c) /\ c.phase = "release" /\ c.id = browser.id /\ c.reply = "none"
    BY <1>1, <2>1, CallSound
  <2>3. browser' = [c EXCEPT !.owned = ~okay]
    BY <1>4
  <2> HIDE DEF c
  <2>4. Onward
    BY <1>4, <2>2, <2>3 DEF Onward, Sound, BrowserStates, StopServed
  <2> QED
    BY <1>1, <2>4, OnwardKeeps
<1>5. CASE browser' = browser
  <2>1. Onward
    BY <1>1, <1>5 DEF Onward, StopServed
  <2> QED
    BY <1>1, <2>1, OnwardKeeps
<1> QED
  BY <1>2, <1>3, <1>4, <1>5

-----------------------------------------------------------------------------
(* The host                                                                *)

\* What the host makes of a request, seen from the session of the moment.
LEMMA Served ==
    ASSUME SessionInv, NEW action \in Calling, NEW s \in Sessions, s <= browser.id,
           NEW answer, Serve(action, s, answer)
    PROVE  /\ holder' \in {Nobody, Viewers} \cup Sessions
           /\ media' \in {"none", "reserved", "running", "stopped"}
           /\ holder' \in Sessions => holder' <= browser.id
           /\ holder' # holder => holder \in Sessions \cup {Nobody} /\ (holder' = s \/ holder' = Nobody)
           /\ holder' = browser.id /\ holder # browser.id => action = "reserve" /\ s = browser.id
                                                               /\ media' = "reserved"
           /\ holder' = browser.id /\ holder = browser.id =>
                 \/ media' = media \/ media' = "stopped"
                 \/ media' = "running" /\ media = "reserved" /\ action = "start" /\ s = browser.id
           /\ action = "stop" /\ holder' = s => media' = "stopped"
           /\ action = "reserve" /\ answer = "ok" => holder' = s
           /\ action # "reserve" => holder' = holder \/ (action = "release" /\ holder = s)
           /\ answer = "refused" => action \in {"reserve", "start"}
<1>1. /\ HostTyped /\ Known /\ browser \in BrowserStates
  BY DEF SessionInv, Sound
<1>2. /\ holder \in {Nobody, Viewers} \cup Sessions /\ (holder \in Sessions => holder <= browser.id)
      /\ media \in {"none", "reserved", "running", "stopped"} /\ Nobody \notin Sessions
      /\ Nobody # browser.id \/ browser.id = 0
  BY <1>1, BrowserBounds DEF HostTyped, Known
<1>3. s # Nobody /\ s # Viewers /\ browser.id # Nobody
  BY <1>1, BrowserBounds DEF BrowserStates
<1> HIDE DEF Sessions, Nobody, Viewers
<1>4. CASE action = "reserve"
  <2>1. CASE holder \notin {Nobody, s}
    BY <1>2, <1>3, <1>4, <2>1 DEF Serve
  <2>2. CASE holder \in {Nobody, s}
    BY <1>2, <1>3, <1>4, <2>2 DEF Serve
  <2> QED
    BY <2>1, <2>2
<1>5. CASE action = "start"
  BY <1>2, <1>3, <1>5 DEF Serve, Startable
<1>6. CASE action = "stop"
  BY <1>2, <1>3, <1>6 DEF Serve
<1>7. CASE action = "release"
  BY <1>2, <1>3, <1>7 DEF Serve
<1> QED
  BY <1>4, <1>5, <1>6, <1>7 DEF Calling

LEMMA HostServesKeeps ==
    ASSUME SessionInv, HostServes
    PROVE  SessionInv'
<1>1. /\ Sound(browser) /\ browser \in BrowserStates /\ HostTyped /\ Known /\ StartedOnce
      /\ browser.phase \in Calling /\ browser.reply = "none" /\ UNCHANGED <<takeover, late, lost>>
      /\ browser.id \in Sessions
  BY Fields DEF SessionInv, HostServes, Sound, Calling
<1>2. PICK answer \in {"ok", "refused", "gone"} :
          Serve(browser.phase, browser.id, answer) /\ browser' = [browser EXCEPT !.reply = answer]
  BY DEF HostServes
<1>3. browser.id <= browser.id
  BY <1>1, BrowserBounds DEF BrowserStates
<1>4. /\ holder' \in {Nobody, Viewers} \cup Sessions
      /\ media' \in {"none", "reserved", "running", "stopped"}
      /\ holder' \in Sessions => holder' <= browser.id
      /\ holder' = browser.id /\ holder # browser.id => browser.phase = "reserve"
      /\ holder' = browser.id /\ holder = browser.id =>
            media' = media \/ media' = "stopped" \/ browser.phase = "start"
      /\ browser.phase = "stop" /\ holder' = browser.id => media' = "stopped"
      /\ answer = "refused" => browser.phase \in {"reserve", "start"}
  BY <1>1, <1>2, <1>3, Served
<1>5. /\ Sound(browser') /\ browser'.id = browser.id /\ browser'.phase = browser.phase
      /\ browser'.reply = answer
  BY <1>1, <1>2, <1>4 DEF Sound, BrowserStates
<1>6. HostTyped' /\ Known'
  BY <1>1, <1>4, <1>5 DEF HostTyped, Known
<1>7. StartedOnce'
  <2>1. /\ Reserving' => browser.phase # "reserve" /\ ~Starting' /\ browser'.phase \notin {"resize", "start", "active"}
        /\ browser'.phase = "reserve" => ~Starting'
    BY <1>1, <1>5 DEF StartedOnce, Reserving, Starting
  <2>2. ASSUME StopServed', holder' = browser.id
        PROVE  media' # "running" /\ (media' = "reserved" => ~Starting')
    <3>1. CASE browser.phase = "stop"
      BY <1>4, <2>2, <3>1
    <3>2. CASE browser.phase # "stop"
      <4>1. browser.phase = "release" /\ StopServed
        BY <1>1, <1>5, <2>2, <3>2 DEF StopServed, Calling
      <4> QED
        BY <1>1, <1>4, <1>5, <2>2, <4>1 DEF StartedOnce, Starting
    <3> QED
      BY <3>1, <3>2
  <2> QED
    BY <1>5, <2>1, <2>2 DEF StartedOnce
<1> QED
  BY <1>5, <1>6, <1>7 DEF SessionInv

\* A request that the session has given up on.
LEMMA LateKeeps ==
    ASSUME SessionInv, LateServed
    PROVE  SessionInv'
<1>1. /\ Sound(browser) /\ browser \in BrowserStates /\ HostTyped /\ Known /\ StartedOnce
      /\ UNCHANGED <<takeover, browser, lost>>
  BY DEF SessionInv, LateServed, Sound
<1>2. PICK r \in late, answer \in {"ok", "refused", "gone"} :
          late' = late \ {r} /\ Serve(r[1], r[2], answer)
  BY DEF LateServed
<1>3. r[1] \in Calling /\ r[2] \in Sessions /\ r = <<r[1], r[2]>> /\ r[2] <= browser.id
  BY <1>1 DEF HostTyped, Known
<1>4. /\ holder' \in {Nobody, Viewers} \cup Sessions
      /\ media' \in {"none", "reserved", "running", "stopped"}
      /\ holder' \in Sessions => holder' <= browser.id
      /\ holder' = browser.id /\ holder # browser.id => r = <<"reserve", browser.id>> /\ media' = "reserved"
      /\ holder' = browser.id /\ holder = browser.id =>
             media' = media \/ media' = "stopped"
                \/ (media' = "running" /\ media = "reserved" /\ r = <<"start", browser.id>>)
  BY <1>1, <1>2, <1>3, Served
<1>5. HostTyped' /\ Known'
  BY <1>1, <1>2, <1>4 DEF HostTyped, Known
<1>6. StartedOnce'
  <2>1. /\ Reserving' => Reserving
        /\ Starting' => Starting
        /\ StopServed' <=> StopServed
    BY <1>1, <1>2 DEF Reserving, Starting, StopServed
  <2>2. ASSUME StopServed, holder' = browser.id
        PROVE  media' # "running" /\ (media' = "reserved" => ~Starting')
    <3>1. CASE holder # browser.id
      BY <1>1, <1>2, <1>4, <2>1, <2>2, <3>1 DEF StartedOnce, Reserving
    <3>2. CASE holder = browser.id
      BY <1>1, <1>2, <1>4, <2>1, <2>2, <3>2 DEF StartedOnce, Starting
    <3> QED
      BY <3>1, <3>2
  <2> QED
    BY <1>1, <2>1, <2>2 DEF StartedOnce
<1> QED
  BY <1>1, <1>5, <1>6 DEF SessionInv

\* What happens at the host by itself.
LEMMA HostsKeep ==
    ASSUME SessionInv, RequestLost \/ MediaStops \/ WatchdogReleases \/ ViewerAcquires \/ ViewerReleases
    PROVE  SessionInv'
<1>1. /\ Sound(browser) /\ browser \in BrowserStates /\ HostTyped /\ Known /\ StartedOnce
  BY DEF SessionInv, Sound
<1>2. CASE RequestLost
  <2>1. /\ browser.phase \in Calling /\ browser' = [browser EXCEPT !.reply = "unavailable"]
        /\ UNCHANGED <<takeover, holder, media>> /\ lost' \in 0..MaxLost
        /\ late' = IF browser.reply = "none" THEN late \cup {<<browser.phase, browser.id>>} ELSE late
    BY <1>1, <1>2, BrowserBounds, BrowserConstants DEF RequestLost, HostTyped, Calling
  <2>2. /\ Sound(browser') /\ browser'.id = browser.id /\ browser'.phase = browser.phase
        /\ browser'.reply = "unavailable" /\ browser.id \in Sessions
    BY <1>1, <2>1, Fields DEF Sound, BrowserStates, Calling
  <2>3. HostTyped' /\ Known'
    <3>1. browser.id <= browser.id
      BY <1>1, BrowserBounds DEF BrowserStates
    <3> QED
      BY <1>1, <2>1, <2>2, <3>1 DEF HostTyped, Known
  <2>4. StartedOnce'
    <3>1. Reserving' => Reserving \/ browser.phase = "reserve"
      BY <2>1, <2>2 DEF Reserving
    <3>2. Starting' => Starting \/ browser.phase = "start"
      BY <2>1, <2>2 DEF Starting
    <3>3. browser.phase = "reserve" => ~Starting'
      BY <1>1, <3>2 DEF StartedOnce
    <3>4. StopServed' => StopServed /\ browser.phase # "start"
      BY <2>2 DEF StopServed
    <3> QED
      BY <1>1, <2>1, <2>2, <3>1, <3>2, <3>3, <3>4 DEF StartedOnce
  <2> QED
    BY <2>2, <2>3, <2>4 DEF SessionInv
<1>3. CASE MediaStops \/ WatchdogReleases \/ ViewerAcquires \/ ViewerReleases
  <2>1. /\ UNCHANGED <<browser, takeover, late, lost>>
        /\ holder' \in {holder, Nobody, Viewers}
        /\ media' \in {media, "stopped", "none"}
    BY <1>3 DEF MediaStops, WatchdogReleases, ViewerAcquires, ViewerReleases
  <2>2. HostTyped' /\ Known'
    BY <1>1, <2>1, BrowserBounds DEF HostTyped, Known
  <2>3. StartedOnce'
    <3>1. holder' = browser.id /\ browser.id # 0 => holder = browser.id
      BY <1>1, <2>1, BrowserBounds DEF BrowserStates
    <3>2. StopServed => browser.id # 0
      BY <1>1 DEF StopServed, Sound
    <3> QED
      BY <1>1, <2>1, <3>1, <3>2 DEF StartedOnce, Reserving, Starting, StopServed
  <2> QED
    BY <1>1, <2>1, <2>2, <2>3 DEF SessionInv
<1> QED
  BY <1>2, <1>3

-----------------------------------------------------------------------------
(* Every step                                                              *)

\* A page starts a session, of which nobody has heard yet.
LEMMA BeginKeeps ==
    ASSUME SessionInv, Begin
    PROVE  SessionInv'
<1> DEFINE b == [browser EXCEPT !.id = browser.id + 1]
<1>1. /\ Sound(browser) /\ browser \in BrowserStates /\ HostTyped /\ Known /\ browser.phase = "idle"
      /\ browser.number < MaxBrowserResizes /\ browser.id < MaxSessions
      /\ UNCHANGED <<takeover, hostedVars>> /\ browser' = Call(b, "reserve")
  BY DEF SessionInv, Sound, Begin, busy
<1>2. browser.id + 1 \in 0..MaxSessions /\ browser.id + 1 # 0
  BY <1>1, BrowserBounds DEF BrowserStates
<1>3. /\ b \in BrowserStates /\ b.id = browser.id + 1 /\ b.id # 0 /\ b.live = "none" /\ ~b.owned
      /\ b.number < MaxBrowserResizes
  BY <1>1, <1>2 DEF BrowserStates, Sound
<1> HIDE DEF b
<1>4. "reserve" \in Phases
  BY DEF Phases, Operating
<1>5. Sound(browser') /\ browser'.id = browser.id + 1 /\ browser'.phase = "reserve"
  BY <1>1, <1>3, <1>4, CallSound
<1>6. \A r \in late : r[2] # browser.id + 1
  BY <1>1, <1>2, BrowserBounds DEF HostTyped, Known, BrowserStates
<1>7. HostTyped' /\ Known'
  BY <1>1, <1>2, <1>5, BrowserBounds DEF HostTyped, Known, hostedVars, BrowserStates
<1>8. StartedOnce'
  BY <1>1, <1>5, <1>6 DEF StartedOnce, Reserving, Starting, StopServed, hostedVars
<1> QED
  BY <1>5, <1>7, <1>8 DEF SessionInv

\* A stop of the host invalidates the reply that is on its way.
LEMMA SharedStopKeeps ==
    ASSUME SessionInv, SharedStop
    PROVE  SessionInv'
<1>1. /\ Sound(browser) /\ browser \in BrowserStates /\ UNCHANGED hostedVars /\ takeover' \in BOOLEAN
  BY DEF SessionInv, HostTyped, Sound, SharedStop
<1>2. CASE browser.phase \in Calling
  <2>1. browser' = [browser EXCEPT !.reply = "unavailable"]
    BY <1>2 DEF SharedStop
  <2>2. /\ Sound(browser') /\ browser'.id = browser.id /\ browser'.phase = browser.phase
        /\ browser'.reply = "unavailable"
    BY <1>1, <2>1 DEF Sound, BrowserStates
  <2>3. Onward
    BY <1>2, <2>2 DEF Onward, StopServed, Calling
  <2> QED
    BY <1>1, <2>3, OnwardKeeps
<1>3. CASE browser.phase \notin Calling
  <2>1. browser' = browser
    BY <1>3 DEF SharedStop
  <2>2. Onward
    BY <1>1, <1>3, <2>1 DEF Onward, StopServed, Calling
  <2> QED
    BY <1>1, <2>2, OnwardKeeps
<1> QED
  BY <1>2, <1>3

\* With the host its reservation is gone, and all it was asked for.
LEMMA SharedDownKeeps ==
    ASSUME SessionInv, SharedDown
    PROVE  SessionInv'
<1>1. /\ Sound(browser) /\ browser \in BrowserStates /\ HostTyped
      /\ browser' = Idle(browser.id, browser.number) /\ takeover' = FALSE
      /\ holder' = Nobody /\ media' = "none" /\ late' = {} /\ UNCHANGED lost
  BY DEF SessionInv, Sound, SharedDown, Forget
<1>2. Sound(browser') /\ browser'.phase = "idle"
  BY <1>1, IdleSound
<1> QED
  BY <1>1, <1>2, BrowserBounds
  DEF SessionInv, HostTyped, Known, StartedOnce, Reserving, Starting, StopServed

\* What does not concern the session.
LEMMA ElsewhereKeeps ==
    ASSUME SessionInv, UNCHANGED browserVars
    PROVE  SessionInv'
  BY DEF SessionInv, Sound, HostTyped, Known, StartedOnce, Reserving, Starting, StopServed, browserVars,
     BrowserStates

LEMMA SessionNext ==
    ASSUME SessionInv, [SharedNext]_sharedVars
    PROVE  SessionInv'
<1>1. CASE Begin
  BY <1>1, BeginKeeps
<1>2. CASE Callback \/ BrowserSettleTimeout \/ EndAgain \/ PollEnds
  BY <1>2, ReservedKeeps, RepliesKeep DEF Callback
<1>3. CASE LiveResize \/ LiveResized
  BY <1>3, LiveKeeps
<1>4. CASE PageStops \/ TakeoverRequested
  <2>1. busy /\ End /\ UNCHANGED hostedVars /\ takeover' \in BOOLEAN
    BY <1>4 DEF PageStops, TakeoverRequested, SessionInv, HostTyped
  <2> QED
    BY <2>1, EndKeeps
<1>5. CASE HostServes \/ RequestLost \/ LateServed \/ MediaStops \/ WatchdogReleases
           \/ ViewerAcquires \/ ViewerReleases
  BY <1>5, HostServesKeeps, LateKeeps, HostsKeep
<1>6. CASE SharedAck
  BY <1>6, HearsKeeps, ElsewhereKeeps DEF SharedAck, HelperAck
<1>7. CASE SharedTimeout
  BY <1>7, HearsKeeps DEF SharedTimeout
<1>8. CASE SharedStop \/ SharedDown
  BY <1>8, SharedStopKeeps, SharedDownKeeps
<1>9. CASE Viewer \/ DisplayStep \/ UNCHANGED sharedVars
  BY <1>9, ElsewhereKeeps DEF Viewer, DisplayStep, sharedVars
<1> QED
  BY <1>1, <1>2, <1>3, <1>4, <1>5, <1>6, <1>7, <1>8, <1>9 DEF SharedNext

-----------------------------------------------------------------------------
(* Typing, and no display restored under running media: whatever is lost   *)

LEMMA SessionInit == SharedInit => SessionInv
<1> SUFFICES ASSUME SharedInit PROVE SessionInv
  OBVIOUS
<1>1. browser = Idle(0, 0) /\ takeover = FALSE /\ late = {} /\ lost = 0 /\ holder = Nobody /\ media = "none"
  BY DEF SharedInit
<1>2. Sound(browser) /\ browser.phase = "idle"
  BY <1>1, BrowserBounds DEF Idle, Sound, BrowserStates, Phases
<1>3. HostTyped /\ Known
  <2>1. lost \in 0..MaxLost /\ holder \notin Sessions /\ late = {}
    BY <1>1, BrowserBounds
  <2> QED
    BY <1>1, <2>1 DEF HostTyped, Known
<1>4. StartedOnce
  BY <1>1, <1>2 DEF StartedOnce, Reserving, Starting, StopServed
<1> QED
  BY <1>2, <1>3, <1>4 DEF SessionInv

LEMMA SessionInvariant == SharedSpec => []SessionInv
  BY SessionInit, SessionNext, PTL DEF SharedSpec

\* The state of the browser's session and of the host is well-typed.
THEOREM BrowserTyped == SharedSpec => []BrowserTypeOK
<1>1. SessionInv => BrowserTypeOK
  BY DEF SessionInv, Sound, HostTyped, BrowserTypeOK, BrowserStates, Phases
<1> QED
  BY <1>1, SessionInvariant, PTL

\* The display is given back only when the session's media have stopped.
THEOREM MediaFirst == SharedSpec => []MediaStopsFirst
<1>1. SessionInv => MediaStopsFirst
  BY DEF SessionInv, StartedOnce, StopServed, MediaStopsFirst
<1> QED
  BY <1>1, SessionInvariant, PTL

-----------------------------------------------------------------------------
(* Viewer and browser on one display                                       *)

Top == MaxResizes + MaxBrowserResizes

\* The only requests served late are reservations.
OnlyReservations == \A r \in late : r[1] = "reserve"

\* A viewer controls the display only while viewers hold the host.
Apart == displayLink # NoLink => holder = Viewers

\* An end fails, or is put off, only while the host stops.
EndsWithHost ==
    /\ hostState = "down" => browser.phase = "idle"
    /\ browser.phase \in {"retry", "wait"} => hostState = "stopping"
    /\ browser.reply = "unavailable" /\ browser.phase \in {"start", "stop", "release"} =>
          hostState = "stopping"

\* The phases in which a session b uses the display, or is about to.
Using(b) == \/ b.phase \in {"resize", "start", "active"}
            \/ b.phase = "reserve" /\ b.reply = "ok"
            \/ b.phase = "stop" /\ b.owned

\* A session that uses the display holds the host.
Undisputed == hostState = "up" /\ Using(browser) => holder = browser.id

Alone == OnlyReservations /\ Apart /\ EndsWithHost /\ Undisputed

Showing == hostState = "up" /\ browser.phase \in {"start", "active"} /\ browser.owned

\* No restoration follows on the resize of a session, and nothing but its own
\* workspace is or will be shown while its media run.
Undisturbed ==
    /\ hostState = "up" /\ browser.phase = "resize" /\ sequence > MaxResizes => ~restoreArmed
    /\ Showing => /\ ~restoreArmed /\ queued = NoRequest
                  /\ sequence = 0 \/ sequence > MaxResizes
                  /\ \A i \in 1..Len(toHelper) : toHelper[i].owner = Browser
                  /\ HelperMayFail \/ workspace = Browser

SharedInv == DisplayInv(Top, Browser) /\ Alone /\ Undisturbed

\* Who uses the display is no viewer's neighbour.
LEMMA UsingAlone ==
    ASSUME SessionInv, SharedInv, hostState = "up", Using(browser)
    PROVE  holder = browser.id /\ holder # Viewers /\ displayLink = NoLink /\ holder \in Sessions
<1>1. browser.id \in Sessions /\ holder = browser.id
  BY Fields DEF SessionInv, Sound, SharedInv, Alone, Undisputed, Using
<1> QED
  BY <1>1, BrowserBounds DEF SharedInv, Alone, Apart

\* A display that does not change stays undisturbed, unless a session begins.
LEMMA RestStays ==
    ASSUME Undisturbed, UNCHANGED <<resizeVars, helperVars>>, hostState' = "up" => hostState = "up",
           browser'.phase = "resize" => browser.phase = "resize",
           Showing' => Showing
    PROVE  Undisturbed'
  BY DEF Undisturbed, resizeVars, helperVars

\* An end of the session, seen from the host.
LEMMA EndAlone ==
    ASSUME SessionInv, SharedInv, browser.phase # "idle", NEW b \in BrowserStates, b.id = browser.id,
           hostState = "up" /\ b.owned => holder = browser.id,
           UNCHANGED <<displayLink, hostState, hostedVars>>, browser' = EndNow(b)
    PROVE  Alone' /\ browser'.phase \in {"stop", "wait"}
<1>1. browser.id # 0
  BY DEF SessionInv, Sound
<1>2. /\ browser'.id = browser.id /\ browser'.owned = b.owned
      /\ browser'.phase = IF hostState = "up" THEN "stop" ELSE "wait"
      /\ hostState = "up" => browser'.reply = "none"
  BY <1>1, EndNowSound
<1>3. hostState # "up" => hostState = "stopping"
  BY DEF SharedInv, DisplayInv, WellTyped, Alone, EndsWithHost
<1> QED
  BY <1>2, <1>3 DEF SharedInv, Alone, OnlyReservations, Apart, EndsWithHost, Undisputed, Using, hostedVars

\* Another step of the session that the host does not see.
LEMMA StaysAlone ==
    ASSUME SharedInv, UNCHANGED <<displayLink, hostState, hostedVars>>, browser'.id = browser.id,
           Using(browser)' => Using(browser),
           browser.phase = "idle" => browser'.phase = "idle",
           browser'.phase \in {"retry", "wait"} => browser'.phase = browser.phase \/ hostState = "stopping",
           browser'.reply # "unavailable" \/ browser'.phase \notin {"start", "stop", "release"}
              \/ (browser'.phase = browser.phase /\ browser'.reply = browser.reply)
    PROVE  Alone'
  BY DEF SharedInv, Alone, OnlyReservations, Apart, EndsWithHost, Undisputed, Using, hostedVars

\* The session is forgotten.
LEMMA ForgetAlone ==
    ASSUME SessionInv, SharedInv, Forget, UNCHANGED <<displayLink, hostState, hostedVars>>
    PROVE  Alone' /\ browser'.phase = "idle"
<1>1. browser'.id = browser.id /\ browser'.phase = "idle" /\ browser'.reply = "none" /\ ~browser'.owned
  BY DEF Forget, Idle
<1> QED
  BY <1>1, StaysAlone DEF Using

\* A session sends a request while no viewer controls the display, or has it wait
\* for the restoration of the last one's layout.
LEMMA BrowserResizes ==
    ASSUME browser \in BrowserStates, DisplayInv(Top, Browser), displayLink = NoLink,
           browser.number < MaxBrowserResizes,
           NEW b, NEW rejected, ResizeDisplay(b, rejected), ~Rejected(NextSequence)
    PROVE  /\ DisplayInv(Top, Browser)'
           /\ hostState = "up" /\ UNCHANGED <<displayLink, hostState, workspace>>
           /\ \/ sequence = Restore /\ sequence' = Restore /\ UNCHANGED <<restoreArmed, toHelper>>
              \/ /\ sequence = 0 /\ ~restoreArmed' /\ UNCHANGED queued
                 /\ toHelper' = Append(toHelper, [wire |-> NextWire, owner |-> Browser])
<1> DEFINE n == NextSequence
<1>1. n \in 1..Top /\ n > MaxResizes /\ n # 0 /\ Top \in Nat /\ MaxResizes <= Top
  BY BrowserBounds DEF BrowserStates, NextSequence, Top
<1>2. /\ UNCHANGED <<linkVars, fromHelper, workspace, barrier, hostVars>>
      /\ hostState = "up" /\ queued = NoRequest /\ sequence \in {0, Restore}
  <2>1. UNCHANGED <<linkVars, fromHelper, workspace, barrier, hostVars>>
    BY DEF ResizeDisplay
  <2>2. Available /\ queued = NoRequest /\ ~(sequence # 0 /\ sequence > 0)
    BY DEF Rejected
  <2>3. sequence \in Restore..Top
    BY Numbers
  <2>4. sequence \in {0, Restore}
    BY <1>1, <2>2, <2>3 DEF Restore
  <2> QED  BY <2>1, <2>2, <2>4 DEF Available
<1>3. CASE sequence = 0
  <2>1. Transmit(n, Browser) /\ queued' = NoRequest
    BY <1>2, <1>3 DEF ResizeDisplay
  <2>2. PipesOrdered' /\ Pending' > 0 /\ LastShows(Browser)'
    BY <1>2, <2>1, TransmitKeepsOrder DEF DisplayInv
  <2>3. /\ sequence' = n /\ ~restoreArmed' /\ restoreArmed' \in BOOLEAN
        /\ toHelper' = Append(toHelper, [wire |-> NextWire, owner |-> Browser])
    BY <2>1 DEF Transmit, TimerOutdated
  <2>4. toHelper' \in Seq(Requested(Browser)) /\ wire' \in 0..WireMax
    BY <2>1, TransmitTyped DEF DisplayInv
  <2> HIDE DEF n
  <2>5. sequence' \in Restore..Top
    BY <1>1, <2>3 DEF Restore
  <2>6. WellTyped(Top, Browser)'
    BY <1>1, <1>2, <2>1, <2>3, <2>4, <2>5, Bounds
    DEF DisplayInv, WellTyped, Requested, linkVars, hostVars, NoRequest
  <2>7. LastIsAnswered(Browser)'
    BY <1>1, <1>2, <2>2, <2>3 DEF LastIsAnswered, linkVars
  <2> QED
    BY <1>1, <1>2, <1>3, <2>1, <2>2, <2>3, <2>6, <2>7
    DEF DisplayInv, QueueIsOwned, OutstandingIsPending, QueueIsControllers, OnlyControllerWaits,
        TimerIsOutdated, ControllerAtRest, StoppedIsIdle, linkVars, hostVars
<1>4. CASE sequence = Restore
  <2>1. /\ queued' = [link |-> Browser, seq |-> n]
        /\ UNCHANGED <<sequence, wire, restoreArmed, toHelper>>
    BY <1>2, <1>4 DEF ResizeDisplay, Restore
  <2>2. PipesOrdered' /\ OutstandingIsPending' /\ (\A o : LastShows(o)' <=> LastShows(o))
    BY <1>2, <2>1, PipesStay DEF helperVars
  <2> HIDE DEF n
  <2>3. WellTyped(Top, Browser)'
    BY <1>1, <1>2, <2>1, Bounds DEF DisplayInv, WellTyped, linkVars, hostVars
  <2>4. LastIsAnswered(Browser)'
    BY <1>2, <2>1, <2>2 DEF DisplayInv, LastIsAnswered, linkVars
  <2>5. QueueIsOwned(Browser)'
    BY <1>1, <1>2, <1>4, <2>1, Bounds DEF QueueIsOwned, linkVars
  <2> QED
    BY <1>2, <1>4, <2>1, <2>2, <2>3, <2>4, <2>5
    DEF DisplayInv, QueueIsControllers, OnlyControllerWaits, TimerIsOutdated, ControllerAtRest,
        StoppedIsIdle, linkVars, hostVars
<1> QED
  BY <1>2, <1>3, <1>4 DEF linkVars, hostVars

\* The display is given back while no viewer controls it.
LEMMA BrowserRestores ==
    ASSUME DisplayInv(Top, Browser), displayLink = NoLink, hostState = "up", RestoreDisplay,
           UNCHANGED <<linkVars, sequence, wire, helperVars, barrier, hostVars>>
    PROVE  DisplayInv(Top, Browser)'
<1>1. queued' = NoRequest /\ restoreArmed' = TRUE
  BY DEF RestoreDisplay, QueueForgotten
<1>2. PipesOrdered' /\ OutstandingIsPending' /\ (\A o : LastShows(o)' <=> LastShows(o))
  BY PipesStay
<1>3. WellTyped(Top, Browser)'
  BY <1>1, Bounds DEF DisplayInv, WellTyped, linkVars, helperVars, hostVars
<1> QED
  BY <1>1, <1>2, <1>3
  DEF DisplayInv, QueueIsOwned, LastIsAnswered, QueueIsControllers, OnlyControllerWaits,
      TimerIsOutdated, ControllerAtRest, StoppedIsIdle, linkVars, hostVars

\* What the host does for requests, and by itself.
LEMMA HostShared ==
    ASSUME SessionInv, SharedInv, LostReplies \subseteq {"reserve"}, lost <= 1,
           \/ HostServes \/ RequestLost \/ LateServed \/ MediaStops \/ WatchdogReleases
           \/ ViewerAcquires \/ ViewerReleases
    PROVE  SharedInv'
<1>1. /\ UNCHANGED vars /\ Sound(browser) /\ browser \in BrowserStates /\ HostTyped /\ Known
  BY DEF SessionInv, Sound, HostServes, RequestLost, LateServed, MediaStops, WatchdogReleases,
         ViewerAcquires, ViewerReleases
<1>2. DisplayInv(Top, Browser)'
  BY <1>1, DisplayInvNext DEF SharedInv
<1>3. UNCHANGED <<displayLink, hostState, resizeVars, helperVars>>
  BY <1>1 DEF vars, linkVars, hostVars
<1>4. CASE HostServes
  <2>1. PICK answer \in {"ok", "refused", "gone"} :
            Serve(browser.phase, browser.id, answer) /\ browser' = [browser EXCEPT !.reply = answer]
    BY <1>4 DEF HostServes
  <2>2. /\ browser.phase \in Calling /\ browser.id \in Sessions /\ browser.id <= browser.id
        /\ UNCHANGED late
    BY <1>1, <1>4, Fields DEF HostServes, Calling, Sound
  <2>3. /\ holder' # holder => holder \in Sessions \cup {Nobody}
        /\ browser.phase = "reserve" /\ answer = "ok" => holder' = browser.id
        /\ browser.phase \in {"start", "stop"} => holder' = holder
    BY <1>1, <2>1, <2>2, Served
  <2>4. /\ browser'.phase = browser.phase /\ browser'.id = browser.id /\ browser'.owned = browser.owned
        /\ browser'.reply = answer
    BY <1>1, <2>1 DEF BrowserStates
  <2>5. Alone'
    BY <1>3, <2>2, <2>3, <2>4, BrowserBounds
    DEF SharedInv, Alone, OnlyReservations, Apart, EndsWithHost, Undisputed, Using, Calling
  <2>6. Undisturbed'
    BY <1>3, <2>4, RestStays DEF SharedInv, Showing
  <2> QED
    BY <1>2, <2>5, <2>6 DEF SharedInv
<1>5. CASE RequestLost
  <2>1. /\ browser.phase = "reserve" /\ browser' = [browser EXCEPT !.reply = "unavailable"]
        /\ UNCHANGED holder
        /\ late' \subseteq late \cup {<<browser.phase, browser.id>>}
    BY <1>5 DEF RequestLost
  <2>2. /\ browser'.phase = "reserve" /\ browser'.id = browser.id /\ browser'.owned = browser.owned
        /\ browser'.reply = "unavailable"
    BY <1>1, <2>1 DEF BrowserStates
  <2>3. Alone'
    BY <1>3, <2>1, <2>2
    DEF SharedInv, Alone, OnlyReservations, Apart, EndsWithHost, Undisputed, Using
  <2>4. Undisturbed'
    BY <1>3, <2>2, RestStays DEF SharedInv, Showing
  <2> QED
    BY <1>2, <2>3, <2>4 DEF SharedInv
<1>6. CASE LateServed
  <2>1. PICK r \in late, answer \in {"ok", "refused", "gone"} :
            late' = late \ {r} /\ Serve(r[1], r[2], answer) /\ UNCHANGED browser
    BY <1>6 DEF LateServed
  <2>2. r[1] = "reserve" /\ r[2] \in Sessions
    BY <1>1 DEF HostTyped, SharedInv, Alone, OnlyReservations
  <2>3. holder' # holder => holder = Nobody
    BY <2>1, <2>2 DEF Serve
  <2>4. Alone'
    <3>1. browser.phase # "idle" => browser.id \in Sessions
      BY <1>1, Fields DEF Sound
    <3> QED
      BY <1>3, <2>1, <2>3, <3>1, BrowserBounds
      DEF SharedInv, Alone, OnlyReservations, Apart, EndsWithHost, Undisputed, Using
  <2>5. Undisturbed'
    BY <1>3, <2>1, RestStays DEF SharedInv, Showing
  <2> QED
    BY <1>2, <2>4, <2>5 DEF SharedInv
<1>7. CASE MediaStops \/ WatchdogReleases \/ ViewerAcquires \/ ViewerReleases
  <2>1. /\ UNCHANGED <<browser, late>> /\ (holder' = holder \/ ~Using(browser) \/ holder # browser.id)
        /\ (holder' = holder \/ holder # Viewers \/ displayLink = NoLink)
    <3>1. browser.phase # "idle" => browser.id \in Sessions
      BY <1>1, Fields DEF Sound
    <3>2. lost \in Nat
      BY <1>1, BrowserBounds DEF HostTyped
    <3> QED
      BY <1>7, <3>1, <3>2, BrowserBounds
      DEF MediaStops, WatchdogReleases, ViewerAcquires, ViewerReleases, Using, Hosted
  <2>2. Alone'
    BY <1>3, <2>1 DEF SharedInv, Alone, OnlyReservations, Apart, EndsWithHost, Undisputed, Using
  <2>3. Undisturbed'
    BY <1>3, <2>1, RestStays DEF SharedInv, Showing
  <2> QED
    BY <1>2, <2>2, <2>3 DEF SharedInv
<1> QED
  BY <1>4, <1>5, <1>6, <1>7

\* Without a step of the display its own invariant stays.
LEMMA VarsStay ==
    ASSUME SharedInv, UNCHANGED vars
    PROVE  DisplayInv(Top, Browser)' /\ UNCHANGED <<displayLink, hostState, resizeVars, helperVars>>
<1>1. DisplayInv(Top, Browser)'
  BY DisplayInvNext DEF SharedInv
<1> QED
  BY <1>1 DEF vars, linkVars, hostVars

\* The session ends, or waits for the host that it would ask.
LEMMA EndShared ==
    ASSUME SessionInv, SharedInv, browser.phase # "idle", NEW b \in BrowserStates, b.id = browser.id,
           hostState = "up" /\ b.owned => holder = browser.id,
           UNCHANGED <<vars, hostedVars>>, browser' = EndNow(b)
    PROVE  SharedInv'
<1>1. DisplayInv(Top, Browser)' /\ UNCHANGED <<displayLink, hostState, resizeVars, helperVars>>
  BY VarsStay
<1>2. Alone' /\ browser'.phase \in {"stop", "wait"}
  BY <1>1, EndAlone
<1> QED
  BY <1>1, <1>2, RestStays DEF SharedInv, Showing

\* The session is forgotten.
LEMMA ForgetShared ==
    ASSUME SessionInv, SharedInv, Forget, UNCHANGED <<vars, hostedVars>>
    PROVE  SharedInv'
<1>1. DisplayInv(Top, Browser)' /\ UNCHANGED <<displayLink, hostState, resizeVars, helperVars>>
  BY VarsStay
<1>2. Alone' /\ browser'.phase = "idle"
  BY <1>1, ForgetAlone
<1> QED
  BY <1>1, <1>2, RestStays DEF SharedInv, Showing

\* Any other step of the session that the display does not see.
LEMMA StepShared ==
    ASSUME SharedInv, UNCHANGED <<vars, hostedVars>>, browser'.id = browser.id,
           Using(browser)' => Using(browser),
           browser.phase = "idle" => browser'.phase = "idle",
           browser'.phase \in {"retry", "wait"} => browser'.phase = browser.phase \/ hostState = "stopping",
           browser'.reply # "unavailable" \/ browser'.phase \notin {"start", "stop", "release"}
              \/ (browser'.phase = browser.phase /\ browser'.reply = browser.reply),
           browser'.phase = "resize" => browser.phase = "resize",
           Showing' => Showing
    PROVE  SharedInv'
<1>1. DisplayInv(Top, Browser)' /\ UNCHANGED <<displayLink, hostState, resizeVars, helperVars>>
  BY VarsStay
<1>2. Alone'
  BY <1>1, StaysAlone
<1> QED
  BY <1>1, <1>2, RestStays DEF SharedInv

\* The page or a takeover ends the session at any time; the session begins, and
\* ends by itself.
LEMMA EndsShared ==
    ASSUME SessionInv, SharedInv, Begin \/ PageStops \/ TakeoverRequested \/ PollEnds \/ EndAgain
    PROVE  SharedInv'
<1>1. Sound(browser) /\ browser \in BrowserStates /\ UNCHANGED <<vars, hostedVars>>
  BY DEF SessionInv, Sound, Begin, PageStops, TakeoverRequested, PollEnds, EndAgain
<1>2. browser.phase \notin Operating \cup Ending =>
          (browser.phase # "idle" /\ hostState = "up" /\ browser.owned => holder = browser.id)
  BY <1>1 DEF SharedInv, Alone, EndsWithHost, Undisputed, Using, BrowserStates, Phases
<1>3. CASE Begin
  <2>1. browser.phase = "idle" /\ hostState = "up"
    BY <1>3 DEF Begin, busy
  <2> DEFINE b == [browser EXCEPT !.id = browser.id + 1]
  <2>2. browser' = [b EXCEPT !.phase = "reserve", !.reply = "none"] /\ b.owned = browser.owned
    BY <1>1, <1>3 DEF Begin, Call, BrowserStates
  <2>3. browser'.phase = "reserve" /\ browser'.reply = "none"
    BY <1>1, <2>2 DEF BrowserStates
  <2>4. DisplayInv(Top, Browser)' /\ UNCHANGED <<displayLink, hostState, resizeVars, helperVars>>
    BY <1>1, VarsStay
  <2>5. Alone'
    BY <1>1, <2>1, <2>3, <2>4
    DEF SharedInv, Alone, OnlyReservations, Apart, EndsWithHost, Undisputed, Using, hostedVars
  <2> QED
    BY <2>3, <2>4, <2>5, RestStays DEF SharedInv, Showing
<1>4. CASE busy /\ End
  <2>1. CASE browser.phase \in Operating
    <3>1. browser' = [browser EXCEPT !.cancelled = TRUE]
      BY <1>4, <2>1 DEF End, Cancelled, Operating, Ending
    <3>2. /\ browser'.id = browser.id /\ browser'.phase = browser.phase /\ browser'.reply = browser.reply
          /\ browser'.owned = browser.owned
      BY <1>1, <3>1 DEF BrowserStates
    <3>3. UNCHANGED hostState
      BY <1>1 DEF vars, hostVars
    <3> QED
      BY <1>1, <3>2, <3>3, StepShared DEF Using, Showing
  <2>2. CASE browser.phase \in Ending
    <3>1. browser' = browser /\ UNCHANGED hostState
      BY <1>1, <1>4, <2>2 DEF End, Operating, Ending, vars, hostVars
    <3> QED
      BY <1>1, <3>1, StepShared DEF Using, Showing
  <2>3. CASE browser.phase \notin Operating \cup Ending
    <3>1. browser' = EndNow(browser)
      BY <1>4, <2>3 DEF End
    <3> QED
      BY <1>1, <1>2, <1>4, <2>3, <3>1, EndShared DEF busy
  <2> QED
    BY <2>1, <2>2, <2>3
<1>5. CASE PollEnds \/ EndAgain
  <2>1. browser' = EndNow(browser) /\ browser.phase \in {"active", "retry", "wait"}
    BY <1>5 DEF PollEnds, EndAgain
  <2> QED
    BY <1>1, <1>2, <2>1, EndShared DEF Operating, Ending
<1> QED
  BY <1>3, <1>4, <1>5 DEF PageStops, TakeoverRequested

\* A session uses the display from its reservation on.
LEMMA ReservedShared ==
    ASSUME SessionInv, SharedInv, Reserved
    PROVE  SharedInv'
<1>1. /\ Sound(browser) /\ browser \in BrowserStates /\ browser.phase = "reserve" /\ browser.id # 0
      /\ browser.live = "none" /\ browser.number < MaxBrowserResizes /\ ~browser.owned
      /\ UNCHANGED hostedVars
  BY DEF SessionInv, Sound, Reserved
<1>2. CASE browser.reply \in {"refused", "gone"}
  BY <1>1, <1>2, ForgetShared DEF Reserved
<1>3. CASE browser.reply \notin {"refused", "gone"} /\ (browser.reply = "unavailable" \/ browser.cancelled)
  <2>1. browser' = EndNow(browser) /\ UNCHANGED vars
    BY <1>3 DEF Reserved
  <2> QED
    BY <1>1, <2>1, EndShared
<1>4. CASE browser.reply = "ok" /\ ~browser.cancelled /\ ~Available
  <2>1. browser' = Call(browser, "start") /\ UNCHANGED vars /\ "start" \in Phases
    BY <1>4 DEF Reserved, Phases, Operating
  <2>2. /\ browser'.phase = "start" /\ browser'.reply = "none" /\ browser'.id = browser.id
        /\ browser'.owned = browser.owned
    BY <1>1, <2>1, CallSound
  <2> QED
    BY <1>1, <1>4, <2>1, <2>2, StepShared DEF Using, Showing
<1>5. CASE browser.reply = "ok" /\ ~browser.cancelled /\ Available
  <2> DEFINE owner == [browser EXCEPT !.owned = TRUE, !.phase = "resize"]
  <2>1. ResizeDisplay(owner, EndNow(owner)) /\ hostState = "up"
    BY <1>5 DEF Reserved, Available
  <2>2. /\ Sound(owner) /\ owner \in BrowserStates /\ owner.phase = "resize"
        /\ owner.id = browser.id /\ owner.number = browser.number
    BY <1>1, <1>5 DEF Sound, BrowserStates, Phases, Operating
  <2>3. holder = browser.id /\ displayLink = NoLink
    BY <1>1, <1>5, <2>1, UsingAlone DEF Using
  <2> HIDE DEF owner
  <2>4. CASE Rejected(NextSequence)
    <3>1. browser' = EndNow(owner) /\ UNCHANGED vars
      BY <2>1, <2>4 DEF ResizeDisplay
    <3> QED
      BY <1>1, <2>2, <2>3, <3>1, EndShared
  <2>5. CASE ~Rejected(NextSequence)
    <3>1. browser'.phase = "resize" /\ browser'.id = browser.id
      BY <1>1, <2>1, <2>2, <2>5, ResizeSound
    <3>2. /\ DisplayInv(Top, Browser)' /\ hostState' = "up" /\ displayLink' = displayLink
          /\ sequence' > MaxResizes => ~restoreArmed'
      BY <1>1, <2>1, <2>3, <2>5, BrowserResizes, Bounds DEF SharedInv, Restore
    <3>3. Alone'
      BY <1>1, <2>3, <3>1, <3>2
      DEF SharedInv, Alone, OnlyReservations, Apart, EndsWithHost, Undisputed, hostedVars
    <3>4. Undisturbed'
      BY <3>1, <3>2 DEF Undisturbed, Showing
    <3> QED
      BY <3>2, <3>3, <3>4 DEF SharedInv
  <2> QED
    BY <2>4, <2>5
<1>6. browser.reply \in {"ok", "refused", "gone", "unavailable"}
  BY <1>1 DEF Reserved, BrowserStates
<1> QED
  BY <1>2, <1>3, <1>4, <1>5, <1>6

\* The other replies, and the timer of the restoration.
LEMMA RepliesShared ==
    ASSUME SessionInv, SharedInv, Started \/ Stopped \/ Released \/ BrowserSettleTimeout
    PROVE  SharedInv'
<1>1. /\ Sound(browser) /\ browser \in BrowserStates /\ browser.phase # "idle" /\ browser.id # 0
      /\ UNCHANGED hostedVars
  BY DEF SessionInv, Sound, Started, Stopped, Released, BrowserSettleTimeout
<1>2. {"active", "retry", "settle", "release"} \subseteq Phases
  BY DEF Phases, Ending
<1>3. ASSUME NEW action \in {"active", "settle", "release"}
      PROVE  /\ Call(browser, action).phase = action /\ Call(browser, action).reply = "none"
             /\ Call(browser, action).id = browser.id /\ Call(browser, action).owned = browser.owned
  <2>1. action \in Phases /\ action \notin {"idle", "reserve", "resize", "start"}
    BY <1>2
  <2> QED
    BY <1>1, <2>1, CallSound
<1>4. CASE Started
  <2>1. CASE browser' = Call(browser, "active")
    <3>1. UNCHANGED vars /\ browser.phase = "start"
      BY <1>4 DEF Started
    <3> QED
      BY <1>1, <1>3, <2>1, <3>1, StepShared DEF Using, Showing, vars, hostVars
  <2>2. CASE browser' = EndNow(browser)
    <3>1. UNCHANGED vars /\ (hostState = "up" => holder = browser.id)
      BY <1>4, UsingAlone DEF Started, Using
    <3> QED
      BY <1>1, <2>2, <3>1, EndShared
  <2> QED
    BY <1>4, <2>1, <2>2 DEF Started
<1>5. CASE Retry /\ UNCHANGED vars /\ hostState = "stopping"
  <2>1. browser'.phase = "retry" /\ browser'.id = browser.id /\ browser'.reply = "none"
    BY <1>1, <1>2, <1>5, CallSound DEF Retry
  <2> QED
    BY <1>1, <1>5, <2>1, StepShared DEF Using, Showing
<1>6. CASE Stopped
  <2>1. browser.phase = "stop" /\ browser.reply \in {"ok", "gone", "unavailable"}
    BY <1>1, <1>6 DEF Stopped, Sound, BrowserStates
  <2>2. CASE browser.reply = "gone"
    BY <1>1, <1>6, <2>2, ForgetShared DEF Stopped, StopProven
  <2>3. CASE browser.reply = "unavailable"
    <3>1. hostState = "stopping"
      BY <2>1, <2>3 DEF SharedInv, Alone, EndsWithHost
    <3> QED
      BY <1>5, <1>6, <2>3, <3>1 DEF Stopped, StopProven
  <2>4. CASE browser.reply = "ok" /\ browser.owned /\ Available
    <3>1. /\ browser' = Call(browser, "settle") /\ RestoreDisplay /\ hostState = "up"
          /\ UNCHANGED <<linkVars, sequence, wire, helperVars, barrier, hostVars>>
      BY <1>6, <2>4 DEF Stopped, StopProven, Available
    <3>2. displayLink = NoLink
      BY <2>1, <2>4, <3>1, UsingAlone DEF Using
    <3>3. DisplayInv(Top, Browser)'
      BY <3>1, <3>2, BrowserRestores DEF SharedInv
    <3>4. browser'.phase = "settle" /\ browser'.id = browser.id /\ browser'.reply = "none"
      BY <1>3, <3>1
    <3>5. Alone'
      BY <1>1, <3>1, <3>4, StaysAlone DEF Using, linkVars, hostVars
    <3> QED
      BY <3>3, <3>4, <3>5 DEF SharedInv, Undisturbed, Showing
  <2>5. CASE browser.reply = "ok" /\ ~(browser.owned /\ Available)
    <3>1. browser' = [Call(browser, "release") EXCEPT !.owned = FALSE] /\ UNCHANGED vars
      BY <1>6, <2>5 DEF Stopped, StopProven
    <3>2. browser'.phase = "release" /\ browser'.id = browser.id /\ browser'.reply = "none"
      <4>1. Sound(Call(browser, "release"))
        BY <1>1, <1>2, CallSound
      <4> QED
        BY <1>3, <3>1, <4>1 DEF Sound, BrowserStates
    <3> QED
      BY <1>1, <3>1, <3>2, StepShared DEF Using, Showing
  <2> QED
    BY <2>1, <2>2, <2>3, <2>4, <2>5
<1>7. CASE Released
  <2>1. browser.phase = "release" /\ browser.reply \in {"ok", "gone", "unavailable"} /\ UNCHANGED vars
    BY <1>1, <1>7 DEF Released, Sound, BrowserStates
  <2>2. CASE Forget
    BY <1>1, <2>1, <2>2, ForgetShared
  <2>3. CASE browser.reply = "unavailable" /\ Retry
    <3>1. hostState = "stopping"
      BY <2>1, <2>3 DEF SharedInv, Alone, EndsWithHost
    <3> QED
      BY <1>5, <2>1, <2>3, <3>1
  <2> QED
    BY <1>7, <2>1, <2>2, <2>3 DEF Released
<1>8. CASE BrowserSettleTimeout
  <2>1. browser' = Call(browser, "release") /\ UNCHANGED vars
    BY <1>8 DEF BrowserSettleTimeout
  <2> QED
    BY <1>1, <1>3, <2>1, StepShared DEF Using, Showing
<1> QED
  BY <1>4, <1>6, <1>7, <1>8

\* A live resize is the only request of a running session.
LEMMA LiveShared ==
    ASSUME SessionInv, SharedInv, LiveResize \/ LiveResized
    PROVE  SharedInv'
<1>1. /\ Sound(browser) /\ browser \in BrowserStates /\ UNCHANGED hostedVars
      /\ browser.phase \notin {"idle", "reserve", "resize", "start"}
  BY DEF SessionInv, Sound, LiveResize, LiveResized
<1>2. ASSUME UNCHANGED vars,
             \/ browser' = [browser EXCEPT !.waits = TRUE]
             \/ \E now : browser' = [browser EXCEPT !.live = now]
             \/ \E now : browser' = [[browser EXCEPT !.waits = FALSE] EXCEPT !.live = now]
      PROVE  SharedInv'
  <2>1. /\ browser'.phase = browser.phase /\ browser'.id = browser.id /\ browser'.reply = browser.reply
        /\ browser'.owned = browser.owned /\ UNCHANGED hostState
    BY <1>1, <1>2 DEF BrowserStates, vars, hostVars
  <2> QED
    BY <1>1, <1>2, <2>1, StepShared DEF Using, Showing
<1>3. ASSUME NEW b, b \in {browser, [browser EXCEPT !.waits = FALSE]}, ToDisplay(b),
             browser.phase \in {"active", "retry", "wait"}
      PROVE  SharedInv'
  <2>1. CASE ~(browser.owned /\ Available)
    BY <1>2, <1>3, <2>1 DEF ToDisplay
  <2>2. CASE browser.owned /\ Available /\ Rejected(NextSequence)
    BY <1>2, <1>3, <2>2 DEF ToDisplay, ResizeDisplay
  <2>3. CASE browser.owned /\ Available /\ ~Rejected(NextSequence)
    <3> DEFINE c == [b EXCEPT !.live = "display"]
    <3>1. /\ Sound(c) /\ c.number = browser.number /\ c.phase = browser.phase /\ c.id = browser.id
          /\ c.owned = browser.owned /\ c.reply = browser.reply
      BY <1>1, <1>3 DEF Sound, BrowserStates
    <3>2. ResizeDisplay(c, [b EXCEPT !.live = "none"]) /\ browser.number < MaxBrowserResizes
      BY <1>3, <2>3 DEF ToDisplay
    <3> HIDE DEF c
    <3>3. /\ browser'.phase = browser.phase /\ browser'.id = browser.id
          /\ browser'.owned = browser.owned /\ browser'.reply = browser.reply
      BY <1>1, <1>3, <2>3, <3>1, <3>2, ResizeSound
    <3>4. hostState = "up" /\ browser.phase = "active"
      BY <1>3, <2>3 DEF Available, SharedInv, Alone, EndsWithHost
    <3>5. displayLink = NoLink /\ Showing
      BY <2>3, <3>4, UsingAlone DEF Using, Showing
    <3>6. /\ ~restoreArmed /\ queued = NoRequest /\ (sequence = 0 \/ sequence > MaxResizes)
          /\ \A i \in 1..Len(toHelper) : toHelper[i].owner = Browser
          /\ HelperMayFail \/ workspace = Browser
      BY <3>5 DEF SharedInv, Undisturbed
    <3>7. /\ DisplayInv(Top, Browser)' /\ UNCHANGED <<displayLink, hostState, workspace>>
          /\ sequence = 0 /\ ~restoreArmed' /\ UNCHANGED queued
          /\ toHelper' = Append(toHelper, [wire |-> NextWire, owner |-> Browser])
          /\ sequence' > MaxResizes
      <4>1. /\ DisplayInv(Top, Browser)' /\ UNCHANGED <<displayLink, hostState, workspace>>
            /\ sequence = 0 /\ ~restoreArmed' /\ UNCHANGED queued
            /\ toHelper' = Append(toHelper, [wire |-> NextWire, owner |-> Browser])
        BY <1>1, <2>3, <3>2, <3>5, <3>6, BrowserResizes, Bounds DEF SharedInv, Restore
      <4>2. sequence' = NextSequence
        BY <2>3, <3>2, <4>1 DEF ResizeDisplay, Transmit
      <4>3. NextSequence > MaxResizes
        BY <1>1, BrowserBounds DEF NextSequence, BrowserStates
      <4> QED
        BY <4>1, <4>2, <4>3
    <3>8. \A i \in 1..Len(toHelper') : toHelper'[i].owner = Browser
      <4>1. toHelper \in Seq(Requested(Browser)) /\ toHelper' \in Seq(Requested(Browser))
        BY <3>7 DEF SharedInv, DisplayInv, WellTyped, Requested
      <4>2. /\ Len(toHelper) \in Nat /\ Len(toHelper') = Len(toHelper) + 1
            /\ toHelper'[Len(toHelper) + 1] = [wire |-> NextWire, owner |-> Browser]
            /\ \A i \in 1..Len(toHelper) : toHelper'[i] = toHelper[i]
        BY <3>7, <4>1
      <4> QED
        BY <3>6, <4>2
    <3>9. Alone'
      BY <1>1, <3>3, <3>4, <3>7, StaysAlone DEF Using
    <3> QED
      BY <3>3, <3>4, <3>6, <3>7, <3>8, <3>9 DEF SharedInv, Undisturbed
  <2> QED
    BY <2>1, <2>2, <2>3
<1>4. CASE LiveResize
  BY <1>2, <1>3, <1>4 DEF LiveResize
<1>5. CASE LiveResized
  <2>1. browser.phase \notin Ending => browser.phase \in {"active", "retry", "wait"}
    BY <1>1 DEF BrowserStates, Phases, Operating
  <2> QED
    BY <1>2, <1>3, <1>5, <2>1 DEF LiveResized
<1> QED
  BY <1>4, <1>5

\* The viewers, and the display by itself: a viewer does nothing to the display
\* of a session, and a restoration neither.
LEMMA DisplayShared ==
    ASSUME SessionInv, SharedInv, Viewer \/ DisplayStep
    PROVE  SharedInv'
<1>1. UNCHANGED browserVars /\ Next
  BY DEF Viewer, DisplayStep, Next
<1>2. DisplayInv(Top, Browser)'
  BY <1>1, DisplayInvNext DEF SharedInv
<1>3. /\ hostState' = hostState \/ (hostState = "down" /\ hostState' = "up")
      /\ displayLink' # NoLink => displayLink # NoLink \/ holder = Viewers
  BY DEF Viewer, DisplayStep, Resize, ResumeController, ControllerEnds, ControllerDropped, TakeOver,
         AdmissionEnds, RestoreTimer, SettleTimeout, Helper, HelperServes, TrustBegins, TrustEnds,
         HostStart, FailController, linkVars, hostVars
<1>4. Alone'
  BY <1>1, <1>3
  DEF SharedInv, Alone, OnlyReservations, Apart, EndsWithHost, Undisputed, Using, browserVars
<1>5. Undisturbed'
  <2>1. CASE hostState = "up" /\ browser.phase \in {"resize", "start", "active"}
    <3>1. displayLink = NoLink /\ holder # Viewers
      BY <2>1, UsingAlone DEF Using
    <3>2. AdmissionEnds \/ RestoreTimer \/ SettleTimeout \/ Helper \/ TrustBegins \/ TrustEnds
      BY <2>1, <3>1
      DEF Viewer, DisplayStep, Resize, ResumeController, ControllerEnds, ControllerDropped,
          TakeOver, FailController, HostStart
    <3>3. CASE AdmissionEnds \/ SettleTimeout \/ TrustBegins \/ TrustEnds
      <4>1. UNCHANGED <<resizeVars, helperVars>>
        BY <3>1, <3>3
        DEF AdmissionEnds, SettleTimeout, TrustBegins, TrustEnds, FailController, resizeVars
      <4> QED
        BY <1>1, <2>1, <4>1, RestStays DEF SharedInv, Showing, browserVars
    <3>4. CASE RestoreTimer
      <4>1. restoreArmed /\ ~Showing
        BY <3>4 DEF RestoreTimer, SharedInv, Undisturbed
      <4>2. sequence' = sequence \/ sequence' = Restore
        BY <3>4 DEF RestoreTimer, Transmit
      <4>3. browser.phase = "resize" => ~(sequence > MaxResizes)
        BY <2>1, <4>1 DEF SharedInv, Undisturbed
      <4>4. ~Showing' /\ (browser'.phase = "resize" => ~(sequence' > MaxResizes))
        BY <1>1, <1>3, <2>1, <4>1, <4>2, <4>3, Bounds DEF Showing, Restore, browserVars
      <4> QED
        BY <4>4 DEF Undisturbed
    <3>5. CASE Helper
      <4>1. PICK okay \in BOOLEAN : HelperServes(okay)
        BY <3>5 DEF Helper
      <4>2. /\ toHelper # <<>> /\ toHelper' = Tail(toHelper) /\ (okay \/ HelperMayFail)
            /\ workspace' = IF okay THEN Head(toHelper).owner ELSE Disturbed
            /\ UNCHANGED <<resizeVars, hostState, browser>>
        BY <1>1, <4>1 DEF HelperServes, hostVars, browserVars
      <4>3. /\ Head(toHelper) = toHelper[1] /\ Len(toHelper) \in Nat \ {0}
            /\ Len(toHelper') = Len(toHelper) - 1
            /\ \A i \in 1..Len(toHelper') : toHelper'[i] = toHelper[i + 1]
        BY <4>2, Reading DEF SharedInv, DisplayInv, WellTyped
      <4>4. ASSUME Showing
            PROVE  /\ \A i \in 1..Len(toHelper') : toHelper'[i].owner = Browser
                   /\ HelperMayFail \/ workspace' = Browser
        <5>1. \A i \in 1..Len(toHelper) : toHelper[i].owner = Browser
          BY <4>4 DEF SharedInv, Undisturbed
        <5> QED
          BY <4>2, <4>3, <5>1
      <4> QED
        BY <4>2, <4>4 DEF SharedInv, Undisturbed, Showing, resizeVars
    <3> QED
      BY <3>2, <3>3, <3>4, <3>5
  <2>2. CASE ~(hostState = "up" /\ browser.phase \in {"resize", "start", "active"})
    <3>1. ~(hostState' = "up" /\ browser'.phase \in {"resize", "start", "active"})
      BY <1>1, <1>3, <2>2 DEF SharedInv, Alone, EndsWithHost, browserVars
    <3> QED
      BY <3>1 DEF Undisturbed, Showing
  <2> QED
    BY <2>1, <2>2
<1> QED
  BY <1>2, <1>4, <1>5 DEF SharedInv

\* The host stops, and takes its reservation with it.
LEMMA StopShared ==
    ASSUME SessionInv, SharedInv, SharedStop \/ SharedDown
    PROVE  SharedInv'
<1>1. DisplayInv(Top, Browser)'
  BY DisplayInvNext DEF SharedInv, SharedStop, SharedDown, Next
<1>2. hostState' # "up" /\ displayLink' = NoLink
  BY <1>1 DEF DisplayInv, StoppedIsIdle, SharedStop, SharedDown, HostStop, HostDown
<1>3. Undisturbed'
  BY <1>2 DEF Undisturbed, Showing
<1>4. CASE SharedStop
  <2>1. hostState' = "stopping" /\ UNCHANGED late
    BY <1>4 DEF SharedStop, HostStop, hostedVars
  <2> QED
    BY <1>1, <1>2, <1>3, <2>1
    DEF SharedInv, Alone, OnlyReservations, Apart, EndsWithHost, Undisputed
<1>5. CASE SharedDown
  <2>1. browser'.phase = "idle" /\ late' = {}
    BY <1>5 DEF SharedDown, Forget, Idle
  <2> QED
    BY <1>1, <1>2, <1>3, <2>1
    DEF SharedInv, Alone, OnlyReservations, Apart, EndsWithHost, Undisputed
<1> QED
  BY <1>4, <1>5

\* The end of the outstanding request is heard by whom it concerns: a session
\* that goes on sees its workspace, with nothing behind it.
LEMMA HeardShared ==
    ASSUME SessionInv, SharedInv, NEW okay, sequence # 0, Completed(okay), BrowserHears(okay),
           UNCHANGED <<workspace, hostVars>>, DisplayInv(Top, Browser)',
           okay => fromHelper # <<>> /\ AckMatches(Head(fromHelper)) /\ Head(fromHelper).okay
    PROVE  SharedInv'
<1>1. /\ Sound(browser) /\ browser \in BrowserStates /\ UNCHANGED hostedVars
      /\ DisplayInv(Top, Browser) /\ WellTyped(Top, Browser) /\ sequence \in Restore..Top
  BY Numbers DEF SessionInv, Sound, BrowserHears, SharedInv
<1>2. /\ UNCHANGED <<displayLink, hostState>> /\ hostState = "up"
  BY <1>1 DEF Completed, hostVars, DisplayInv, StoppedIsIdle
<1>3. StartsQueued <=> queued # NoRequest
  BY <1>1 DEF StartsQueued, DisplayInv, QueueIsOwned, Restore
<1>4. queued' = NoRequest
  BY <1>3 DEF Completed
<1>5. \/ ~restoreArmed' /\ StartsQueued
      \/ sequence' = 0 /\ UNCHANGED <<restoreArmed, toHelper>>
  BY DEF Completed, Transmit, TimerOutdated
<1>6. sequence > MaxResizes => ~StartsQueued
  BY <1>1, Bounds DEF StartsQueued
<1>7. ASSUME browser'.phase = browser.phase, browser'.owned = browser.owned
      PROVE  Undisturbed'
  <2>1. CASE Showing
    <3>1. /\ ~restoreArmed /\ sequence > MaxResizes
          /\ \A i \in 1..Len(toHelper) : toHelper[i].owner = Browser
          /\ HelperMayFail \/ workspace = Browser
      BY <2>1 DEF SharedInv, Undisturbed
    <3> QED
      BY <1>2, <1>4, <1>5, <1>6, <1>7, <2>1, <3>1 DEF Undisturbed, Showing
  <2>2. CASE ~Showing
    BY <1>2, <1>5, <1>7, <2>2, Bounds DEF Undisturbed, Showing
  <2> QED
    BY <2>1, <2>2
<1>8. CASE browser' = browser
  BY <1>1, <1>2, <1>7, <1>8, StaysAlone DEF SharedInv, Using
<1>9. CASE browser.phase = "settle" /\ browser' = [Call(browser, "release") EXCEPT !.owned = ~okay]
  <2> DEFINE c == Call(browser, "release")
  <2>1. "release" \in Phases /\ browser.id # 0
    BY <1>1, <1>9 DEF Phases, Ending, Sound
  <2>2. Sound(c) /\ c.phase = "release" /\ c.id = browser.id /\ c.reply = "none"
    BY <1>1, <2>1, CallSound
  <2>3. browser' = [c EXCEPT !.owned = ~okay]
    BY <1>9
  <2> HIDE DEF c
  <2>4. browser'.phase = "release" /\ browser'.id = browser.id /\ browser'.reply = "none"
    BY <2>2, <2>3 DEF Sound, BrowserStates
  <2>5. Alone'
    BY <1>1, <1>2, <1>9, <2>4, StaysAlone DEF Using
  <2> QED
    BY <2>4, <2>5 DEF SharedInv, Undisturbed, Showing
<1>10. ASSUME NEW said, browser' = DisplayAnswered(said), browser.awaited # 0,
              said => okay /\ browser.awaited = sequence
       PROVE  SharedInv'
  <2> DEFINE b == [browser EXCEPT !.awaited = 0]
  <2>1. /\ b \in BrowserStates /\ Sound(b) /\ b.phase = browser.phase /\ b.id = browser.id
        /\ b.live = browser.live /\ b.owned = browser.owned /\ b.reply = browser.reply
        /\ b.cancelled = browser.cancelled
    BY <1>1 DEF Sound, BrowserStates
  <2> HIDE DEF b
  <2>2. browser' = CASE b.phase = "resize" -> IF said /\ ~b.cancelled THEN Call(b, "start") ELSE EndNow(b)
                     [] b.phase # "resize" /\ b.live = "display" ->
                           [b EXCEPT !.live = IF said THEN "media" ELSE "none"]
                     [] OTHER -> b
    BY <1>10 DEF DisplayAnswered, b
  <2>3. CASE b.phase = "resize" /\ ~(said /\ ~b.cancelled)
    <3>1. browser' = EndNow(b)
      BY <2>2, <2>3
    <3>2. holder = browser.id /\ browser.phase # "idle"
      BY <1>2, <2>1, <2>3, UsingAlone DEF Using
    <3>3. Alone' /\ browser'.phase \in {"stop", "wait"}
      BY <1>1, <1>2, <2>1, <3>1, <3>2, EndAlone
    <3> QED
      BY <3>3 DEF SharedInv, Undisturbed, Showing
  <2>4. CASE b.phase = "resize" /\ said /\ ~b.cancelled
    <3>1. browser' = Call(b, "start")
      BY <2>2, <2>4
    <3>2. "start" \in Phases /\ b.id # 0 /\ b.live = "none"
      BY <2>1, <2>4 DEF Phases, Operating, Sound
    <3>3. /\ Call(b, "start").phase = "start" /\ Call(b, "start").reply = "none"
          /\ Call(b, "start").id = b.id
      BY <2>1, <2>4, <3>2, CallSound
    <3>4. browser'.phase = "start" /\ browser'.reply = "none" /\ browser'.id = browser.id
      BY <2>1, <3>1, <3>3
    <3>5. Alone'
      BY <1>1, <1>2, <2>1, <2>4, <3>4, StaysAlone DEF Using
    <3>6. sequence > MaxResizes
      BY <1>1, <1>10, <2>4, Bounds DEF BrowserStates
    <3>7. toHelper = <<>> /\ Len(fromHelper) = 1 /\ fromHelper[1].okay
      BY <1>1, <1>10, <2>4, MatchIsLast, Reading DEF DisplayInv, WellTyped
    <3>8. workspace = Browser
      BY <1>1, <3>6, <3>7 DEF DisplayInv, LastIsAnswered, LastShows
    <3>9. ~restoreArmed
      BY <1>2, <2>1, <2>4, <3>6 DEF SharedInv, Undisturbed
    <3>10. sequence' = 0 /\ ~restoreArmed' /\ toHelper' = <<>>
      BY <1>5, <1>6, <3>6, <3>7, <3>9
    <3>11. Len(toHelper') = 0
      BY <3>10
    <3> QED
      BY <1>4, <3>4, <3>5, <3>8, <3>10, <3>11 DEF SharedInv, Undisturbed
  <2>5. CASE b.phase # "resize"
    <3>1. browser' = b \/ \E now : browser' = [b EXCEPT !.live = now]
      BY <2>2, <2>5
    <3>2. /\ browser'.phase = browser.phase /\ browser'.id = browser.id /\ browser'.owned = browser.owned
          /\ browser'.reply = browser.reply
      BY <2>1, <3>1 DEF BrowserStates
    <3> QED
      BY <1>1, <1>2, <1>7, <3>2, StaysAlone DEF SharedInv, Using
  <2> QED
    BY <2>3, <2>4, <2>5
<1> QED
  BY <1>8, <1>9, <1>10 DEF BrowserHears

LEMMA AckShared ==
    ASSUME SessionInv, SharedInv, SharedAck
    PROVE  SharedInv'
<1>1. DisplayInv(Top, Browser)' /\ HelperAck
  BY DisplayInvNext DEF SharedInv, SharedAck, Next
<1>2. CASE AckMatches(Head(fromHelper))
  BY <1>1, <1>2, HeardShared DEF SharedAck, HelperAck, AckMatches
<1>3. CASE ~AckMatches(Head(fromHelper))
  <2>1. UNCHANGED browserVars /\ UNCHANGED <<linkVars, resizeVars, toHelper, barrier, workspace, hostVars>>
    BY <1>1, <1>3 DEF SharedAck, HelperAck
  <2>2. UNCHANGED <<displayLink, hostState, browser, hostedVars>>
    BY <2>1 DEF linkVars, hostVars, browserVars, hostedVars
  <2>3. Alone'
    BY <2>2, StaysAlone DEF Using
  <2>4. Undisturbed'
    BY <2>1, <2>2 DEF SharedInv, Undisturbed, Showing, resizeVars
  <2> QED
    BY <1>1, <2>3, <2>4 DEF SharedInv
<1> QED
  BY <1>2, <1>3

LEMMA TimeoutShared ==
    ASSUME SessionInv, SharedInv, SharedTimeout
    PROVE  SharedInv'
<1>1. DisplayInv(Top, Browser)' /\ ResizeTimeout
  BY DisplayInvNext DEF SharedInv, SharedTimeout, Next
<1> QED
  BY <1>1, HeardShared DEF SharedTimeout, ResizeTimeout

LEMMA SharedInvNext ==
    ASSUME LostReplies \subseteq {"reserve"}, SessionInv, lost <= 1 => SharedInv, [SharedNext]_sharedVars
    PROVE  (lost <= 1 => SharedInv)'
<1> SUFFICES ASSUME lost' <= 1 PROVE SharedInv'
  OBVIOUS
<1>1. lost <= 1
  <2>1. RequestLost => lost' = lost + 1
    BY DEF RequestLost
  <2>2. ~RequestLost => UNCHANGED lost
    <3>1. SharedAck \/ SharedTimeout => UNCHANGED lost
      BY DEF SharedAck, SharedTimeout, BrowserHears, browserVars, hostedVars
    <3>2. SharedStop \/ SharedDown \/ Viewer \/ DisplayStep \/ UNCHANGED sharedVars => UNCHANGED lost
      BY DEF SharedStop, SharedDown, Viewer, DisplayStep, browserVars, hostedVars, sharedVars
    <3>3. Begin \/ Callback \/ LiveResize \/ LiveResized \/ PageStops \/ PollEnds => UNCHANGED lost
      BY DEF Begin, Callback, Reserved, Started, Stopped, Released, LiveResize, LiveResized, PageStops,
             PollEnds, hostedVars
    <3>4. TakeoverRequested \/ BrowserSettleTimeout \/ EndAgain => UNCHANGED lost
      BY DEF TakeoverRequested, BrowserSettleTimeout, EndAgain, hostedVars
    <3>5. HostServes \/ LateServed \/ MediaStops \/ WatchdogReleases \/ ViewerAcquires \/ ViewerReleases
             => UNCHANGED lost
      BY DEF HostServes, LateServed, MediaStops, WatchdogReleases, ViewerAcquires, ViewerReleases
    <3> QED
      BY <3>1, <3>2, <3>3, <3>4, <3>5 DEF SharedNext
  <2>3. lost \in Nat
    BY BrowserBounds DEF SessionInv, HostTyped
  <2> QED
    BY <2>1, <2>2, <2>3
<1>2. SharedInv
  BY <1>1
<1>3. CASE Viewer \/ DisplayStep
  BY <1>2, <1>3, DisplayShared
<1>4. CASE SharedAck \/ SharedTimeout
  BY <1>2, <1>4, AckShared, TimeoutShared
<1>5. CASE SharedStop \/ SharedDown
  BY <1>2, <1>5, StopShared
<1>6. CASE Begin \/ PageStops \/ TakeoverRequested \/ PollEnds \/ EndAgain
  BY <1>2, <1>6, EndsShared
<1>7. CASE Callback \/ BrowserSettleTimeout
  BY <1>2, <1>7, ReservedShared, RepliesShared DEF Callback
<1>8. CASE LiveResize \/ LiveResized
  BY <1>2, <1>8, LiveShared
<1>9. CASE HostServes \/ RequestLost \/ LateServed \/ MediaStops \/ WatchdogReleases
           \/ ViewerAcquires \/ ViewerReleases
  BY <1>1, <1>2, <1>9, HostShared
<1>10. CASE UNCHANGED sharedVars
  <2>1. UNCHANGED <<vars, hostedVars, browser, hostState>>
    BY <1>10 DEF sharedVars, browserVars, hostedVars, vars, hostVars
  <2> QED
    BY <1>2, <2>1, StepShared DEF Using, Showing
<1> QED
  BY <1>3, <1>4, <1>5, <1>6, <1>7, <1>8, <1>9, <1>10 DEF SharedNext

LEMMA SharedInvInit == SharedInit => SharedInv
<1> SUFFICES ASSUME SharedInit PROVE SharedInv
  OBVIOUS
<1>1. DisplayInv(Top, Browser)
  BY BrowserBounds, DisplayInvInit DEF SharedInit, Top
<1>2. /\ browser.phase = "idle" /\ browser.reply = "none" /\ late = {} /\ displayLink = NoLink
      /\ hostState = "up"
  BY DEF SharedInit, Idle, Init
<1> QED
  BY <1>1, <1>2
  DEF SharedInv, Alone, OnlyReservations, Apart, EndsWithHost, Undisputed, Using, Undisturbed, Showing

\* While no more than one reservation has been lost or is late.
LEMMA SharedInvariant ==
    ASSUME LostReplies \subseteq {"reserve"}
    PROVE  SharedSpec => [](lost <= 1 => SharedInv)
<1>1. SharedInit => (lost <= 1 => SharedInv)
  BY SharedInvInit
<1>2. SessionInv /\ (lost <= 1 => SharedInv) /\ [SharedNext]_sharedVars => (lost <= 1 => SharedInv)'
  BY SharedInvNext
<1> QED
  BY <1>1, <1>2, SessionInvariant, PTL DEF SharedSpec

\* A viewer that was told of its workspace sees it, whatever browsers do.
THEOREM ViewerSeesWorkspace ==
    ASSUME LostReplies \subseteq {"reserve"}
    PROVE  SharedSpec => [](lost <= 1 => WorkspaceIsControllers)
<1>1. SharedInv => WorkspaceIsControllers
  BY DEF SharedInv, DisplayInv, ControllerAtRest, WorkspaceIsControllers
<1> QED
  BY <1>1, SharedInvariant, PTL

\* With a helper that does not fail, a browser does too.
THEOREM WorkspacesAreTheirs ==
    ASSUME LostReplies \subseteq {"reserve"}, ~HelperMayFail
    PROVE  SharedSpec => [](lost <= 1 => WorkspaceIsTheirs)
<1>1. SharedInv => WorkspaceIsTheirs
  BY DEF SharedInv, DisplayInv, ControllerAtRest, Undisturbed, Showing, WorkspaceIsControllers,
         WorkspaceIsTheirs
<1> QED
  BY <1>1, SharedInvariant, PTL
=============================================================================

----------------------- MODULE ViewerContinuity_proofs -----------------------
(***************************************************************************)
(* The chain of Sessions of a viewer (ViewerContinuity): bounded retries,  *)
(* a cancellation that stays, streams that end for causes of their own,    *)
(* takeovers only after a question, streams over the viewer's own session  *)
(* with the size it negotiated, and the types, for any number of attempts, *)
(* any sizes and leases and any combination of faults.                     *)
(***************************************************************************)
EXTENDS ViewerContinuity, TLAPS

-----------------------------------------------------------------------------
(* The invariant                                                           *)

SessionFields == {"stage", "attempt", "deadline", "token", "cancelled", "retry", "manual",
                  "resized", "window", "escaped", "age", "picture", "reported", "ended"}
ControlFields == {"pc", "failed", "retryable", "takenOver", "token", "sent", "wants", "answer",
                  "pending", "complete", "target"}
LinkFields == {"state", "request", "reply", "ended", "lease"}
HostFields == {"session", "lease", "challenged", "size", "paused"}

Shaped ==
    /\ DOMAIN session = SessionFields /\ DOMAIN callback = {"pc", "error"}
    /\ DOMAIN control = ControlFields /\ DOMAIN link = LinkFields /\ DOMAIN host = HostFields

\* The attempt that a Session carries accounts for the retries so far; a stream
\* that lasted has forgotten them, so it may count from the beginning again.
Counted ==
    /\ retries \in 0..Attempts /\ session.attempt \in 0..Attempts
    /\ session.stage # "over" => retries <= session.attempt
    /\ session.age = "long" => retries = 0
    /\ session.retry => session.attempt < Attempts

\* A callback past its conditions may still count on them.
CallbackCounts ==
    /\ callback.pc # "none" => session.stage \in {"stream", "stopping", "cleaning"} /\ callback.error # "none"
    /\ callback.pc = "scheduling" => Attempted(session) < Attempts
    /\ session.ended => callback.error # "none"

OverIsFresh == session.stage = "over" => ~session.cancelled

\* An answer is given to the question that is asked now, and never by a recovery.
Asked ==
    /\ control.answer = "yes" =>
          /\ session.stage = "admit" /\ session.deadline = "none"
          /\ control.pc \in {"confirm", "takeover"}
    /\ control.complete => control.pc \in {"idle", "resize", "video", "ended"}
    /\ link.request = "takeover" => control.pc = "takeover" /\ control.answer = "yes"
    /\ link.reply # "none" => link.request = "none"
    /\ control.pc \in {"idle", "confirm"} => link.request = "none" /\ link.reply = "none"

ChainInv == Shaped /\ Counted /\ CallbackCounts /\ OverIsFresh /\ Asked


-----------------------------------------------------------------------------
(* The host                                                                *)

\* What a step of the host may do to the connection of the viewer.
Served ==
    /\ UNCHANGED <<session, callback, control, retries>>
    /\ DOMAIN link' = LinkFields /\ DOMAIN host' = HostFields
    /\ link'.request \in {link.request, "none"}
    /\ \/ link'.reply \in {link.reply, "none"}
       \/ link.request # "none" /\ link'.request = "none"

LEMMA ServedKeeps == ASSUME ChainInv, Served PROVE ChainInv'
  BY DEF Served, ChainInv, Shaped, Counted, CallbackCounts, Attempted, OverIsFresh, Asked

LEMMA HostShapes ==
    ASSUME Shaped
    PROVE  /\ DOMAIN IdleHost = HostFields
           /\ \A me, lease : DOMAIN Owned(me, lease) = HostFields
           /\ \A from, to : DOMAIN Renamed(from, to) = HostFields
           /\ \A from, to, a, b : DOMAIN RenamedIn(Renamed(a, b), from, to) = HostFields
           /\ \A reply, lease : /\ DOMAIN Replied(reply, lease) = LinkFields
                                /\ Replied(reply, lease).request = "none"
<1>1. DOMAIN IdleHost = HostFields
  BY DEF IdleHost, HostFields
<1>2. ASSUME NEW me, NEW lease PROVE DOMAIN Owned(me, lease) = HostFields
  BY <1>1 DEF Owned
<1>3. ASSUME NEW from, NEW to PROVE DOMAIN Renamed(from, to) = HostFields
  BY DEF Renamed, RenamedIn, Shaped
<1>4. ASSUME NEW from, NEW to, NEW a, NEW b
      PROVE  DOMAIN RenamedIn(Renamed(a, b), from, to) = HostFields
  BY <1>3 DEF RenamedIn
<1>5. ASSUME NEW reply, NEW lease
      PROVE  DOMAIN Replied(reply, lease) = LinkFields /\ Replied(reply, lease).request = "none"
  BY DEF Replied, Shaped, LinkFields
<1> QED  BY <1>1, <1>2, <1>3, <1>4, <1>5

LEMMA DropsShape ==
    ASSUME Shaped, NEW new, NEW told, DOMAIN new = HostFields, HostDrops(new, told)
    PROVE  /\ DOMAIN link' = LinkFields /\ DOMAIN host' = HostFields
           /\ link'.request \in {link.request, "none"} /\ link'.reply = link.reply
  BY DEF HostDrops, Shaped, LinkFields

LEMMA HostServes ==
    ASSUME Shaped, Host PROVE Served
<1>1. DOMAIN link = LinkFields /\ DOMAIN host = HostFields
  BY DEF Shaped
<1>2. CASE ServeStatus
  <2>1. \A new : /\ DOMAIN [host EXCEPT !.session = "this", !.challenged = {}] = HostFields
                 /\ DOMAIN [host EXCEPT !.challenged = new] = HostFields
    BY <1>1
  <2>2. UNCHANGED <<session, callback, control, retries>>
    BY <1>2 DEF ServeStatus
  <2>3. link.request # "none" /\ \E reply, lease : link' = Replied(reply, lease)
    BY <1>2 DEF ServeStatus, Refusal, Unavailable
  <2>4. DOMAIN host' = HostFields
    BY <1>1, <1>2, <2>1, HostShapes DEF ServeStatus, Refusal, Unavailable
  <2> QED  BY <2>2, <2>3, <2>4, HostShapes DEF Served
<1>3. CASE ServeTakeover
  BY <1>1, <1>3, HostShapes DEF ServeTakeover, Served
<1>4. CASE ServeResize
  BY <1>1, <1>4, HostShapes DEF ServeResize, Served
<1>5. CASE ServeVideo
  BY <1>1, <1>5, HostShapes DEF ServeVideo, Served
<1>6. CASE ServeLate
  <2>1. DOMAIN [host EXCEPT !.session = "late", !.challenged = {}] = HostFields
    BY <1>1
  <2> QED  BY <1>1, <1>6, <2>1, HostShapes, DropsShape DEF ServeLate, Served
<1>7. CASE ServeRelease
  BY <1>1, <1>7, HostShapes DEF ServeRelease, Served, Released
<1>8. CASE OwnershipExpires
  BY <1>1, <1>8, HostShapes DEF OwnershipExpires, Served
<1> QED  BY <1>2, <1>3, <1>4, <1>5, <1>6, <1>7, <1>8 DEF Host

LEMMA HostDisturbed ==
    ASSUME Shaped, HostEnds \/ OtherConnects \/ OtherLeaves \/ LinkLost PROVE Served
<1>1. DOMAIN link = LinkFields /\ DOMAIN host = HostFields
  BY DEF Shaped
<1>2. CASE HostEnds
  BY <1>2, HostShapes, DropsShape DEF HostEnds, Served
<1>3. CASE OtherConnects
  <2>1. DOMAIN [IdleHost EXCEPT !.session = "other"] = HostFields
    BY HostShapes
  <2> QED  BY <1>3, <2>1, DropsShape DEF OtherConnects, Served
<1>4. CASE OtherLeaves
  BY <1>1, <1>4, HostShapes DEF OtherLeaves, Served
<1>5. CASE LinkLost
  BY <1>1, <1>5, HostShapes DEF LinkLost, Served, NoLink, LinkFields
<1> QED  BY <1>2, <1>3, <1>4, <1>5

-----------------------------------------------------------------------------
(* The controller's worker                                                 *)

LEMMA Disconnects ==
    ASSUME Shaped, NEW held, Disconnected(held)
    PROVE  /\ DOMAIN link' = LinkFields /\ DOMAIN host' = HostFields
           /\ link'.request = "none" /\ link'.reply = "none"
  BY HostShapes DEF Disconnected, NoLink, Shaped, LinkFields

\* A worker's step leaves the Session alone; so only its own part is to show.
LEMMA WorkerKeeps ==
    ASSUME ChainInv, UNCHANGED <<session, callback, retries>>, Shaped', Asked'
    PROVE  ChainInv'
  BY DEF ChainInv, Counted, CallbackCounts, Attempted, OverIsFresh

LEMMA EndsKeeps ==
    ASSUME ChainInv, NEW c, WorkerEnds(c), UNCHANGED <<session, callback, retries>>
    PROVE  ChainInv'
<1>1. /\ DOMAIN link' = LinkFields /\ DOMAIN host' = HostFields /\ link'.request = "none"
  BY Disconnects DEF WorkerEnds, ChainInv
<1>2. /\ DOMAIN control' = ControlFields /\ control'.answer = "none" /\ control'.pc = "ended"
  BY DEF WorkerEnds, NoController, ControlFields
<1>3. Shaped'
  BY <1>1, <1>2 DEF ChainInv, Shaped
<1>4. Asked'
  BY <1>1, <1>2 DEF Asked
<1> QED  BY <1>3, <1>4, WorkerKeeps

LEMMA WorkerStep == ASSUME ChainInv, Worker \/ TimesOut PROVE ChainInv'
<1> USE DEF ChainInv
<1>1. UNCHANGED <<session, callback, retries>>
  BY DEF Worker, TimesOut
<1>2. /\ DOMAIN control = ControlFields /\ DOMAIN link = LinkFields /\ DOMAIN host = HostFields
      /\ DOMAIN session = SessionFields /\ DOMAIN callback = {"pc", "error"}
  BY DEF Shaped
<1>3. CASE \E c : WorkerEnds(c)
  BY <1>1, <1>3, EndsKeeps
<1>4. CASE Connects /\ ~\E c : WorkerEnds(c)
  BY <1>1, <1>2, <1>4, WorkerKeeps
  DEF Connects, Working, Shaped, Asked, NoLink, LinkFields, ControlFields
<1>5. CASE ReadsAdmission /\ ~\E c : WorkerEnds(c)
  <2>1. \/ Takes([control EXCEPT !.pc = "idle", !.token = link.lease, !.answer = "none"])
        \/ link.reply = "busy" /\ Takes([control EXCEPT !.pc = "confirm"])
    BY <1>5 DEF ReadsAdmission
  <2>2. control.pc \in {"status", "takeover"} /\ link.request = "none"
    BY <1>5 DEF ReadsAdmission, Asked
  <2> QED  BY <1>1, <1>2, <2>1, <2>2, WorkerKeeps
           DEF Takes, Shaped, Asked, LinkFields, ControlFields
<1>6. CASE Confirms /\ ~\E c : WorkerEnds(c)
  BY <1>1, <1>2, <1>6, WorkerKeeps
  DEF Confirms, Working, Sends, Shaped, Asked, LinkFields, ControlFields
<1>7. CASE AsksResize
  BY <1>1, <1>2, <1>7, WorkerKeeps
  DEF AsksResize, Working, Sends, Shaped, Asked, LinkFields, ControlFields
<1>8. CASE ReadsResize /\ ~\E c : WorkerEnds(c)
  BY <1>1, <1>2, <1>8, WorkerKeeps
  DEF ReadsResize, Working, Takes, Shaped, Asked, LinkFields, ControlFields
<1>9. CASE AsksVideo
  BY <1>1, <1>2, <1>9, WorkerKeeps
  DEF AsksVideo, Working, Sends, Shaped, Asked, LinkFields, ControlFields
<1>10. CASE ReadsVideo /\ ~\E c : WorkerEnds(c)
  BY <1>1, <1>2, <1>10, WorkerKeeps
  DEF ReadsVideo, Working, Takes, Shaped, Asked, LinkFields, ControlFields
<1>11. ReadsEnd \/ ReadsNothing \/ TimesOut => \E c : WorkerEnds(c)
  BY DEF ReadsEnd, ReadsNothing, TimesOut, GivesUp
<1> QED  BY <1>3, <1>4, <1>5, <1>6, <1>7, <1>8, <1>9, <1>10, <1>11 DEF Worker

-----------------------------------------------------------------------------
(* The Session                                                             *)

LEMMA FreshSession ==
    /\ DOMAIN NewSession = SessionFields /\ DOMAIN Over = SessionFields
    /\ NewSession.stage = "delay" /\ Over.stage = "over"
    /\ \A s \in {NewSession, Over} :
          /\ s.attempt = 0 /\ s.age = "none" /\ ~s.retry /\ ~s.cancelled /\ ~s.ended
          /\ s.deadline = "none"
  BY DEF NewSession, Over, SessionFields

\* A controller that is let go takes its answer with it.
LEMMA DropsAsked ==
    ASSUME Shaped, Dropped
    PROVE  /\ DOMAIN control' = ControlFields /\ DOMAIN link' = LinkFields
           /\ DOMAIN host' = HostFields /\ Asked'
<1>1. /\ DOMAIN link' = LinkFields /\ DOMAIN host' = HostFields
      /\ link'.request = "none" /\ link'.reply = "none"
  BY Disconnects DEF Dropped
<1>2. /\ DOMAIN control' = ControlFields /\ control'.answer = "none"
      /\ control'.complete = FALSE /\ control'.pc = "none"
  BY DEF Dropped, NoController, ControlFields
<1> QED  BY <1>1, <1>2 DEF Asked

\* Without an answer nothing of the controller depends on the Session.
LEMMA RetainsAsked ==
    ASSUME Asked, Retained,
           control.answer = "yes" => session'.stage = "admit" /\ session'.deadline = "none"
    PROVE  Asked'
  BY DEF Asked, Retained

\* What most steps do with the Session: its counters are what they were.
Kept ==
    /\ DOMAIN session' = SessionFields
    /\ session'.attempt = session.attempt
    /\ session'.age = session.age
    /\ session'.retry => session.retry
    /\ session'.ended => session.ended
    /\ session.stage # "over" /\ session'.stage # "over"
    /\ callback.pc # "none" => session'.stage \in {"stream", "stopping", "cleaning"}
    /\ UNCHANGED <<callback, retries>>

LEMMA KeptKeeps ==
    ASSUME ChainInv, Kept, Asked',
           DOMAIN control' = ControlFields, DOMAIN link' = LinkFields, DOMAIN host' = HostFields
    PROVE  ChainInv'
  BY DEF ChainInv, Kept, Shaped, Counted, CallbackCounts, Attempted, OverIsFresh

LEMMA LeavesKeeps ==
    ASSUME ChainInv, session.stage \in {"delay", "admit"}, Leaves, InExec
    PROVE  ChainInv'
<1>1. /\ DOMAIN control' = ControlFields /\ DOMAIN link' = LinkFields
      /\ DOMAIN host' = HostFields /\ Asked'
  BY DropsAsked DEF Leaves, ChainInv
<1>2. /\ session' = Over /\ UNCHANGED <<callback, retries>>
      /\ callback.pc = "none"
  BY DEF Leaves, InExec, ChainInv, CallbackCounts
<1> QED  BY <1>1, <1>2, FreshSession, ViewerConstants
         DEF ChainInv, Shaped, Counted, CallbackCounts, OverIsFresh, ViewerConstants

LEMMA EnterStep == ASSUME ChainInv, NEW size, Enter(size) PROVE ChainInv'
<1>1. /\ DOMAIN control = ControlFields /\ DOMAIN link = LinkFields /\ DOMAIN host = HostFields
      /\ DOMAIN session = SessionFields /\ session.stage = "delay"
  BY DEF ChainInv, Shaped, Enter
<1>2. CASE session.cancelled \/ Expired \/ session.escaped
  BY <1>1, <1>2, LeavesKeeps DEF Enter
<1>3. CASE ~(session.cancelled \/ Expired \/ session.escaped)
  <2>1. Kept
    BY <1>1, <1>3 DEF Enter, Kept, InExec, SessionFields, ChainInv, CallbackCounts
  <2>2. /\ DOMAIN control' = ControlFields /\ control'.answer = "none"
        /\ control'.complete = FALSE
        /\ control'.pc = control.pc \/ control'.pc = "connect"
    BY <1>1, <1>3 DEF Enter, Restarted, Controller, NoController, ControlFields
  <2>3. UNCHANGED <<link, host>> /\ control.answer # "yes"
    BY <1>1, <1>3 DEF Enter, ChainInv, Asked
  <2> QED  BY <1>1, <2>1, <2>2, <2>3, KeptKeeps DEF ChainInv, Asked
<1> QED  BY <1>2, <1>3

LEMMA AdmissionStep ==
    ASSUME ChainInv,
           (\E yes \in BOOLEAN : Answer(yes)) \/ CancelsAdmission \/ ResizeTimesOut \/ Admitted
    PROVE  ChainInv'
<1>1. /\ DOMAIN control = ControlFields /\ DOMAIN link = LinkFields /\ DOMAIN host = HostFields
      /\ DOMAIN session = SessionFields /\ Asked
  BY DEF ChainInv, Shaped
<1>2. ASSUME session.stage = "admit", UNCHANGED session, InExec PROVE Kept
  BY <1>1, <1>2 DEF Kept, InExec, ChainInv, CallbackCounts
<1>3. ASSUME NEW yes \in BOOLEAN, Answer(yes) PROVE ChainInv'
  <2>1. Kept /\ UNCHANGED <<link, host>>
    BY <1>2, <1>3 DEF Answer
  <2>2. DOMAIN control' = ControlFields /\ Asked'
    BY <1>1, <1>3 DEF Answer, MayAsk, Asked, ControlFields
  <2> QED  BY <1>1, <2>1, <2>2, KeptKeeps
<1>4. CASE CancelsAdmission
  <2>1. Kept /\ UNCHANGED <<link, host>>
    BY <1>2, <1>4 DEF CancelsAdmission
  <2>2. DOMAIN control' = ControlFields /\ Asked'
    BY <1>1, <1>4 DEF CancelsAdmission, Final, Asked, ControlFields
  <2> QED  BY <1>1, <2>1, <2>2, KeptKeeps
<1>5. CASE ResizeTimesOut
  <2>1. Kept /\ UNCHANGED <<link, host>>
    BY <1>2, <1>5 DEF ResizeTimesOut
  <2>2. DOMAIN control' = ControlFields /\ Asked'
    BY <1>1, <1>5 DEF ResizeTimesOut, Asked, ControlFields
  <2> QED  BY <1>1, <2>1, <2>2, KeptKeeps
<1>6. CASE Admitted /\ session.escaped
  BY <1>6, LeavesKeeps DEF Admitted
<1>7. CASE Admitted /\ ~session.escaped
  <2>1. Kept /\ UNCHANGED <<link, host>>
    BY <1>1, <1>7 DEF Admitted, Kept, InExec, SessionFields, ChainInv, CallbackCounts
  <2>2. DOMAIN control' = ControlFields /\ Asked'
    BY <1>1, <1>7 DEF Admitted, Asked, ControlFields
  <2> QED  BY <1>1, <2>1, <2>2, KeptKeeps
<1> QED  BY <1>3, <1>4, <1>5, <1>6, <1>7

-----------------------------------------------------------------------------
(* Retries                                                                 *)

\* Scheduling a recovery makes the attempt that of the present interruption.
LEMMA SchedulesCount ==
    ASSUME Shaped, Counted, Attempted(session) < Attempts
    PROVE  /\ DOMAIN Scheduled(session) = SessionFields
           /\ Scheduled(session).attempt = Attempted(session)
           /\ Attempted(session) \in 0..Attempts
           /\ session.stage # "over" => retries <= Attempted(session)
           /\ Scheduled(session).age = session.age
           /\ Attempted(Scheduled(session)) = Attempted(session)
           /\ Scheduled(session).stage = session.stage
           /\ Scheduled(session).cancelled = session.cancelled
           /\ Scheduled(session).ended = session.ended
  BY ViewerConstants DEF Shaped, SessionFields, Counted, Scheduled, Attempted, ViewerConstants

LEMMA MayCount ==
    ASSUME Shaped, Counted
    PROVE  LET s == ScheduledIfPossible(session)
           IN  /\ DOMAIN s = SessionFields
               /\ s.attempt \in 0..Attempts
               /\ session.stage # "over" => retries <= s.attempt
               /\ s.age = session.age
               /\ s.retry => s.attempt < Attempts
               /\ Attempted(session) < Attempts => Attempted(s) < Attempts
               /\ s.stage = session.stage /\ s.cancelled = session.cancelled
               /\ s.ended = session.ended
<1>1. CASE Schedulable(session)
  <2>1. Attempted(session) < Attempts
    BY <1>1 DEF Schedulable
  <2> QED  BY <1>1, <2>1, SchedulesCount DEF ScheduledIfPossible
<1>2. CASE ~Schedulable(session)
  BY <1>2 DEF ScheduledIfPossible, Shaped, Counted
<1> QED  BY <1>1, <1>2

\* The end of a launch or a stream, with or without a recovery scheduled.
LEMMA EndsCounted ==
    ASSUME ChainInv, session.stage \notin {"over", "delay"},
           NEW s, s = session \/ s = ScheduledIfPossible(session),
           DOMAIN session' = SessionFields,
           session'.stage = "stopping", session'.attempt = s.attempt, session'.age = s.age,
           session'.retry => s.retry, session'.ended = s.ended,
           Asked', DOMAIN control' = ControlFields, DOMAIN link' = LinkFields,
           DOMAIN host' = HostFields, UNCHANGED <<callback, retries>>
    PROVE  ChainInv'
<1>1. /\ s.attempt \in 0..Attempts /\ retries <= s.attempt /\ s.age = session.age
      /\ s.retry => s.attempt < Attempts
      /\ Attempted(session) < Attempts => Attempted(s) < Attempts
      /\ s.ended = session.ended
  BY MayCount DEF ChainInv, Counted
<1>2. Shaped' /\ OverIsFresh'
  BY DEF Shaped, OverIsFresh, ChainInv
<1>3. Counted'
  BY <1>1 DEF Counted, ChainInv
<1>4. CallbackCounts'
  <2>1. Attempted(session)' = Attempted(s)
    BY DEF Attempted
  <2> QED  BY <1>1, <2>1 DEF CallbackCounts, ChainInv
<1> QED  BY <1>2, <1>3, <1>4 DEF ChainInv

\* The parts of the invariant that most of the following steps need.
LEMMA Parts ==
    ASSUME ChainInv
    PROVE  /\ DOMAIN session = SessionFields /\ DOMAIN control = ControlFields
           /\ DOMAIN link = LinkFields /\ DOMAIN host = HostFields
           /\ DOMAIN callback = {"pc", "error"}
           /\ Shaped /\ Counted /\ CallbackCounts /\ OverIsFresh /\ Asked
  BY DEF ChainInv, Shaped

LEMMA NotAdmittedStep == ASSUME ChainInv, NotAdmitted PROVE ChainInv'
<1>1. /\ DOMAIN control' = ControlFields /\ DOMAIN link' = LinkFields
      /\ DOMAIN host' = HostFields /\ Asked'
  BY Parts, DropsAsked DEF NotAdmitted
<1>2. PICK s \in {session, ScheduledIfPossible(session)} : Stops(s)
  BY DEF NotAdmitted
<1>3. DOMAIN s = SessionFields
  BY Parts, MayCount
<1>4. /\ session.stage = "admit" /\ UNCHANGED <<callback, retries>>
  BY DEF NotAdmitted, InExec
<1>5. /\ DOMAIN session' = SessionFields /\ session'.stage = "stopping"
      /\ session'.attempt = s.attempt /\ session'.age = s.age /\ session'.retry = s.retry
      /\ session'.ended = s.ended
  BY <1>2, <1>3 DEF Stops, SessionFields
<1> QED  BY <1>1, <1>4, <1>5, EndsCounted

LEMMA LaunchStep ==
    ASSUME ChainInv, Launched \/ LaunchFails \/ LaunchInterrupted
    PROVE  ChainInv'
<1>1. /\ session.stage = "launch" /\ UNCHANGED <<callback, retries>> /\ Retained
      /\ callback.pc = "none" /\ control.answer # "yes"
  BY Parts DEF Launched, LaunchFails, LaunchInterrupted, InExec, CallbackCounts, Asked
<1>2. Asked' /\ UNCHANGED <<control, link, host>>
  BY <1>1, Parts, RetainsAsked DEF Retained
<1>3. CASE Launched
  <2>1. session' = [session EXCEPT !.stage = "stream", !.age = "short", !.window = FALSE]
    BY <1>3 DEF Launched
  <2>2. /\ DOMAIN session' = SessionFields /\ session'.stage = "stream"
        /\ session'.attempt = session.attempt /\ session'.age = "short"
        /\ session'.retry = session.retry /\ session'.ended = session.ended
    BY <2>1, Parts DEF SessionFields
  <2> QED  BY <1>1, <1>2, <2>2, Parts
           DEF ChainInv, Shaped, Counted, CallbackCounts, OverIsFresh
<1>4. CASE LaunchFails \/ LaunchInterrupted
  <2>1. \E s \in {session, ScheduledIfPossible(session)} :
           Stops(s) \/ Stops([session EXCEPT !.cancelled = TRUE])
    BY <1>4 DEF LaunchFails, LaunchInterrupted
  <2>2. PICK s \in {session, ScheduledIfPossible(session)} :
           /\ DOMAIN session' = SessionFields /\ session'.stage = "stopping"
           /\ session'.attempt = s.attempt /\ session'.age = s.age /\ session'.retry = s.retry
           /\ session'.ended = s.ended
    BY <2>1, Parts, MayCount DEF Stops, SessionFields
  <2> QED  BY <1>1, <1>2, <2>2, Parts, EndsCounted
<1> QED  BY <1>3, <1>4

LEMMA StreamStep ==
    ASSUME ChainInv, StreamStops \/ Reconnect \/ WindowResized PROVE ChainInv'
<1>1. /\ session.stage = "stream" /\ UNCHANGED <<callback, retries>> /\ Retained
      /\ control.answer # "yes"
  BY Parts DEF StreamStops, Reconnect, WindowResized, Undisturbed, InExec, Asked
<1>2. Asked' /\ UNCHANGED <<control, link, host>>
  BY <1>1, Parts, RetainsAsked DEF Retained
<1>3. ASSUME NEW s, s = session \/ s = ScheduledIfPossible(session),
             NEW e, Ends(e), DOMAIN e = SessionFields,
             e.attempt = s.attempt, e.age = s.age, e.retry => s.retry, e.ended = s.ended
      PROVE  ChainInv'
  <2>1. /\ DOMAIN session' = SessionFields /\ session'.stage = "stopping"
        /\ session'.attempt = e.attempt /\ session'.age = e.age /\ session'.retry = e.retry
        /\ session'.ended = e.ended
    BY <1>3 DEF Ends, SessionFields
  <2> QED  BY <1>1, <1>2, <1>3, <2>1, Parts, EndsCounted
<1>4. CASE StreamStops
  <2>1. CASE Ends([session EXCEPT !.retry = FALSE])
    BY <1>3, <2>1, Parts DEF SessionFields
  <2>2. CASE Ends([ScheduledIfPossible(session) EXCEPT !.reported = TRUE])
    <3> DEFINE s == ScheduledIfPossible(session)
    <3>1. DOMAIN s = SessionFields
      BY Parts, MayCount
    <3> HIDE DEF s
    <3>2. /\ DOMAIN [s EXCEPT !.reported = TRUE] = SessionFields
          /\ [s EXCEPT !.reported = TRUE].attempt = s.attempt
          /\ [s EXCEPT !.reported = TRUE].age = s.age
          /\ [s EXCEPT !.reported = TRUE].retry = s.retry
          /\ [s EXCEPT !.reported = TRUE].ended = s.ended
      BY <3>1 DEF SessionFields
    <3> QED  BY <1>3, <2>2, <3>2 DEF s
  <2>3. CASE Ends(session)
    BY <1>3, <2>3, Parts
  <2> QED  BY <1>4, <2>1, <2>2, <2>3 DEF StreamStops
<1>5. CASE Reconnect
  BY <1>3, <1>5, Parts DEF Reconnect, SessionFields
<1>6. CASE WindowResized
  BY <1>3, <1>6, Parts DEF WindowResized, SessionFields
<1> QED  BY <1>4, <1>5, <1>6

\* The next Session carries one attempt more, and the count follows.
LEMMA ContinuedCounts ==
    ASSUME ChainInv, adaptiveRestartPending(session)
    PROVE  LET s == Continued(session)
           IN  /\ DOMAIN s = SessionFields /\ s.stage = "delay"
               /\ s.attempt \in 0..Attempts /\ s.age = "none"
               /\ ~s.retry /\ ~s.cancelled /\ ~s.ended
               /\ s.attempt = IF session.retry THEN session.attempt + 1 ELSE 0
<1>1. session.attempt \in 0..Attempts /\ (session.retry => session.attempt < Attempts)
  BY DEF ChainInv, Counted
<1> QED  BY <1>1, ViewerConstants
         DEF Continued, NextAttempt, NewSession, SessionFields, ViewerConstants

\* The clean-up before its end leaves the counters alone.
LEMMA CleaningStep == ASSUME ChainInv, NothingPending \/ DropsController PROVE ChainInv'
<1>1. /\ session.stage \in {"stopping", "cleaning"} /\ control.answer # "yes"
      /\ Dropped \/ Retained
  BY Parts DEF NothingPending, DropsController, Asked
<1>2. Kept
  BY Parts DEF NothingPending, DropsController, Kept, InExec, SessionFields, CallbackCounts
<1>3. /\ DOMAIN control' = ControlFields /\ DOMAIN link' = LinkFields
      /\ DOMAIN host' = HostFields /\ Asked'
  <2>1. CASE Dropped
    BY <2>1, Parts, DropsAsked
  <2>2. CASE Retained
    BY <1>1, <2>2, Parts, RetainsAsked DEF Retained
  <2> QED  BY <1>1, <2>1, <2>2
<1> QED  BY <1>2, <1>3, KeptKeeps

LEMMA CleanUpStep == ASSUME ChainInv, CleanedUp PROVE ChainInv'
<1>1. /\ session.stage \in {"stopping", "cleaning"} /\ callback' = NoCallback
      /\ DOMAIN callback' = {"pc", "error"} /\ callback'.pc = "none"
      /\ control.answer # "yes"
  BY Parts DEF CleanedUp, NoCallback, Asked
<1>2. /\ DOMAIN control' = ControlFields /\ DOMAIN link' = LinkFields
      /\ DOMAIN host' = HostFields /\ Asked'
  <2>1. CASE Dropped
    BY <2>1, Parts, DropsAsked
  <2>2. CASE Retained
    BY <1>1, <2>2, Parts, RetainsAsked DEF Retained
  <2> QED  BY <2>1, <2>2 DEF CleanedUp
<1>3. CASE adaptiveRestartPending(session)
  <2>1. /\ session' = Continued(session)
        /\ retries' = IF ~session.retry THEN 0
                      ELSE IF retries <= Attempts THEN retries + 1 ELSE retries
    BY <1>3 DEF CleanedUp
  <2>2. /\ retries \in 0..Attempts /\ retries <= session.attempt /\ session.attempt \in 0..Attempts
        /\ (session.retry => session.attempt < Attempts)
    BY <1>1 DEF ChainInv, Counted
  <2>3. /\ session'.stage = "delay" /\ DOMAIN session' = SessionFields
        /\ session'.attempt \in 0..Attempts /\ session'.age = "none"
        /\ ~session'.retry /\ ~session'.cancelled /\ ~session'.ended
        /\ session'.attempt = IF session.retry THEN session.attempt + 1 ELSE 0
    BY <1>3, <2>1, ContinuedCounts
  <2>4. Counted'
    BY <2>1, <2>2, <2>3, ViewerConstants DEF Counted, ViewerConstants
  <2>5. CallbackCounts'
    BY <1>1, <2>3 DEF CallbackCounts
  <2> QED  BY <1>1, <1>2, <2>3, <2>4, <2>5 DEF ChainInv, Shaped, OverIsFresh
<1>4. CASE ~adaptiveRestartPending(session)
  <2>1. session' = Over /\ UNCHANGED retries
    BY <1>4 DEF CleanedUp
  <2>2. Counted' /\ CallbackCounts' /\ OverIsFresh'
    BY <1>1, <2>1, FreshSession, Parts, ViewerConstants
    DEF Counted, CallbackCounts, OverIsFresh, ViewerConstants
  <2> QED  BY <1>1, <1>2, <2>1, <2>2, FreshSession DEF ChainInv, Shaped
<1> QED  BY <1>3, <1>4

-----------------------------------------------------------------------------
(* The callback, the user and the clocks                                   *)

\* Steps that change one or two fields of a Session that is not over.
LEMMA SmallStep ==
    ASSUME ChainInv, Disconnect \/ Escape \/ Picture \/ DeadlinePasses
    PROVE  ChainInv'
<1>1. UNCHANGED <<callback, retries>> /\ Retained
  BY DEF Disconnect, Escape, Picture, DeadlinePasses, InExec
<1>2. CASE session.stage = "over"
  <2>1. Escape \/ DeadlinePasses
    BY <1>2 DEF Disconnect, Escape, Picture, DeadlinePasses
  <2>2. session' = [session EXCEPT !.escaped = TRUE]
          \/ session' = [session EXCEPT !.deadline = "passed"]
    BY <2>1 DEF Escape, DeadlinePasses
  <2>3. /\ DOMAIN session' = SessionFields
        /\ session'.stage = session.stage /\ session'.attempt = session.attempt
        /\ session'.age = session.age /\ session'.retry = session.retry
        /\ session'.cancelled = session.cancelled /\ session'.ended = session.ended
    BY <2>2, Parts DEF SessionFields
  <2>4. Asked'
    BY <1>1, <1>2, Parts, RetainsAsked DEF Asked
  <2> QED  BY <1>1, <2>3, <2>4 DEF ChainInv, Shaped, Counted, CallbackCounts, Attempted, OverIsFresh, Retained
<1>3. CASE session.stage # "over"
  <2>1. /\ DOMAIN session' = SessionFields /\ session'.stage = session.stage
        /\ session'.attempt = session.attempt /\ session'.age = session.age
        /\ (session'.retry => session.retry) /\ session'.ended = session.ended
        /\ session'.deadline = session.deadline \/ session.deadline = "running"
    BY Parts DEF Disconnect, Escape, Picture, DeadlinePasses, SessionFields
  <2>2. Kept
    BY <1>1, <1>3, <2>1, Parts DEF Kept, CallbackCounts
  <2>3. Asked'
    BY <1>1, <2>1, Parts, RetainsAsked DEF Asked
  <2> QED  BY <1>1, <2>2, <2>3, Parts, KeptKeeps DEF Retained
<1> QED  BY <1>2, <1>3

LEMMA VideoStep == ASSUME ChainInv, SetsVideoPaused PROVE ChainInv'
<1>1. /\ UNCHANGED <<session, link, host, callback, retries>>
      /\ \E state : control' = [control EXCEPT !.wants = state]
  BY DEF SetsVideoPaused, InExec
<1>2. DOMAIN control' = ControlFields /\ Asked'
  BY <1>1, Parts DEF ControlFields, Asked
<1> QED  BY <1>1, <1>2, Parts DEF ChainInv, Shaped, Counted, CallbackCounts, Attempted, OverIsFresh

LEMMA LastsStep == ASSUME ChainInv, StreamLasts PROVE ChainInv'
<1>1. /\ session' = [session EXCEPT !.age = "long"] /\ session.stage = "stream"
      /\ retries' = 0 /\ UNCHANGED callback /\ Retained
  BY DEF StreamLasts
<1>2. /\ DOMAIN session' = SessionFields /\ session'.stage = "stream"
      /\ session'.attempt = session.attempt /\ session'.age = "long"
      /\ session'.retry = session.retry /\ session'.ended = session.ended
      /\ session'.deadline = session.deadline
  BY <1>1, Parts DEF SessionFields
<1>3. Asked'
  BY <1>1, <1>2, Parts, RetainsAsked DEF Asked
<1>4. Counted' /\ CallbackCounts'
  BY <1>1, <1>2, Parts, ViewerConstants DEF Counted, CallbackCounts, Attempted, ViewerConstants
<1> QED  BY <1>1, <1>2, <1>3, <1>4, Parts DEF ChainInv, Shaped, OverIsFresh, Retained

LEMMA CallbackStep ==
    ASSUME ChainInv,
           Callback \/ StaleReports
             \/ \E error \in {"network", "graceful", "fatal"} : MediaEnds(error)
    PROVE  ChainInv'
<1>1. CASE StaleReports
  <2>1. UNCHANGED <<session, callback, control, link, host, retries>>
    BY <1>1 DEF StaleReports, StaleEffect
  <2> QED  BY <2>1 DEF ChainInv, Shaped, Counted, CallbackCounts, Attempted, OverIsFresh, Asked
<1>2. CASE \E error \in {"network", "graceful", "fatal"} : MediaEnds(error)
  <2>1. /\ UNCHANGED <<session, control, link, host, retries>> /\ session.stage = "stream"
        /\ DOMAIN callback' = {"pc", "error"} /\ callback'.pc = "waiting"
        /\ callback'.error # "none"
    BY <1>2 DEF MediaEnds, Retained
  <2> QED  BY <2>1 DEF ChainInv, Shaped, Counted, CallbackCounts, OverIsFresh, Asked
<1>3. CASE CallbackReports
  <2>1. /\ UNCHANGED <<control, link, host, retries>> /\ callback.pc = "waiting"
        /\ session.stage \in {"stream", "stopping", "cleaning"} /\ control.answer # "yes"
    BY <1>3, Parts DEF CallbackReports, Asked
  <2>2. /\ DOMAIN callback' = {"pc", "error"} /\ callback'.error \in {callback.error, "graceful", "fatal"}
        /\ callback'.pc \in {"scheduling", "done"}
        /\ callback'.pc = "scheduling" => Attempted(session) < Attempts
    BY <1>3, Parts DEF CallbackReports, Done, Schedulable
  <2>3. /\ DOMAIN session' = SessionFields /\ session'.stage = session.stage
        /\ session'.attempt = session.attempt /\ session'.age = session.age
        /\ session'.retry = session.retry
    BY <1>3, Parts DEF CallbackReports, SessionFields
  <2>4. callback.error # "none" /\ Attempted(session)' = Attempted(session)
    BY <2>1, <2>3, Parts DEF CallbackCounts, Attempted
  <2> QED  BY <2>1, <2>2, <2>3, <2>4
           DEF ChainInv, Shaped, Counted, CallbackCounts, OverIsFresh, Asked
<1>4. CASE CallbackSchedules
  <2> DEFINE s == Scheduled(session)
  <2>1. /\ UNCHANGED <<control, link, host, retries>> /\ callback.pc = "scheduling"
        /\ session.stage \in {"stream", "stopping", "cleaning"} /\ control.answer # "yes"
        /\ Attempted(session) < Attempts /\ callback.error # "none"
    BY <1>4, Parts DEF CallbackSchedules, Retained, Asked, CallbackCounts
  <2>2. /\ DOMAIN callback' = {"pc", "error"} /\ callback'.error \in {"graceful", "fatal"}
        /\ callback'.pc = "done"
    BY <1>4, Parts DEF CallbackSchedules, Done
  <2>3. /\ DOMAIN s = SessionFields /\ s.attempt = Attempted(session)
        /\ Attempted(session) \in 0..Attempts /\ retries <= Attempted(session)
        /\ s.age = session.age /\ s.stage = session.stage
    BY <2>1, Parts, SchedulesCount
  <2>4. session' = [s EXCEPT !.ended = TRUE]
    BY <1>4 DEF CallbackSchedules
  <2> HIDE DEF s
  <2>5. /\ DOMAIN session' = SessionFields /\ session'.stage = s.stage
        /\ session'.attempt = s.attempt /\ session'.age = s.age
    BY <2>3, <2>4 DEF SessionFields
  <2> QED  BY <2>1, <2>2, <2>3, <2>5
           DEF ChainInv, Shaped, Counted, CallbackCounts, OverIsFresh, Asked
<1> QED  BY <1>1, <1>2, <1>3, <1>4 DEF Callback

LEMMA BoundaryStep == ASSUME ChainInv, Connect \/ Quits PROVE ChainInv'
<1>1. session.stage \in {"over", "delay"} /\ UNCHANGED callback /\ callback.pc = "none"
  BY Parts DEF Connect, Quits, CallbackCounts
<1>2. CASE Connect
  <2>1. /\ session' = NewSession /\ retries' = 0 /\ Retained /\ session.stage = "over"
        /\ control.answer # "yes"
    BY <1>2, Parts DEF Connect, Asked
  <2>2. Asked'
    BY <2>1, Parts, RetainsAsked
  <2> QED  BY <1>1, <2>1, <2>2, Parts, FreshSession, ViewerConstants
           DEF ChainInv, Shaped, Counted, CallbackCounts, OverIsFresh, Retained, ViewerConstants
<1>3. CASE Quits
  <2>1. /\ session' = Over /\ control' = NoController /\ link' = NoLink /\ UNCHANGED retries
    BY <1>3 DEF Quits
  <2>2. /\ DOMAIN control' = ControlFields /\ DOMAIN link' = LinkFields /\ Asked'
    BY <2>1 DEF NoController, ControlFields, NoLink, LinkFields, Asked
  <2>3. DOMAIN host' = HostFields
    <3>1. ASSUME NEW h, DOMAIN h = HostFields
          PROVE  DOMAIN RenamedIn(h, "this", "lost") = HostFields
      BY <3>1 DEF RenamedIn
    <3> QED  BY <1>3, <3>1, Parts, HostShapes DEF Quits
  <2> QED  BY <1>1, <2>1, <2>2, <2>3, Parts, FreshSession, ViewerConstants
           DEF ChainInv, Shaped, Counted, CallbackCounts, OverIsFresh, ViewerConstants
<1> QED  BY <1>2, <1>3

LEMMA ChainInitially == Init => ChainInv
<1> SUFFICES ASSUME Init PROVE ChainInv
  OBVIOUS
<1>1. /\ session = Over /\ callback = NoCallback /\ control = NoController /\ link = NoLink
      /\ host = IdleHost /\ retries = 0
  BY DEF Init
<1>2. Shaped
  BY <1>1, FreshSession
  DEF Shaped, NoCallback, NoController, ControlFields, NoLink, LinkFields, IdleHost, HostFields
<1>3. Counted /\ CallbackCounts /\ OverIsFresh
  BY <1>1, FreshSession, ViewerConstants
  DEF Counted, CallbackCounts, OverIsFresh, NoCallback, ViewerConstants
<1>4. Asked
  BY <1>1 DEF Asked, NoController, NoLink
<1> QED  BY <1>2, <1>3, <1>4 DEF ChainInv

LEMMA ChainSteps == ASSUME ChainInv, [Next]_vars PROVE ChainInv'
<1>1. CASE Host
  BY <1>1, Parts, HostServes, ServedKeeps
<1>2. CASE HostEnds \/ OtherConnects \/ OtherLeaves \/ LinkLost
  BY <1>2, Parts, HostDisturbed, ServedKeeps
<1>3. CASE Worker \/ TimesOut
  BY <1>3, WorkerStep
<1>4. CASE \E size \in Sizes : Enter(size)
  BY <1>4, EnterStep
<1>5. CASE (\E yes \in BOOLEAN : Answer(yes)) \/ CancelsAdmission \/ ResizeTimesOut \/ Admitted
  BY <1>5, AdmissionStep
<1>6. CASE NotAdmitted
  BY <1>6, NotAdmittedStep
<1>7. CASE Launch \/ LaunchInterrupted
  BY <1>7, LaunchStep DEF Launch
<1>8. CASE StreamStops \/ Reconnect \/ WindowResized
  BY <1>8, StreamStep
<1>9. CASE NothingPending \/ DropsController \/ CleanedUp
  BY <1>9, CleaningStep, CleanUpStep
<1>10. CASE Disconnect \/ Escape \/ Picture \/ DeadlinePasses
  BY <1>10, SmallStep
<1>11. CASE SetsVideoPaused
  BY <1>11, VideoStep
<1>12. CASE StreamLasts
  BY <1>12, LastsStep
<1>13. CASE Callback \/ StaleReports
              \/ \E error \in {"network", "graceful", "fatal"} : MediaEnds(error)
  BY <1>13, CallbackStep
<1>14. CASE Connect \/ Quits
  BY <1>14, BoundaryStep
<1>15. CASE UNCHANGED vars
  BY <1>15 DEF vars, ChainInv, Shaped, Counted, CallbackCounts, Attempted, OverIsFresh, Asked
<1> QED
  BY <1>1, <1>2, <1>3, <1>4, <1>5, <1>6, <1>7, <1>8, <1>9, <1>10, <1>11, <1>12, <1>13, <1>14, <1>15
  DEF Next, User, Environment, Exec, ResumeFails

THEOREM ChainInvariant == Spec => []ChainInv
<1> QED  BY ChainInitially, ChainSteps, PTL DEF Spec

-----------------------------------------------------------------------------
(* Results                                                                 *)

\* One interruption is retried at most Attempts times (RetriesBounded of
\* ViewerContinuity).
THEOREM RecoveryIsBounded == Spec => []RetriesBounded
<1>1. ChainInv => RetriesBounded
  BY ViewerConstants DEF ChainInv, Counted, RetriesBounded, ViewerConstants
<1> QED  BY <1>1, ChainInvariant, PTL

LEMMA CancelledStays ==
    ASSUME ChainInv, [Next]_vars, session.cancelled
    PROVE  session'.cancelled \/ session'.stage = "over"
<1>1. DOMAIN session = SessionFields /\ session.stage # "over"
  BY Parts DEF OverIsFresh
<1>2. CASE UNCHANGED session
  BY <1>2
<1>3. CASE NothingPending \/ DropsController \/ CleanedUp
  BY <1>1, <1>3, FreshSession
  DEF NothingPending, DropsController, CleanedUp, adaptiveRestartPending, SessionFields
<1>4. CASE \E size \in Sizes : Enter(size)
  BY <1>4, FreshSession DEF Enter, Leaves
<1>5. CASE Admitted
  BY <1>1, <1>5, FreshSession DEF Admitted, Leaves, SessionFields
<1>6. CASE NotAdmitted
  <2>1. PICK s \in {session, ScheduledIfPossible(session)} : Stops(s)
    BY <1>6 DEF NotAdmitted
  <2>2. DOMAIN s = SessionFields /\ s.cancelled
    BY <1>1, <2>1, Parts, MayCount
  <2> QED  BY <2>1, <2>2 DEF Stops, SessionFields
<1>7. CASE LaunchFails
  <2>1. PICK s \in {session, ScheduledIfPossible(session)} : Stops(s)
    BY <1>7 DEF LaunchFails
  <2>2. DOMAIN s = SessionFields /\ s.cancelled
    BY <1>1, <2>1, Parts, MayCount
  <2> QED  BY <2>1, <2>2 DEF Stops, SessionFields
<1>8. CASE Launched \/ LaunchInterrupted
  BY <1>1, <1>8 DEF Launched, LaunchInterrupted, Stops, SessionFields
<1>9. CASE StreamStops
  BY <1>1, <1>9 DEF StreamStops, Ends, SessionFields
<1>10. CASE Reconnect \/ WindowResized
  BY <1>10 DEF Reconnect, WindowResized, Undisturbed
<1>11. CASE CallbackReports
  BY <1>1, <1>11 DEF CallbackReports, SessionFields
<1>12. CASE CallbackSchedules
  <2>1. /\ DOMAIN Scheduled(session) = SessionFields
        /\ Scheduled(session).cancelled = session.cancelled
    BY <1>1, <1>12, Parts, SchedulesCount DEF CallbackSchedules, CallbackCounts
  <2>2. session' = [Scheduled(session) EXCEPT !.ended = TRUE]
    BY <1>12 DEF CallbackSchedules
  <2> QED  BY <2>1, <2>2 DEF SessionFields
<1>13. CASE Escape \/ Picture \/ DeadlinePasses \/ StreamLasts
  BY <1>1, <1>13 DEF Escape, Picture, DeadlinePasses, StreamLasts, SessionFields
<1>14. CASE Connect \/ Quits \/ Disconnect
  BY <1>1, <1>14, FreshSession DEF Connect, Quits, Disconnect
<1>15. CASE Host \/ HostEnds \/ OtherConnects \/ OtherLeaves \/ LinkLost
  BY <1>15, Parts, HostServes, HostDisturbed DEF Served
<1>16. Worker \/ TimesOut \/ CancelsAdmission \/ ResizeTimesOut \/ SetsVideoPaused
          \/ StaleReports \/ (\E yes \in BOOLEAN : Answer(yes))
          \/ (\E error \in {"network", "graceful", "fatal"} : MediaEnds(error))
          \/ UNCHANGED vars => UNCHANGED session
  BY DEF Worker, TimesOut, CancelsAdmission, ResizeTimesOut, SetsVideoPaused, StaleReports,
         StaleEffect, Answer, MediaEnds, vars
<1> QED
  BY <1>2, <1>3, <1>4, <1>5, <1>6, <1>7, <1>8, <1>9, <1>10, <1>11, <1>12, <1>13, <1>14, <1>15, <1>16
  DEF Next, User, Environment, Exec, Launch, Callback, ResumeFails

\* A disconnect is never undone, also not by a recovery that another thread is
\* scheduling meanwhile (CancelIsFinal of ViewerContinuity).
THEOREM CancellationStays == Spec => CancelIsFinal
<1>1. ChainInv /\ [Next]_vars
        => [session.cancelled => session'.cancelled \/ session'.stage = "over"]_vars
  BY CancelledStays
<1> QED  BY <1>1, ChainInvariant, PTL DEF Spec, CancelIsFinal

LEMMA StopsForCause ==
    ASSUME ChainInv, [Next]_vars, session.stage = "stream", session'.stage = "stopping"
    PROVE  \/ session'.cancelled \/ session'.manual \/ session'.resized
           \/ control.failed \/ callback.error # "none"
<1>1. DOMAIN session = SessionFields
  BY Parts
<1>2. CASE StreamStops
  BY <1>1, <1>2, Parts DEF StreamStops, LeavesAtOnce, Ends, SessionFields, CallbackCounts
<1>3. CASE Reconnect \/ WindowResized
  BY <1>1, <1>3 DEF Reconnect, WindowResized, Ends, SessionFields
<1>4. CASE CallbackReports
  BY <1>1, <1>4 DEF CallbackReports, SessionFields
<1>5. CASE CallbackSchedules
  BY <1>5, Parts DEF CallbackSchedules, CallbackCounts
<1>6. CASE Escape \/ Picture \/ DeadlinePasses \/ StreamLasts \/ Disconnect
  BY <1>1, <1>6
  DEF Escape, Picture, DeadlinePasses, StreamLasts, Disconnect, SessionFields
<1>7. CASE Host \/ HostEnds \/ OtherConnects \/ OtherLeaves \/ LinkLost
  BY <1>7, Parts, HostServes, HostDisturbed DEF Served
<1>8. Worker \/ TimesOut \/ CancelsAdmission \/ ResizeTimesOut \/ SetsVideoPaused
          \/ StaleReports \/ (\E yes \in BOOLEAN : Answer(yes))
          \/ (\E error \in {"network", "graceful", "fatal"} : MediaEnds(error))
          \/ UNCHANGED vars => UNCHANGED session
  BY DEF Worker, TimesOut, CancelsAdmission, ResizeTimesOut, SetsVideoPaused, StaleReports,
         StaleEffect, Answer, MediaEnds, vars
<1>9. ~ (NothingPending \/ DropsController \/ CleanedUp \/ Admitted \/ NotAdmitted
          \/ (\E size \in Sizes : Enter(size)) \/ LaunchFails \/ Launched \/ LaunchInterrupted \/ Connect \/ Quits)
  BY DEF NothingPending, DropsController, CleanedUp, Enter, Admitted, NotAdmitted, LaunchFails,
         Launched, LaunchInterrupted, Connect, Quits
<1> QED
  BY <1>2, <1>3, <1>4, <1>5, <1>6, <1>7, <1>8, <1>9
  DEF Next, User, Environment, Exec, Launch, Callback, ResumeFails

\* A stream ends for a cause of its own (StreamEndsForCause of ViewerContinuity).
THEOREM CauseIsOwn == Spec => StreamEndsForCause
<1>1. ChainInv /\ [Next]_vars
        => [session.stage = "stream" /\ session'.stage = "stopping"
              => session'.cancelled \/ session'.manual \/ session'.resized
                 \/ control.failed \/ callback.error # "none"]_vars
  BY StopsForCause
<1> QED  BY <1>1, ChainInvariant, PTL DEF Spec, StreamEndsForCause

LEMMA DisplacedWhenAsked ==
    ASSUME ChainInv, [Next]_vars, host.session = "other", host'.session = "this"
    PROVE  control.answer = "yes" /\ session.deadline = "none"
<1>1. DOMAIN host = HostFields /\ host.session \notin Mine \cup {"none"}
  BY Parts DEF Mine
<1>2. \A me, lease : Owned(me, lease).session = me /\ IdleHost.session = "none"
  BY DEF Owned, IdleHost
<1>3. \A from, to : to # "this" => Renamed(from, to).session # "this"
  BY <1>1 DEF Renamed, RenamedIn, HostFields
<1>4. \A held : ~Disconnected(held)
  <2>1. ASSUME NEW held, Disconnected(held) PROVE FALSE
    <3>1. host' = host \/ host' = RenamedIn(Renamed("late", "lost"), "this", "late")
      BY <2>1 DEF Disconnected
    <3>2. DOMAIN Renamed("late", "lost") = HostFields
      BY Parts, HostShapes
    <3>3. RenamedIn(Renamed("late", "lost"), "this", "late").session # "this"
      BY <3>2 DEF RenamedIn, HostFields
    <3> QED  BY <3>1, <3>3
  <2> QED  BY <2>1
<1>5. CASE ServeTakeover
  BY <1>5, Parts DEF ServeTakeover, Asked
<1>6. ~ServeStatus
  BY <1>1 DEF ServeStatus, Refusal, Unavailable, Resumes, HostFields
<1>7. ~ (ServeResize \/ ServeVideo \/ ServeRelease \/ OwnershipExpires \/ OtherLeaves \/ LinkLost)
  BY <1>1, <1>2, <1>3 DEF ServeResize, ServeVideo, ServeRelease, Released, OwnershipExpires,
     OtherLeaves, LinkLost, HostFields
<1>8. ~ServeLate
  <2>1. [host EXCEPT !.session = "late", !.challenged = {}].session = "late"
    BY <1>1 DEF HostFields
  <2>2. Owned("late", NewLease).session = "late" /\ Owned("late", NoLease).session = "late"
    BY <1>2
  <2> QED  BY <2>1, <2>2 DEF ServeLate, HostDrops
<1>9. ~ (HostEnds \/ OtherConnects)
  BY <1>1, <1>2 DEF HostEnds, OtherConnects
<1>10. ~Quits
  <2>1. ASSUME Quits PROVE FALSE
    <3>1. PICK h : host' = RenamedIn(h, "this", "lost") /\ h \in {host, Renamed("late", "lost")}
      BY <2>1 DEF Quits
    <3>2. DOMAIN h = HostFields
      BY <3>1, Parts, HostShapes
    <3> QED  BY <3>1, <3>2 DEF RenamedIn, HostFields
  <2> QED  BY <2>1
<1>11. ~ (Worker \/ TimesOut)
  BY <1>4 DEF Worker, TimesOut, GivesUp, Connects, ReadsEnd, ReadsNothing, ReadsAdmission, Confirms,
     AsksResize, ReadsResize, AsksVideo, ReadsVideo, WorkerEnds, Sends, Takes
<1>12. ~ (NothingPending \/ DropsController \/ CleanedUp \/ (\E size \in Sizes : Enter(size))
          \/ Admitted \/ NotAdmitted)
  BY <1>4 DEF NothingPending, DropsController, CleanedUp, Dropped, Retained, Enter, Leaves, Admitted, NotAdmitted
<1>13. ~ (LaunchFails \/ Launched \/ LaunchInterrupted \/ StreamStops \/ Reconnect \/ WindowResized
          \/ CallbackReports \/ CallbackSchedules \/ StaleReports \/ Connect \/ Disconnect
          \/ Escape \/ Picture \/ DeadlinePasses \/ StreamLasts
          \/ CancelsAdmission \/ ResizeTimesOut \/ SetsVideoPaused
          \/ (\E yes \in BOOLEAN : Answer(yes))
          \/ (\E error \in {"network", "graceful", "fatal"} : MediaEnds(error))
          \/ UNCHANGED vars)
  BY DEF LaunchFails, Launched, LaunchInterrupted, StreamStops, Reconnect, WindowResized,
     CallbackReports, CallbackSchedules, StaleReports, Connect, Disconnect, Escape,
     Picture, DeadlinePasses, StreamLasts, CancelsAdmission, ResizeTimesOut, SetsVideoPaused,
     Answer, MediaEnds, Retained, vars
<1> QED
  BY <1>5, <1>6, <1>7, <1>8, <1>9, <1>10, <1>11, <1>12, <1>13
  DEF Next, User, Host, Environment, Exec, Launch, Callback, ResumeFails

\* Another device is displaced only after the user was asked, and never by a
\* recovery (TakeoverIsAsked of ViewerContinuity).
THEOREM OthersAreAsked == Spec => TakeoverIsAsked
<1>1. ChainInv /\ [Next]_vars
        => [host.session = "other" /\ host'.session = "this"
              => control.answer = "yes" /\ session.deadline = "none"]_vars
  BY DisplacedWhenAsked
<1> QED  BY <1>1, ChainInvariant, PTL DEF Spec, TakeoverIsAsked

-----------------------------------------------------------------------------
(* The display: whose session the connection serves, and in which size      *)

\* What waits on the connection belongs to what the worker is waiting for.
Corresponds ==
    /\ control.pc \in {"none", "connect", "ended"} => link = NoLink
    /\ link.request = "status" => control.pc = "status"
    /\ link.request = "resize" => control.pc = "resize"
    /\ link.request \in {"pause", "run"} => control.pc = "video"
    /\ link.reply = "admitted" => control.pc \in {"status", "takeover"}
    /\ link.reply = "resized" => control.pc = "resize"

\* From the admission on a connection that lives is the owner's.
Owns ==
    /\ link.state = "up" /\ (control.pc \in {"idle", "resize", "video"} \/ link.reply = "admitted")
          => host.session = "this"
    /\ host.session = "this" => link.state = "up"

\* Once the size has been set no request for another one is on its way.
Settled ==
    session.stage # "admit" \/ control.complete =>
        control.pc \in {"none", "idle", "video", "ended"} /\ ~control.pending

Negotiated == session.stage \in {"launch", "stream"} \/ control.complete \/ link.reply = "resized"
Sized == link.state = "up" /\ Negotiated => host.size = control.target

DisplayInv == Corresponds /\ Owns /\ Settled /\ Sized

LEMMA DisplayInitially == Init => DisplayInv
<1> SUFFICES ASSUME Init PROVE DisplayInv
  OBVIOUS
<1>1. session.stage = "over" /\ host.session = "none" /\ link = NoLink
  BY FreshSession DEF Init, IdleHost
<1>2. control.pc = "none" /\ ~control.pending /\ ~control.complete
  BY DEF Init, NoController
<1>3. link.state = "none" /\ link.request = "none" /\ link.reply = "none"
  BY <1>1 DEF NoLink
<1> QED  BY <1>1, <1>2, <1>3 DEF DisplayInv, Corresponds, Owns, Settled, Negotiated, Sized

\* A size is only negotiated with the owner.
LEMMA OwnerNegotiates ==
    ASSUME ChainInv, DisplayInv, link.state = "up", Negotiated
    PROVE  host.session = "this"
<1>1. Asked
  BY Parts
<1> QED  BY <1>1 DEF DisplayInv, Corresponds, Owns, Settled, Negotiated, Asked, NoLink

\* Answers to what was asked.  The worker waits for the answer meanwhile.
LEMMA DisplayAnswered ==
    ASSUME ChainInv, DisplayInv, ServeStatus \/ ServeTakeover \/ ServeResize \/ ServeVideo
    PROVE  DisplayInv'
<1>1. /\ DOMAIN control = ControlFields /\ DOMAIN link = LinkFields /\ DOMAIN host = HostFields
      /\ Asked
  BY Parts DEF Shaped
<1>2. UNCHANGED <<session, control>>
  BY DEF ServeStatus, ServeTakeover, ServeResize, ServeVideo
<1>3. \A reply, lease :
         /\ Replied(reply, lease).state = link.state /\ Replied(reply, lease).request = "none"
         /\ Replied(reply, lease).reply = reply
  BY <1>1 DEF Replied, LinkFields
<1>4. CASE ServeStatus
  <2>1. control.pc = "status" /\ session.stage = "admit" /\ ~control.complete
    BY <1>1, <1>4 DEF ServeStatus, DisplayInv, Corresponds, Settled, Asked
  <2>2. /\ link.state = "up"
        /\ \E reply, lease : link' = Replied(reply, lease)
             /\ reply \in {"refused", "unavailable", "busy", "admitted"}
             /\ (reply = "admitted" => host'.session = "this")
    <3>1. Owned("this", NewLease).session = "this" /\ [host EXCEPT !.session = "this", !.challenged = {}].session = "this"
      BY <1>1 DEF Owned, IdleHost, HostFields
    <3>2. CASE Resumes("this", control.token)
      <4>1. /\ link.state = "up"
            /\ \/ link' = Replied("refused", NoLease)
               \/ link' = Replied("unavailable", NoLease)
               \/ link' = Replied("admitted", host.lease) /\ host'.session = "this"
               \/ link' = Replied("admitted", NewLease) /\ host'.session = "this"
        BY <1>4, <3>1, <3>2 DEF ServeStatus, Refusal, Unavailable
      <4> QED  BY <4>1
    <3>3. CASE ~Resumes("this", control.token)
      BY <1>4, <3>1, <3>3 DEF ServeStatus, Refusal, Unavailable
    <3> QED  BY <3>2, <3>3
  <2> QED  BY <1>2, <1>3, <2>1, <2>2
           DEF DisplayInv, Corresponds, Owns, Settled, Negotiated, Sized
<1>5. CASE ServeTakeover
  <2>1. control.pc = "takeover" /\ session.stage = "admit" /\ ~control.complete
    BY <1>1, <1>5 DEF ServeTakeover, DisplayInv, Corresponds, Settled, Asked
  <2>2. /\ link.state = "up"
        /\ \E reply, lease : link' = Replied(reply, lease)
             /\ reply \in {"refused", "unavailable", "admitted"}
             /\ (reply = "admitted" => host'.session = "this")
    <3>1. Owned("this", NoLease).session = "this"
      BY DEF Owned, IdleHost
    <3> QED  BY <1>5, <3>1 DEF ServeTakeover
  <2> QED  BY <1>2, <1>3, <2>1, <2>2
           DEF DisplayInv, Corresponds, Owns, Settled, Negotiated, Sized
<1>6. CASE ServeResize
  <2>1. control.pc = "resize" /\ session.stage = "admit" /\ ~control.complete
    BY <1>1, <1>6 DEF ServeResize, DisplayInv, Corresponds, Settled
  <2>2. /\ host.session = "this" /\ host'.session = "this"
        /\ \E reply, lease : link' = Replied(reply, lease)
             /\ reply \in {"display-busy", "display-failed", "resized"}
             /\ (reply = "resized" => host'.size = control.target)
    BY <1>1, <1>6 DEF ServeResize, HostFields
  <2> QED  BY <1>2, <1>3, <2>1, <2>2
           DEF DisplayInv, Corresponds, Owns, Settled, Negotiated, Sized
<1>7. CASE ServeVideo
  <2>1. control.pc = "video"
    BY <1>1, <1>7 DEF ServeVideo, DisplayInv, Corresponds
  <2>2. /\ host.session = "this" /\ host'.session = "this" /\ host'.size = host.size
        /\ \E reply, lease : link' = Replied(reply, lease)
             /\ reply \in {"paused", "running", "video-failed"}
    BY <1>1, <1>7 DEF ServeVideo, HostFields
  <2> QED  BY <1>2, <1>3, <2>1, <2>2
           DEF DisplayInv, Corresponds, Owns, Settled, Negotiated, Sized
<1> QED  BY <1>4, <1>5, <1>6, <1>7

\* Whatever else happens at the host leaves the owner alone or ends its connection.
LEMMA DisplayDisturbed ==
    ASSUME ChainInv, DisplayInv,
           \/ ServeLate \/ ServeRelease \/ OwnershipExpires
           \/ HostEnds \/ OtherConnects \/ OtherLeaves \/ LinkLost
    PROVE  DisplayInv'
<1>1. /\ DOMAIN control = ControlFields /\ DOMAIN link = LinkFields /\ DOMAIN host = HostFields
      /\ Asked
  BY Parts DEF Shaped
<1>2. UNCHANGED <<session, control>>
  BY DEF ServeLate, ServeRelease, OwnershipExpires, HostEnds, OtherConnects, OtherLeaves, LinkLost
<1>3. ASSUME NEW new, NEW told, HostDrops(new, told), new.session # "this"
      PROVE  DisplayInv'
  <2>1. CASE host.session = "this"
    <3>1. /\ link'.state = "closed" /\ link'.request = "none" /\ link'.reply = link.reply
          /\ host'.session # "this"
      BY <1>1, <1>3, <2>1 DEF HostDrops, LinkFields
    <3>2. link # NoLink
      BY <2>1 DEF DisplayInv, Owns, NoLink
    <3> QED  BY <1>2, <3>1, <3>2 DEF DisplayInv, Corresponds, Owns, Settled, Negotiated, Sized
  <2>2. CASE host.session # "this"
    <3>1. link' = link /\ host'.session # "this"
      BY <1>3, <2>2 DEF HostDrops
    <3> QED  BY <1>2, <2>2, <3>1, OwnerNegotiates DEF DisplayInv, Corresponds, Owns, Settled, Negotiated, Sized
  <2> QED  BY <2>1, <2>2
<1>4. CASE ServeLate
  <2>1. \/ UNCHANGED <<host, link>>
        \/ host.session = "none" /\ host' = Owned("late", NewLease) /\ UNCHANGED link
        \/ \E told : HostDrops([host EXCEPT !.session = "late", !.challenged = {}], told)
        \/ \E told : HostDrops(Owned("late", NoLease), told)
    BY <1>4 DEF ServeLate
  <2>2. /\ Owned("late", NewLease).session = "late" /\ Owned("late", NoLease).session = "late"
        /\ [host EXCEPT !.session = "late", !.challenged = {}].session = "late"
    BY <1>1 DEF Owned, IdleHost, HostFields
  <2>3. CASE host.session = "none" /\ host' = Owned("late", NewLease) /\ UNCHANGED link
    BY <1>2, <2>2, <2>3, OwnerNegotiates DEF DisplayInv, Corresponds, Owns, Settled, Negotiated, Sized
  <2>4. CASE UNCHANGED <<host, link>>
    BY <1>2, <2>4 DEF DisplayInv, Corresponds, Owns, Settled, Negotiated, Sized
  <2> QED  BY <1>3, <2>1, <2>2, <2>3, <2>4
<1>5. CASE ServeRelease \/ OwnershipExpires \/ OtherLeaves
  <2>1. /\ link' = link
        /\ host'.session = "this" <=> host.session = "this"
        /\ host'.session = "this" => host'.size = host.size
    <3>1. CASE ServeRelease
      <4>1. host' = Released \/ host' = Renamed("late", "lost")
        BY <3>1 DEF ServeRelease
      <4>2. CASE host' = Released
        BY <1>1, <3>1, <4>2 DEF ServeRelease, Released, IdleHost, HostFields
      <4>3. CASE host' = Renamed("late", "lost")
        BY <1>1, <3>1, <4>3 DEF ServeRelease, Renamed, RenamedIn, HostFields
      <4> QED  BY <4>1, <4>2, <4>3
    <3>2. CASE OwnershipExpires \/ OtherLeaves
      BY <3>2 DEF OwnershipExpires, OtherLeaves, IdleHost
    <3> QED  BY <1>5, <3>1, <3>2
  <2> QED  BY <1>2, <2>1, OwnerNegotiates DEF DisplayInv, Corresponds, Owns, Settled, Negotiated, Sized
<1>6. CASE HostEnds \/ OtherConnects
  <2>1. IdleHost.session = "none" /\ [IdleHost EXCEPT !.session = "other"].session = "other"
    BY DEF IdleHost
  <2> QED  BY <1>3, <1>6, <2>1 DEF HostEnds, OtherConnects
<1>7. CASE LinkLost
  <2>1. /\ link'.state = "lost" /\ link'.request = "none" /\ link'.reply = "none"
        /\ link # NoLink /\ host'.session # "this"
    BY <1>1, <1>7 DEF LinkLost, NoLink, Renamed, RenamedIn, HostFields
  <2> QED  BY <1>2, <2>1 DEF DisplayInv, Corresponds, Owns, Settled, Negotiated, Sized
<1> QED  BY <1>4, <1>5, <1>6, <1>7

\* A connection that is given up serves nothing any more.
LEMMA DisconnectsDisplay ==
    ASSUME ChainInv, DisplayInv, NEW held, Disconnected(held)
    PROVE  link' = NoLink /\ host'.session # "this"
  BY Parts DEF Disconnected, Renamed, RenamedIn, HostFields, DisplayInv, Owns

LEMMA EndsDisplay ==
    ASSUME ChainInv, DisplayInv, NEW c, WorkerEnds(c), UNCHANGED session
    PROVE  DisplayInv'
<1>1. link' = NoLink /\ host'.session # "this"
  BY DisconnectsDisplay DEF WorkerEnds
<1>2. control'.pc = "ended" /\ ~control'.pending
  BY DEF WorkerEnds, NoController
<1> QED  BY <1>1, <1>2 DEF DisplayInv, Corresponds, Owns, Settled, Negotiated, Sized, NoLink

LEMMA DropsDisplay ==
    ASSUME ChainInv, DisplayInv, Dropped PROVE DisplayInv'
<1>1. link' = NoLink /\ host'.session # "this"
  BY DisconnectsDisplay DEF Dropped
<1>2. control'.pc = "none" /\ ~control'.pending
  BY DEF Dropped, NoController
<1> QED  BY <1>1, <1>2 DEF DisplayInv, Corresponds, Owns, Settled, Negotiated, Sized, NoLink

LEMMA WorkerDisplay ==
    ASSUME ChainInv, DisplayInv, Worker \/ TimesOut PROVE DisplayInv'
<1>1. /\ DOMAIN control = ControlFields /\ DOMAIN link = LinkFields /\ DOMAIN host = HostFields
      /\ Asked /\ UNCHANGED session
  BY Parts DEF Worker, TimesOut
<1>2. CASE \E c : WorkerEnds(c)
  BY <1>1, <1>2, EndsDisplay
<1>3. CASE Connects /\ ~\E c : WorkerEnds(c)
  <2>1. /\ control.pc = "connect" /\ UNCHANGED host
        /\ control' = [control EXCEPT !.pc = "status"]
        /\ link' = [NoLink EXCEPT !.state = "up", !.request = "status"]
    BY <1>3 DEF Connects, Working
  <2>2. /\ control'.pc = "status" /\ control'.pending = control.pending
        /\ control'.complete = control.complete
    BY <1>1, <2>1 DEF ControlFields
  <2>3. link'.state = "up" /\ link'.request = "status" /\ link'.reply = "none"
    BY <2>1 DEF NoLink
  <2>4. host.session # "this"
    BY <2>1 DEF DisplayInv, Corresponds, Owns, NoLink
  <2>5. session.stage = "admit" /\ ~control.complete
    BY <2>1 DEF DisplayInv, Settled
  <2> QED  BY <1>1, <2>1, <2>2, <2>3, <2>4, <2>5
           DEF DisplayInv, Corresponds, Owns, Settled, Negotiated, Sized
<1>4. CASE ReadsAdmission /\ ~\E c : WorkerEnds(c)
  <2>1. /\ control.pc \in {"status", "takeover"} /\ link.request = "none"
        /\ link'.reply = "none" /\ link'.request = "none" /\ link'.state = link.state
        /\ UNCHANGED host
        /\ \/ link.reply = "admitted" /\ control'.pc = "idle"
           \/ control'.pc = "confirm"
        /\ control'.pending = control.pending /\ control'.complete = control.complete
        /\ control'.target = control.target
    BY <1>1, <1>4 DEF ReadsAdmission, Takes, Asked, LinkFields, ControlFields
  <2> QED  BY <1>1, <2>1 DEF DisplayInv, Corresponds, Owns, Settled, Negotiated, Sized, Asked
<1>5. CASE Confirms /\ ~\E c : WorkerEnds(c)
  BY <1>1, <1>5 DEF Confirms, Working, Sends, LinkFields, ControlFields, DisplayInv,
     Corresponds, Owns, Settled, Negotiated, Sized, Asked
<1>6. CASE AsksResize
  BY <1>1, <1>6 DEF AsksResize, Working, Sends, LinkFields, ControlFields, DisplayInv,
     Corresponds, Owns, Settled, Negotiated, Sized, Asked
<1>7. CASE ReadsResize /\ ~\E c : WorkerEnds(c)
  <2>1. /\ control.pc = "resize" /\ link.request = "none" /\ control'.pc = "idle"
        /\ link'.reply = "none" /\ link'.request = "none" /\ link'.state = link.state
        /\ UNCHANGED host /\ control'.target = control.target
        /\ \/ /\ link.reply = "resized"
              /\ ~control'.pending /\ control'.complete
           \/ control'.pending = control.pending /\ control'.complete = control.complete
    BY <1>1, <1>7 DEF ReadsResize, SizeSet, Working, Takes, Asked, LinkFields, ControlFields
  <2> QED  BY <1>1, <2>1 DEF DisplayInv, Corresponds, Owns, Settled, Negotiated, Sized
<1>8. CASE AsksVideo
  BY <1>1, <1>8 DEF AsksVideo, Working, Sends, LinkFields, ControlFields, DisplayInv,
     Corresponds, Owns, Settled, Negotiated, Sized, Asked
<1>9. CASE ReadsVideo /\ ~\E c : WorkerEnds(c)
  BY <1>1, <1>9 DEF ReadsVideo, Working, Takes, LinkFields, ControlFields, DisplayInv,
     Corresponds, Owns, Settled, Negotiated, Sized, Asked
<1>10. ReadsEnd \/ ReadsNothing \/ TimesOut => \E c : WorkerEnds(c)
  BY DEF ReadsEnd, ReadsNothing, TimesOut, GivesUp
<1> QED  BY <1>2, <1>3, <1>4, <1>5, <1>6, <1>7, <1>8, <1>9, <1>10 DEF Worker

\* Only an admission that is complete leads to a launch.
LEMMA AdmissionDisplay ==
    ASSUME ChainInv, DisplayInv,
           \/ \E size : Enter(size)
           \/ \E yes \in BOOLEAN : Answer(yes)
           \/ CancelsAdmission \/ ResizeTimesOut \/ Admitted \/ NotAdmitted
    PROVE  DisplayInv'
<1>1. /\ DOMAIN control = ControlFields /\ DOMAIN link = LinkFields /\ DOMAIN host = HostFields
      /\ DOMAIN session = SessionFields /\ Asked
  BY Parts
<1>2. CASE Dropped
  BY <1>2, DropsDisplay
<1>3. ASSUME NEW size, Enter(size), ~Dropped PROVE DisplayInv'
  <2>1. /\ session.stage = "delay" /\ session'.stage = "admit"
        /\ UNCHANGED <<link, host>>
        /\ control'.pc = IF control = NoController THEN "connect" ELSE control.pc
        /\ control'.complete = FALSE
    <3> DEFINE c == IF control = NoController THEN Controller(session.token) ELSE control
               d == Restarted(c)
    <3>1. /\ session.stage = "delay" /\ UNCHANGED <<link, host>>
          /\ session' = [session EXCEPT !.stage = "admit", !.resized = FALSE, !.window = TRUE,
                                       !.token = NoLease]
          /\ control' = [d EXCEPT !.target = size, !.pending = ~d.failed, !.answer = "none",
                                  !.complete = FALSE]
      BY <1>3 DEF Enter, Leaves
    <3>2. DOMAIN c = ControlFields /\ c.pc = IF control = NoController THEN "connect" ELSE control.pc
      BY <1>1 DEF Controller, NoController, ControlFields
    <3> HIDE DEF c
    <3>3. DOMAIN d = ControlFields /\ d.pc = c.pc
      BY <3>2 DEF Restarted, ControlFields
    <3> HIDE DEF d
    <3>4. control'.pc = d.pc /\ control'.complete = FALSE
      BY <3>1, <3>3 DEF ControlFields
    <3>5. session'.stage = "admit"
      BY <1>1, <3>1 DEF SessionFields
    <3> QED  BY <3>1, <3>2, <3>3, <3>4, <3>5
  <2>2. control = NoController => control.pc = "none"
    BY DEF NoController
  <2>3. control.pc \in {"none", "idle", "video", "ended"}
    BY <2>1 DEF DisplayInv, Settled
  <2> QED  BY <2>1, <2>2, <2>3 DEF DisplayInv, Corresponds, Owns, Settled, Negotiated, Sized, NoLink
<1>4. CASE (\E yes \in BOOLEAN : Answer(yes)) \/ CancelsAdmission \/ ResizeTimesOut
  <2>1. /\ UNCHANGED <<session, link, host>> /\ control'.pc = control.pc
        /\ control'.pending = control.pending /\ control'.complete = control.complete
        /\ control'.target = control.target
    BY <1>1, <1>4 DEF Answer, CancelsAdmission, ResizeTimesOut, Final, ControlFields
  <2> QED  BY <2>1 DEF DisplayInv, Corresponds, Owns, Settled, Negotiated, Sized
<1>5. CASE Admitted /\ ~Dropped
  <2>1. /\ UNCHANGED <<link, host>> /\ control'.pc = control.pc /\ control.complete
        /\ control'.pending = control.pending /\ control'.target = control.target
    BY <1>1, <1>5 DEF Admitted, Leaves, ControlFields
  <2> QED  BY <2>1 DEF DisplayInv, Corresponds, Owns, Settled, Negotiated, Sized
<1> QED  BY <1>2, <1>3, <1>4, <1>5 DEF NotAdmitted

\* Steps that leave the controller alone launch nothing new.
LEMMA RetainsDisplay ==
    ASSUME DisplayInv, Retained,
           session'.stage = "admit" <=> session.stage = "admit",
           session'.stage \in {"launch", "stream"} => session.stage \in {"launch", "stream"}
    PROVE  DisplayInv'
  BY DEF Retained, DisplayInv, Corresponds, Owns, Settled, Negotiated, Sized

LEMMA SessionDisplay ==
    ASSUME ChainInv, DisplayInv,
           \/ Launched \/ LaunchFails \/ LaunchInterrupted \/ StreamStops \/ Reconnect
           \/ WindowResized \/ NothingPending \/ DropsController \/ CleanedUp \/ Picture \/ StreamLasts \/ DeadlinePasses
           \/ Callback \/ Connect \/ Disconnect \/ Quits \/ Escape
           \/ \E error \in {"network", "graceful", "fatal"} : MediaEnds(error)
    PROVE  DisplayInv'
<1>1. DOMAIN session = SessionFields /\ DOMAIN host = HostFields
  BY Parts
<1>2. CASE Launched
  BY <1>1, <1>2, RetainsDisplay DEF Launched, SessionFields
<1>3. ASSUME NEW s, Stops(s), DOMAIN s = SessionFields, Retained, session.stage = "launch"
      PROVE  DisplayInv'
  BY <1>3, RetainsDisplay DEF Stops, SessionFields
<1>4. CASE LaunchFails \/ LaunchInterrupted
  <2>1. \E s : Stops(s) /\ DOMAIN s = SessionFields
    <3>1. DOMAIN ScheduledIfPossible(session) = SessionFields
      BY Parts, MayCount
    <3> QED  BY <1>1, <1>4, <3>1 DEF LaunchFails, LaunchInterrupted, SessionFields
  <2> QED  BY <1>3, <1>4, <2>1 DEF LaunchFails, LaunchInterrupted
<1>5. ASSUME NEW s, Ends(s), DOMAIN s = SessionFields, Retained, session.stage = "stream"
      PROVE  DisplayInv'
  BY <1>5, RetainsDisplay DEF Ends, SessionFields
<1>6. CASE StreamStops \/ Reconnect \/ WindowResized
  <2>1. \E s : Ends(s) /\ DOMAIN s = SessionFields
    <3>1. DOMAIN [ScheduledIfPossible(session) EXCEPT !.reported = TRUE] = SessionFields
      BY Parts, MayCount
    <3> QED  BY <1>1, <1>6, <3>1 DEF StreamStops, Reconnect, WindowResized, SessionFields
  <2> QED  BY <1>5, <1>6, <2>1 DEF StreamStops, Reconnect, WindowResized, Undisturbed
<1>7. CASE NothingPending \/ DropsController \/ CleanedUp
  <2>1. CASE Dropped
    BY <2>1, DropsDisplay
  <2>2. CASE ~Dropped
    <3>1. /\ session.stage \in {"stopping", "cleaning"} /\ Retained
          /\ \/ session' = [session EXCEPT !.stage = "cleaning"]
             \/ adaptiveRestartPending(session) /\ session' = Continued(session)
             \/ session' = Over
      BY <1>7, <2>2 DEF NothingPending, DropsController, CleanedUp
    <3>2. session'.stage \in {"cleaning", "delay", "over"}
      BY <1>1, <3>1, ContinuedCounts, FreshSession DEF SessionFields
    <3> QED  BY <3>1, <3>2, RetainsDisplay
  <2> QED  BY <2>1, <2>2
<1>8. CASE Picture \/ StreamLasts \/ DeadlinePasses \/ Disconnect \/ Escape
  <2>1. Retained /\ session'.stage = session.stage
    BY <1>1, <1>8 DEF Picture, StreamLasts, DeadlinePasses, Disconnect, Escape, SessionFields
  <2> QED  BY <2>1, RetainsDisplay
<1>9. CASE Callback \/ \E error \in {"network", "graceful", "fatal"} : MediaEnds(error)
  <2>1. UNCHANGED <<control, link, host>> /\ session'.stage = session.stage
    BY <1>1, <1>9
    DEF Callback, CallbackReports, CallbackSchedules, MediaEnds, Scheduled, Retained, SessionFields
  <2> QED  BY <2>1 DEF DisplayInv, Corresponds, Owns, Settled, Negotiated, Sized
<1>10. CASE Connect
  BY <1>10, FreshSession, RetainsDisplay DEF Connect
<1>11. CASE Quits
  <2>1. link' = NoLink /\ control'.pc = "none" /\ ~control'.pending /\ host'.session # "this"
    BY <1>1, <1>11 DEF Quits, NoController, Renamed, RenamedIn, HostFields
  <2> QED  BY <2>1 DEF DisplayInv, Corresponds, Owns, Settled, Negotiated, Sized, NoLink
<1> QED  BY <1>2, <1>4, <1>6, <1>7, <1>8, <1>9, <1>10, <1>11

LEMMA IdleDisplay ==
    ASSUME ChainInv, DisplayInv, StaleReports \/ SetsVideoPaused \/ UNCHANGED vars
    PROVE  DisplayInv'
<1>1. /\ UNCHANGED <<session, link, host>> /\ control'.pc = control.pc
      /\ control'.pending = control.pending /\ control'.complete = control.complete
      /\ control'.target = control.target
  BY Parts DEF StaleReports, StaleEffect, SetsVideoPaused, vars, ControlFields
<1> QED  BY <1>1 DEF DisplayInv, Corresponds, Owns, Settled, Negotiated, Sized

LEMMA DisplaySteps == ASSUME ChainInv, DisplayInv, [Next]_vars PROVE DisplayInv'
  BY DisplayAnswered, DisplayDisturbed, WorkerDisplay, AdmissionDisplay, SessionDisplay, IdleDisplay
  DEF Next, User, Host, Environment, Exec, Launch, ResumeFails

THEOREM DisplayInvariant == Spec => []DisplayInv
<1> QED  BY DisplayInitially, DisplaySteps, ChainInvariant, PTL DEF Spec

\* A stream is shown over the session that its viewer owns, with the display that
\* it negotiated (StreamMatchesDisplay of ViewerContinuity).
THEOREM StreamIsOwners == Spec => []StreamMatchesDisplay
<1>1. DisplayInv => StreamMatchesDisplay
  BY DEF DisplayInv, Corresponds, Owns, Settled, Negotiated, Sized, StreamMatchesDisplay, NoLink
<1> QED  BY <1>1, DisplayInvariant, PTL

-----------------------------------------------------------------------------
(* Types                                                                   *)

LeaseOrNone == Leases \cup {NoLease}

\* A token is taken over from the controller, or given to it when it is made; so
\* Session and controller never hold two.
TypedSession(s, token) ==
    /\ s.stage \in {"delay", "admit", "launch", "stream", "stopping", "cleaning", "over"}
    /\ s.deadline \in {"none", "running", "passed"}
    /\ s.retry => s.deadline # "none"
    /\ s.age \in {"none", "short", "long"}
    /\ s.token \in LeaseOrNone
    /\ s.stage = "admit" => s.token = NoLease
    /\ token # NoLease => s.token \in {NoLease, token}

TypedCallback(c) ==
    /\ c.pc \in {"none", "waiting", "scheduling", "done"}
    /\ c.error \in {"none", "network", "graceful", "fatal"}

TypedLate ==
    /\ DOMAIN late = {"open", "request", "token", "held"}
    /\ stale \in BOOLEAN /\ late.open \in BOOLEAN /\ late.held \in BOOLEAN
    /\ late.token \in LeaseOrNone
    /\ late.held => stale \/ callback.pc = "waiting"

TypedControl(c) ==
    /\ c.pc \in {"none", "connect", "status", "confirm", "takeover", "idle",
                 "resize", "video", "ended"}
    /\ c.pc = "none" <=> c = NoController
    /\ c.token \in LeaseOrNone
    /\ c.pc \notin {"none", "ended"} => c.target \in Sizes

TypedLink(k, pc) ==
    /\ k.state \in {"none", "up", "closed", "lost"} /\ k.lease \in LeaseOrNone
    /\ pc \notin {"none", "connect", "ended"} => k.state # "none"

TypedHost(h, open) ==
    /\ h.session \in {"this", "late", "lost", "none", "other"}
    /\ h.session = "late" => open
    /\ h.lease \in LeaseOrNone
    /\ h.session \in {"none", "other"} => h.lease = NoLease
    /\ h.size \in Sizes \cup {Physical}

Typed ==
    /\ TypedSession(session, control.token) /\ TypedCallback(callback) /\ TypedLate
    /\ TypedControl(control) /\ TypedLink(link, control.pc) /\ TypedHost(host, late.open)
    /\ session.stage = "over" => control = NoController
    /\ session.stage \in {"admit", "launch", "stream"} => control.pc # "none"

\* The leases that are remembered leave a new one.
LEMMA LeaseIsNew == ASSUME Typed PROVE NewLease \in Leases
<1> DEFINE used == {session.token, control.token, late.token, link.lease}
<1>1. \A a, b, c \in LeaseOrNone : \E n \in Leases : n \notin {a, b, c}
  <2>1. PICK l : l \in Leases
    BY LeasesSuffice DEF LeasesSuffice
  <2>2. TAKE a, b, c \in LeaseOrNone
  <2>3. \E x, y, z \in Leases : {a, b, c} \subseteq {x, y, z, NoLease}
    <3> DEFINE some(x) == IF x \in Leases THEN x ELSE l
    <3>1. some(a) \in Leases /\ some(b) \in Leases /\ some(c) \in Leases
      BY <2>1
    <3>2. {a, b, c} \subseteq {some(a), some(b), some(c), NoLease}
      BY DEF LeaseOrNone
    <3> QED  BY <3>1, <3>2
  <2>4. PICK x \in Leases, y \in Leases, z \in Leases : {a, b, c} \subseteq {x, y, z, NoLease}
    BY <2>3
  <2>5. PICK n \in Leases : n \notin {x, y, z}
    BY LeasesSuffice DEF LeasesSuffice
  <2>6. n # NoLease
    BY ViewerConstants DEF ViewerConstants
  <2> QED  BY <2>4, <2>5, <2>6
<1>2. \E n \in Leases : n \notin used
  <2>1. /\ session.token \in LeaseOrNone /\ control.token \in LeaseOrNone
        /\ late.token \in LeaseOrNone /\ link.lease \in LeaseOrNone
        /\ control.token = NoLease \/ session.token \in {NoLease, control.token}
    BY DEF Typed, TypedSession, TypedLate, TypedControl, TypedLink
  <2>2. NoLease \notin Leases
    BY ViewerConstants DEF ViewerConstants
  <2>3. CASE control.token = NoLease
    BY <1>1, <2>1, <2>2, <2>3
  <2>4. CASE session.token \in {NoLease, control.token}
    BY <1>1, <2>1, <2>2, <2>4
  <2> QED  BY <2>1, <2>3, <2>4
<1> QED  BY <1>2 DEF NewLease

\* The records that the host's steps leave behind.
LEMMA HostRecords ==
    ASSUME Typed
    PROVE  /\ \A open : TypedHost(IdleHost, open)
           /\ \A open : TypedHost([IdleHost EXCEPT !.session = "other"], open)
           /\ \A open : \A lease \in {NewLease, NoLease} :
                 TypedHost(Owned("this", lease), open) /\ TypedHost(Owned("late", lease), TRUE)
<1>1. NoLease \notin Leases /\ NewLease \in Leases
  BY LeaseIsNew, ViewerConstants DEF ViewerConstants
<1>2. \A open : /\ TypedHost(IdleHost, open)
                /\ TypedHost([IdleHost EXCEPT !.session = "other"], open)
  BY <1>1 DEF TypedHost, IdleHost, LeaseOrNone
<1>3. \A open : \A lease \in {NewLease, NoLease} :
         TypedHost(Owned("this", lease), open) /\ TypedHost(Owned("late", lease), TRUE)
  BY <1>1 DEF TypedHost, Owned, IdleHost, LeaseOrNone
<1> QED  BY <1>2, <1>3

LEMMA RenamesTyped ==
    ASSUME NEW h, NEW open, NEW still, NEW from \in Mine, NEW to \in Mine,
           DOMAIN h = HostFields, TypedHost(h, open),
           h.session = "late" /\ from # "late" => still, to = "late" => still
    PROVE  DOMAIN RenamedIn(h, from, to) = HostFields /\ TypedHost(RenamedIn(h, from, to), still)
  BY DEF RenamedIn, HostFields, TypedHost, Mine

\* The session of a connection that is resumed has a lease.
LEMMA ResumesTyped ==
    ASSUME ChainInv, Typed, host.session \in Mine, NEW me \in {"this", "late"}, me = "late" => late.open
    PROVE  TypedHost([host EXCEPT !.session = me, !.challenged = {}], late.open)
  BY Parts DEF Typed, TypedHost, HostFields, Mine

\* Steps of the host leave Session and controller alone.
LEMMA HostStepTyped ==
    ASSUME ChainInv, DisplayInv, Typed,
           \/ Host \/ HostEnds \/ OtherConnects \/ OtherLeaves \/ LinkLost
    PROVE  Typed'
<1>1. /\ DOMAIN control = ControlFields /\ DOMAIN link = LinkFields /\ DOMAIN host = HostFields
      /\ Asked
  BY Parts
<1>2. UNCHANGED <<session, callback, stale, control>>
  BY DEF Host, ServeStatus, ServeTakeover, ServeResize, ServeVideo, ServeLate, ServeRelease,
         OwnershipExpires, HostEnds, OtherConnects, OtherLeaves, LinkLost
<1>3. ASSUME TypedLate', TypedLink(link', control.pc), TypedHost(host', late'.open) PROVE Typed'
  BY <1>2, <1>3 DEF Typed
<1>4. /\ TypedLate /\ TypedLink(link, control.pc) /\ TypedHost(host, late.open)
      /\ late' = late => TypedLate'
  BY <1>2 DEF Typed, TypedLate
<1>5. \A reply : \A lease \in LeaseOrNone : TypedLink(Replied(reply, lease), control.pc)
  BY <1>1, <1>4 DEF TypedLink, Replied, LinkFields
<1>6. NoLease \in LeaseOrNone /\ NewLease \in LeaseOrNone /\ host.lease \in LeaseOrNone
  BY <1>4, LeaseIsNew DEF LeaseOrNone, TypedHost
<1>7. ASSUME NEW new, NEW told, HostDrops(new, told), TypedHost(new, late.open)
      PROVE  TypedLink(link', control.pc) /\ TypedHost(host', late.open)
  BY <1>1, <1>4, <1>7 DEF HostDrops, TypedLink, LinkFields
<1>8. CASE ServeStatus
  <2>1. late' = late /\ \E reply : \E lease \in LeaseOrNone : link' = Replied(reply, lease)
    BY <1>6, <1>8 DEF ServeStatus, Refusal, Unavailable
  <2>2. TypedHost(host', late.open)
    <3>1. CASE host' = host
      BY <1>4, <3>1
    <3>2. CASE Resumes("this", control.token) /\ host' = [host EXCEPT !.session = "this", !.challenged = {}]
      BY <3>2, ResumesTyped DEF Resumes
    <3>3. CASE host' = Owned("this", NewLease)
      BY <3>3, HostRecords
    <3>4. CASE host' = [host EXCEPT !.challenged = @ \cup {"this"}]
      BY <1>1, <1>4, <3>4 DEF TypedHost, HostFields
    <3> QED  BY <1>8, <3>1, <3>2, <3>3, <3>4 DEF ServeStatus, Refusal, Unavailable
  <2> QED  BY <1>3, <1>4, <1>5, <2>1, <2>2
<1>9. CASE ServeTakeover
  <2>1. /\ late' = late /\ host' \in {Owned("this", NoLease), host, IdleHost}
        /\ \E reply : \E lease \in LeaseOrNone : link' = Replied(reply, lease)
    BY <1>6, <1>9 DEF ServeTakeover
  <2> QED  BY <1>3, <1>4, <1>5, <2>1, HostRecords
<1>10. CASE ServeResize
  <2>1. /\ late' = late
        /\ \E reply : link' = Replied(reply, NoLease)
        /\ host' = host \/ host' = [host EXCEPT !.size = control.target]
    BY <1>10 DEF ServeResize
  <2>2. control.target \in Sizes
    BY <1>10 DEF ServeResize, DisplayInv, Corresponds, Typed, TypedControl
  <2>3. TypedHost(host', late.open)
    BY <1>1, <1>4, <2>1, <2>2 DEF TypedHost, HostFields
  <2> QED  BY <1>3, <1>4, <1>5, <1>6, <2>1, <2>3
<1>11. CASE ServeVideo
  <2>1. /\ late' = late /\ \E reply : link' = Replied(reply, NoLease)
    BY <1>11 DEF ServeVideo
  <2>2. TypedHost(host', late.open)
    BY <1>1, <1>4, <1>11 DEF ServeVideo, TypedHost, HostFields
  <2> QED  BY <1>3, <1>4, <1>5, <1>6, <2>1, <2>2
<1>12. CASE ServeLate
  <2>1. late.open /\ late'.open = late.open
    BY <1>4, <1>12 DEF ServeLate, TypedLate
  <2>a. TypedLate'
    <3>1. late' = [late EXCEPT !.request = "none", !.token = NoLease]
      BY <1>12 DEF ServeLate
    <3>2. /\ DOMAIN late' = DOMAIN late /\ late'.held = late.held /\ late'.open = late.open
          /\ late'.token = NoLease
      BY <1>4, <3>1 DEF TypedLate
    <3> QED  BY <1>2, <1>4, <1>6, <3>2 DEF TypedLate
  <2>2. CASE UNCHANGED <<host, link>>
    BY <1>3, <1>4, <2>a, <2>1, <2>2 DEF TypedHost
  <2>3. CASE host' = Owned("late", NewLease) /\ UNCHANGED link
    <3>1. TypedHost(host', late'.open)
      BY <2>1, <2>3, HostRecords DEF TypedHost
    <3> QED  BY <1>3, <1>4, <2>a, <2>3, <3>1
  <2>4. ASSUME NEW new, NEW told, HostDrops(new, told), TypedHost(new, late.open) PROVE Typed'
    <3>1. TypedLink(link', control.pc) /\ TypedHost(host', late.open)
      BY <1>7, <2>4
    <3> QED  BY <1>3, <2>a, <2>1, <3>1 DEF TypedHost
  <2>5. TypedHost(Owned("late", NoLease), late.open)
    BY <2>1, HostRecords DEF TypedHost
  <2>6. Resumes("late", late.token)
          => TypedHost([host EXCEPT !.session = "late", !.challenged = {}], late.open)
    BY <2>1, ResumesTyped DEF Resumes
  <2> QED  BY <1>12, <2>2, <2>3, <2>4, <2>5, <2>6 DEF ServeLate
<1>13. CASE ServeRelease
  <2>1. late' = NotLate /\ link' = link /\ host' \in {Released, Renamed("late", "lost")}
    BY <1>13 DEF ServeRelease
  <2>2. TypedLate' /\ late'.open = FALSE
    BY <1>2, <1>4, <2>1 DEF TypedLate, NotLate, LeaseOrNone
  <2>3. TypedHost(Released, FALSE)
    <3>1. CASE host.session = "late"
      BY <3>1, HostRecords DEF Released
    <3>2. CASE host.session # "late"
      BY <1>1, <1>4, <3>2 DEF Released, TypedHost, HostFields
    <3> QED  BY <3>1, <3>2
  <2>4. TypedHost(Renamed("late", "lost"), FALSE)
    BY <1>1, <1>4, RenamesTyped DEF Renamed, Mine
  <2> QED  BY <1>3, <1>4, <2>1, <2>2, <2>3, <2>4
<1>14. CASE OwnershipExpires \/ OtherLeaves
  BY <1>3, <1>4, <1>14, HostRecords DEF OwnershipExpires, OtherLeaves
<1>15. CASE HostEnds \/ OtherConnects
  <2>1. /\ late' = late
        /\ \E new, told : HostDrops(new, told) /\ TypedHost(new, late.open)
    BY <1>15, HostRecords DEF HostEnds, OtherConnects
  <2> QED  BY <1>3, <1>4, <1>7, <2>1
<1>16. CASE LinkLost
  <2>1. late' = late /\ host' = Renamed("this", "lost") /\ link' = [NoLink EXCEPT !.state = "lost"]
    BY <1>16 DEF LinkLost
  <2>2. TypedHost(Renamed("this", "lost"), late.open)
    BY <1>1, <1>4, RenamesTyped DEF Renamed, Mine, TypedHost
  <2>3. TypedLink([NoLink EXCEPT !.state = "lost"], control.pc)
    BY DEF TypedLink, NoLink, LeaseOrNone
  <2> QED  BY <1>3, <1>4, <2>1, <2>2, <2>3
<1> QED  BY <1>8, <1>9, <1>10, <1>11, <1>12, <1>13, <1>14, <1>15, <1>16 DEF Host

\* A connection that is given up, by a callback that may still refer to it.
LEMMA DisconnectsTyped ==
    ASSUME ChainInv, Typed, NEW held \in BOOLEAN, Disconnected(held),
           stale' \in BOOLEAN,
           stale \/ callback.pc = "waiting" \/ held => stale' \/ callback'.pc = "waiting"
    PROVE  TypedLate' /\ TypedHost(host', late'.open) /\ link' = NoLink
<1>1. DOMAIN host = HostFields /\ TypedHost(host, late.open) /\ TypedLate /\ control.token \in LeaseOrNone
  BY Parts DEF Typed, TypedControl
<1>2. CASE link.state = "up"
  <2>1. late'.open = TRUE /\ TypedLate'
    <3>1. \E token, request : /\ token \in {control.token, NoLease}
                              /\ late' = [open |-> TRUE, held |-> held, token |-> token, request |-> request]
      BY <1>2 DEF Disconnected
    <3>2. /\ DOMAIN late' = {"open", "request", "token", "held"} /\ late'.open = TRUE
          /\ late'.held = held /\ late'.token \in LeaseOrNone
      BY <1>1, <3>1 DEF LeaseOrNone
    <3> QED  BY <3>2 DEF TypedLate
  <2>2. DOMAIN Renamed("late", "lost") = HostFields /\ TypedHost(Renamed("late", "lost"), FALSE)
    BY <1>1, RenamesTyped DEF Renamed, Mine
  <2>3. TypedHost(RenamedIn(Renamed("late", "lost"), "this", "late"), TRUE)
    BY <2>2, RenamesTyped DEF Mine
  <2> QED  BY <1>2, <2>1, <2>3 DEF Disconnected
<1>3. CASE link.state # "up"
  BY <1>1, <1>3 DEF Disconnected, TypedLate
<1> QED  BY <1>2, <1>3

LEMMA DropsTyped ==
    ASSUME ChainInv, Typed, Dropped, stale' \in BOOLEAN,
           stale \/ callback.pc = "waiting" => stale' \/ callback'.pc = "waiting",
           TypedSession(session', NoLease), TypedCallback(callback'),
           session'.stage \notin {"admit", "launch", "stream"}
    PROVE  Typed'
<1>1. control' = NoController /\ TypedControl(control')
  BY DEF Dropped, TypedControl, NoController, LeaseOrNone
<1>2. \E held \in BOOLEAN :
         /\ Disconnected(held)
         /\ stale \/ callback.pc = "waiting" \/ held => stale' \/ callback'.pc = "waiting"
  BY DEF Dropped
<1>3. TypedLate' /\ TypedHost(host', late'.open) /\ link' = NoLink
  BY <1>2, DisconnectsTyped
<1>4. TypedLink(link', control'.pc) /\ control'.token = NoLease
  BY <1>1, <1>3 DEF TypedLink, NoLink, NoController, LeaseOrNone
<1> QED  BY <1>1, <1>3, <1>4 DEF Typed

LEMMA RetainsTyped ==
    ASSUME Typed, Retained, stale' \in BOOLEAN,
           stale \/ callback.pc = "waiting" => stale' \/ callback'.pc = "waiting",
           TypedSession(session', control.token), TypedCallback(callback'),
           session'.stage = "over" => session.stage = "over" \/ control = NoController,
           session'.stage \in {"admit", "launch", "stream"}
              => session.stage \in {"admit", "launch", "stream"}
    PROVE  Typed'
  BY DEF Typed, Retained, TypedLate

LEMMA WorkerEndsTyped ==
    ASSUME ChainInv, Typed, NEW c, c.token \in {control.token, NoLease}, WorkerEnds(c),
           control # NoController, UNCHANGED <<session, callback, stale>>
    PROVE  Typed'
<1>1. TypedLate' /\ TypedHost(host', late'.open) /\ link' = NoLink
  <2>1. stale \in BOOLEAN
    BY DEF Typed, TypedLate
  <2> QED  BY <2>1, DisconnectsTyped DEF WorkerEnds
<1>2. control'.pc = "ended" /\ control'.token = c.token /\ NoController.pc = "none"
  BY DEF WorkerEnds, NoController
<1>3. TypedControl(control')
  BY <1>2 DEF Typed, TypedControl, LeaseOrNone
<1>4. TypedSession(session, control'.token)
  BY <1>2 DEF Typed, TypedSession
<1>5. TypedLink(link', control'.pc)
  BY <1>1, <1>2 DEF TypedLink, NoLink, LeaseOrNone
<1>6. session.stage # "over"
  BY DEF Typed
<1> QED  BY <1>1, <1>2, <1>3, <1>4, <1>5, <1>6 DEF Typed

\* The worker takes the next step of an admission or a request.
LEMMA WorkerMovesTyped ==
    ASSUME ChainInv, Typed, control # NoController, UNCHANGED <<session, callback, stale, late, host>>,
           control'.pc \in {"status", "confirm", "takeover", "idle", "resize", "video"},
           control'.token \in LeaseOrNone, TypedSession(session, control'.token),
           control'.target = control.target, control.pc # "ended",
           link'.state = IF control.pc = "connect" THEN "up" ELSE link.state,
           link'.lease \in LeaseOrNone
    PROVE  Typed'
<1>1. TypedControl(control')
  BY DEF Typed, TypedControl, NoController
<1>2. TypedLink(link', control'.pc)
  BY DEF Typed, TypedControl, TypedLink
<1>3. TypedLate'
  BY DEF Typed, TypedLate
<1> QED  BY <1>1, <1>2, <1>3 DEF Typed

LEMMA WorkerTyped ==
    ASSUME ChainInv, DisplayInv, Typed, Worker \/ TimesOut PROVE Typed'
<1>1. /\ DOMAIN control = ControlFields /\ DOMAIN link = LinkFields /\ DOMAIN host = HostFields
      /\ UNCHANGED <<session, callback, stale>>
  BY Parts DEF Worker, TimesOut
<1>2. /\ TypedSession(session, control.token) /\ control.token \in LeaseOrNone
      /\ link.lease \in LeaseOrNone
  BY DEF Typed, TypedControl, TypedLink
<1>3. control # NoController
  BY DEF Worker, TimesOut, Connects, ReadsEnd, ReadsNothing, Silent, ReadsAdmission, Confirms,
         AsksResize, ReadsResize, AsksVideo, ReadsVideo, Working, NoController
<1>4. ASSUME NEW c \in {control, Final(control), Told}, WorkerEnds(c) PROVE Typed'
  <2>1. c.token = control.token
    BY <1>1 DEF Told, Final, ControlFields
  <2> QED  BY <1>1, <1>3, <1>4, <2>1, WorkerEndsTyped
<1>5. CASE \E c \in {control, Final(control), Told} : WorkerEnds(c)
  BY <1>4, <1>5
<1>6. CASE ~\E c \in {control, Final(control), Told} : WorkerEnds(c)
  <2>1. CASE Connects
    <3>1. /\ control.pc = "connect" /\ UNCHANGED <<late, host>>
          /\ control' = [control EXCEPT !.pc = "status"]
          /\ link' = [NoLink EXCEPT !.state = "up", !.request = "status"]
      BY <1>6, <2>1 DEF Connects, Working
    <3>2. /\ control'.pc = "status" /\ control'.token = control.token
          /\ control'.target = control.target /\ link'.state = "up" /\ link'.lease = NoLease
      BY <1>1, <3>1 DEF NoLink, ControlFields
    <3> QED  BY <1>1, <1>2, <1>3, <3>1, <3>2, WorkerMovesTyped DEF LeaseOrNone
  <2>2. ASSUME NEW pc \in {"takeover", "resize", "video"}, NEW request, Sends(pc, request),
               control.pc \notin {"connect", "ended"}
        PROVE  Typed'
    <3>1. /\ control'.pc = pc /\ control'.token = control.token /\ control'.target = control.target
          /\ link'.state = link.state /\ link'.lease = link.lease /\ UNCHANGED <<late, host>>
      BY <1>1, <2>2 DEF Sends, ControlFields, LinkFields
    <3> QED  BY <1>1, <1>2, <1>3, <2>2, <3>1, WorkerMovesTyped
  <2>3. ASSUME NEW c, Takes(c), c.pc \in {"confirm", "idle"}, c.target = control.target,
               c.token \in LeaseOrNone, TypedSession(session, c.token),
               control.pc \notin {"connect", "ended"}
        PROVE  Typed'
    <3>1. /\ link'.state = link.state /\ link'.lease = NoLease /\ UNCHANGED <<late, host>>
          /\ control' = c
      BY <1>1, <2>3 DEF Takes, LinkFields
    <3> QED  BY <1>1, <1>3, <2>3, <3>1, WorkerMovesTyped DEF LeaseOrNone
  <2>4. CASE ReadsAdmission
    <3>1. /\ control.pc \in {"status", "takeover"}
          /\ \/ Takes([control EXCEPT !.pc = "idle", !.token = link.lease, !.answer = "none"])
             \/ Takes([control EXCEPT !.pc = "confirm"])
      BY <1>6, <2>4 DEF ReadsAdmission
    <3>2. session.token = NoLease
      BY <3>1 DEF DisplayInv, Settled, Typed, TypedSession
    <3>3. TypedSession(session, link.lease)
      BY <1>2, <3>2 DEF TypedSession
    <3>4. LET c == [control EXCEPT !.pc = "idle", !.token = link.lease, !.answer = "none"]
              d == [control EXCEPT !.pc = "confirm"]
          IN  /\ c.pc = "idle" /\ c.token = link.lease /\ c.target = control.target
              /\ d.pc = "confirm" /\ d.token = control.token /\ d.target = control.target
      BY <1>1 DEF ControlFields
    <3> QED  BY <1>2, <2>3, <3>1, <3>3, <3>4
  <2>5. CASE Confirms
    BY <1>6, <2>2, <2>5 DEF Confirms, Working
  <2>6. CASE AsksResize
    BY <2>2, <2>6 DEF AsksResize, Working
  <2>7. CASE AsksVideo
    BY <2>2, <2>7 DEF AsksVideo, Working
  <2>8. CASE ReadsResize
    <3>1. /\ control.pc = "resize"
          /\ \/ Takes([control EXCEPT !.pc = "idle", !.pending = FALSE, !.complete = TRUE])
             \/ Takes([control EXCEPT !.pc = "idle"])
      BY <1>6, <2>8 DEF ReadsResize, Working
    <3>2. \A c \in {[control EXCEPT !.pc = "idle", !.pending = FALSE, !.complete = TRUE],
                    [control EXCEPT !.pc = "idle"]} :
             c.pc = "idle" /\ c.token = control.token /\ c.target = control.target
      BY <1>1 DEF ControlFields
    <3> QED  BY <1>2, <2>3, <3>1, <3>2
  <2>9. CASE ReadsVideo
    <3>1. control.pc = "video" /\ Takes([control EXCEPT !.pc = "idle", !.sent = link.reply])
      BY <1>6, <2>9 DEF ReadsVideo, Working
    <3>2. LET c == [control EXCEPT !.pc = "idle", !.sent = link.reply]
          IN  c.pc = "idle" /\ c.token = control.token /\ c.target = control.target
      BY <1>1 DEF ControlFields
    <3> QED  BY <1>2, <2>3, <3>1, <3>2
  <2>10. ~ (ReadsEnd \/ ReadsNothing \/ TimesOut)
    BY <1>6 DEF ReadsEnd, ReadsNothing, TimesOut, GivesUp
  <2> QED  BY <2>1, <2>4, <2>5, <2>6, <2>7, <2>8, <2>9, <2>10 DEF Worker
<1> QED  BY <1>5, <1>6

-----------------------------------------------------------------------------
(* The Session                                                             *)

\* Scheduling a recovery starts its deadline and takes the token over.
LEMMA SchedulesTyped ==
    ASSUME ChainInv, Typed
    PROVE  LET s == Scheduled(session)
           IN  /\ DOMAIN s = SessionFields /\ s.stage = session.stage /\ s.age = session.age
               /\ s.deadline \in {"running", "passed"}
               /\ s.token \in LeaseOrNone /\ (control.token # NoLease => s.token = control.token)
<1>1. DOMAIN session = SessionFields
  BY Parts
<1>2. /\ session.deadline \in {"none", "running", "passed"} /\ session.token \in LeaseOrNone
      /\ control.token \in LeaseOrNone
  BY DEF Typed, TypedSession, TypedControl
<1> QED  BY <1>1, <1>2 DEF Scheduled, Deadline, SessionFields

LEMMA MaySchedule ==
    ASSUME ChainInv, Typed, session.stage \notin {"over"}, NEW t, t \in {control.token, NoLease},
           NEW s \in {session, Scheduled(session), ScheduledIfPossible(session)},
           DOMAIN session' = SessionFields,
           session'.stage \in {"stream", "stopping", "cleaning"},
           session'.deadline = s.deadline, session'.retry => s.retry, session'.token = s.token,
           session'.age = s.age
    PROVE  TypedSession(session', t)
<1>1. s \in {session, Scheduled(session)}
  BY DEF ScheduledIfPossible
<1>2. TypedSession(session, control.token)
  BY DEF Typed
<1>3. CASE s = session
  BY <1>2, <1>3 DEF TypedSession
<1>4. CASE s = Scheduled(session)
  BY <1>2, <1>4, SchedulesTyped DEF TypedSession
<1> QED  BY <1>1, <1>3, <1>4

\* A Session that goes on, in a later stage perhaps.
LEMMA GoesOnTyped ==
    ASSUME Typed, NEW t, t \in {control.token, NoLease},
           session'.stage \in {"delay", "launch", "stream", "stopping", "cleaning", session.stage},
           session'.deadline = session.deadline, session'.retry => session.retry,
           session'.token \in {session.token, NoLease}, session'.age \in {session.age, "short", "long"}
    PROVE  TypedSession(session', t)
  BY DEF Typed, TypedSession, LeaseOrNone

LEMMA FreshTyped == \A t : TypedSession(NewSession, t) /\ TypedSession(Over, t)
  BY DEF TypedSession, NewSession, Over, LeaseOrNone

LEMMA LeavesTyped ==
    ASSUME ChainInv, Typed, Leaves, UNCHANGED <<callback, stale>>, session.stage \in {"delay", "admit"} PROVE Typed'
<1>1. callback.pc # "waiting" /\ stale' = stale /\ callback' = callback /\ session' = Over /\ Dropped
  BY Parts DEF CallbackCounts, Leaves
<1> QED  BY <1>1, FreshTyped, FreshSession, DropsTyped DEF Typed, TypedLate

\* The controller changes and nothing around it.
LEMMA ControlTyped ==
    ASSUME Typed, UNCHANGED <<session, callback, stale, link, late, host>>,
           control # NoController, control'.pc = control.pc, control'.token = control.token,
           control'.target = control.target
    PROVE  Typed'
<1>1. TypedControl(control')
  BY DEF Typed, TypedControl, NoController
<1> QED  BY <1>1 DEF Typed, TypedLate

LEMMA AdmissionTyped ==
    ASSUME ChainInv, DisplayInv, Typed,
           \/ \E size \in Sizes : Enter(size)
           \/ \E yes \in BOOLEAN : Answer(yes)
           \/ CancelsAdmission \/ ResizeTimesOut \/ Admitted \/ NotAdmitted \/ SetsVideoPaused
    PROVE  Typed'
<1>1. /\ DOMAIN control = ControlFields /\ DOMAIN session = SessionFields
      /\ UNCHANGED <<callback, stale>>
  BY Parts DEF Enter, Answer, CancelsAdmission, ResizeTimesOut, Admitted, NotAdmitted,
               SetsVideoPaused, InExec
<1>2. CASE Leaves /\ session.stage \in {"delay", "admit"}
  BY <1>1, <1>2, LeavesTyped
<1>3. ASSUME NEW size \in Sizes, Enter(size), ~Leaves PROVE Typed'
  <2> DEFINE kept == IF control = NoController THEN Controller(session.token) ELSE control
  <2>1. /\ session' = [session EXCEPT !.stage = "admit", !.resized = FALSE, !.window = TRUE,
                                      !.token = NoLease]
        /\ control' = [Restarted(kept) EXCEPT !.target = size, !.pending = ~Restarted(kept).failed,
                                              !.answer = "none", !.complete = FALSE]
        /\ UNCHANGED <<link, late, host>> /\ session.stage = "delay"
    BY <1>3 DEF Enter
  <2>2. /\ DOMAIN kept = ControlFields
        /\ kept.pc = IF control = NoController THEN "connect" ELSE control.pc
        /\ kept.token = IF control = NoController THEN session.token ELSE control.token
    BY <1>1 DEF Controller, NoController, ControlFields
  <2> HIDE DEF kept
  <2>3. control'.pc = kept.pc /\ control'.token = kept.token /\ control'.target = size
    BY <2>1, <2>2 DEF Restarted, ControlFields
  <2>4. TypedControl(control') /\ control'.pc # "none"
    <3>1. kept.pc # "none" /\ kept.token \in LeaseOrNone
      BY <2>2 DEF Typed, TypedControl, TypedSession
    <3>2. control' # NoController
      BY <2>3, <3>1 DEF NoController
    <3> QED  BY <2>2, <2>3, <3>1, <3>2 DEF Typed, TypedControl
  <2>5. TypedSession(session', control'.token)
    <3>1. /\ session'.stage = "admit" /\ session'.token = NoLease /\ session'.deadline = session.deadline
          /\ session'.retry = session.retry /\ session'.age = session.age
      BY <1>1, <2>1 DEF SessionFields
    <3> QED  BY <3>1 DEF Typed, TypedSession, LeaseOrNone
  <2>6. TypedLink(link', control'.pc)
    <3>1. control = NoController => control.pc = "none"
      BY DEF NoController
    <3> QED  BY <2>1, <2>2, <2>3, <3>1 DEF Typed, TypedLink
  <2>7. TypedLate' /\ TypedHost(host', late'.open) /\ TypedCallback(callback') /\ session'.stage # "over"
    BY <1>1, <2>1 DEF Typed, TypedLate, SessionFields
  <2> QED  BY <2>4, <2>5, <2>6, <2>7 DEF Typed
<1>4. CASE (\E yes \in BOOLEAN : Answer(yes)) \/ CancelsAdmission \/ ResizeTimesOut \/ SetsVideoPaused
  <2>1. /\ UNCHANGED <<session, link, late, host>>
        /\ control'.pc = control.pc /\ control'.token = control.token /\ control'.target = control.target
    BY <1>1, <1>4 DEF Answer, CancelsAdmission, ResizeTimesOut, SetsVideoPaused, Final, ControlFields
  <2>2. control # NoController
    BY <1>4 DEF Answer, CancelsAdmission, ResizeTimesOut, SetsVideoPaused, Typed, NoController
  <2> QED  BY <1>1, <2>1, <2>2, ControlTyped
<1>5. CASE Admitted /\ ~Leaves
  <2>1. /\ UNCHANGED <<link, late, host>> /\ control.complete /\ session.stage = "admit"
        /\ control' = [control EXCEPT !.complete = FALSE]
        /\ session' = [session EXCEPT !.stage = "launch"]
    BY <1>5 DEF Admitted
  <2>2. /\ control'.pc = control.pc /\ control'.token = control.token
        /\ control'.target = control.target /\ control # NoController
    BY <1>1, <2>1 DEF ControlFields, NoController
  <2>3. TypedControl(control')
    BY <2>2 DEF Typed, TypedControl, NoController
  <2>4. TypedSession(session', control'.token) /\ session'.stage # "over"
    <3>1. /\ session'.stage = "launch" /\ session'.token = session.token
          /\ session'.deadline = session.deadline
          /\ session'.retry = session.retry /\ session'.age = session.age
      BY <1>1, <2>1 DEF SessionFields
    <3> QED  BY <2>2, <3>1, GoesOnTyped
  <2> QED  BY <1>1, <2>1, <2>2, <2>3, <2>4 DEF Typed, TypedLate
<1>6. CASE NotAdmitted
  <2>1. PICK s \in {session, ScheduledIfPossible(session)} :
               Stops(s) /\ session.stage = "admit" /\ Dropped
    BY <1>6 DEF NotAdmitted
  <2>2. DOMAIN s = SessionFields
    BY <1>1, <2>1, Parts, MayCount
  <2>3. /\ DOMAIN session' = SessionFields /\ session'.stage = "stopping"
        /\ session'.deadline = s.deadline /\ session'.retry = s.retry /\ session'.token = s.token
        /\ session'.age = s.age
    BY <2>1, <2>2 DEF Stops, SessionFields
  <2>4. TypedSession(session', NoLease)
    BY <2>1, <2>3, MaySchedule
  <2>5. callback.pc # "waiting"
    BY <2>1, Parts DEF CallbackCounts
  <2> QED  BY <1>1, <2>1, <2>3, <2>4, <2>5, DropsTyped DEF Typed, TypedLate
<1> QED  BY <1>2, <1>3, <1>4, <1>5, <1>6 DEF Enter, Admitted

LEMMA CleaningTyped ==
    ASSUME ChainInv, Typed, NothingPending \/ DropsController PROVE Typed'
<1>1. /\ UNCHANGED <<callback, stale>>
      /\ Dropped \/ Retained
      /\ session.stage \in {"stopping", "cleaning"}
  BY DEF NothingPending, DropsController, InExec
<1>2. /\ session'.stage = "cleaning" /\ session'.token = session.token
      /\ session'.deadline = session.deadline /\ session'.retry = session.retry
      /\ session'.age = session.age
  BY Parts DEF NothingPending, DropsController, SessionFields
<1>3. /\ TypedSession(session', control.token) /\ TypedSession(session', NoLease)
      /\ TypedCallback(callback') /\ stale' \in BOOLEAN
  BY <1>1, <1>2 DEF Typed, TypedSession, TypedLate
<1>4. CASE Dropped
  BY <1>1, <1>2, <1>3, <1>4, DropsTyped
<1>5. CASE Retained
  BY <1>1, <1>2, <1>3, <1>5, RetainsTyped
<1> QED  BY <1>1, <1>4, <1>5

LEMMA CleanUpTyped == ASSUME ChainInv, Typed, CleanedUp PROVE Typed'
<1>1. /\ stale' = (stale \/ callback.pc = "waiting") /\ callback' = NoCallback
      /\ ~adaptiveRestartPending(session) => control = NoController
  BY DEF CleanedUp
<1>2. stale' \in BOOLEAN /\ TypedCallback(callback')
  BY <1>1 DEF TypedCallback, NoCallback, Typed, TypedLate
<1>3. CASE session' = Over /\ Retained /\ control = NoController
  BY <1>1, <1>2, <1>3, RetainsTyped, FreshTyped, FreshSession
<1>4. CASE session' = Continued(session) /\ adaptiveRestartPending(session)
  <2>1. session'.stage = "delay"
    BY <1>4, ContinuedCounts
  <2>2. \A t : t \in {control.token, NoLease} => TypedSession(session', t)
    <3>1. /\ ~session'.retry /\ session'.age = "none"
          /\ session'.deadline \in {session.deadline, "none"}
          /\ session'.token \in {session.token, NoLease}
      BY <1>4 DEF Continued, NewSession
    <3> QED  BY <2>1, <3>1 DEF Typed, TypedSession, LeaseOrNone
  <2>3. CASE Dropped
    BY <1>1, <1>2, <2>1, <2>2, <2>3, DropsTyped
  <2>4. CASE Retained
    BY <1>1, <1>2, <2>1, <2>2, <2>4, RetainsTyped
  <2> QED  BY <1>4, <2>3, <2>4 DEF CleanedUp
<1> QED  BY <1>1, <1>3, <1>4 DEF CleanedUp

\* The end of a launch or of a stream.
LEMMA StopsTyped ==
    ASSUME ChainInv, Typed, Retained, UNCHANGED <<callback, stale>>,
           session.stage \in {"launch", "stream"},
           NEW s \in {session, ScheduledIfPossible(session)},
           DOMAIN session' = SessionFields, session'.stage = "stopping",
           session'.deadline = s.deadline, session'.retry => s.retry, session'.token = s.token,
           session'.age = s.age
    PROVE  Typed'
<1>1. TypedSession(session', control.token)
  BY MaySchedule
<1> QED  BY <1>1, RetainsTyped DEF Typed, TypedLate

LEMMA StreamTyped ==
    ASSUME ChainInv, Typed,
           \/ Launched \/ LaunchFails \/ LaunchInterrupted
           \/ StreamStops \/ Reconnect \/ WindowResized
    PROVE  Typed'
<1>1. /\ DOMAIN session = SessionFields /\ Retained /\ UNCHANGED <<callback, stale>>
      /\ session.stage \in {"launch", "stream"}
  BY Parts DEF Launched, LaunchFails, LaunchInterrupted, StreamStops, Reconnect, WindowResized,
               Undisturbed, InExec
<1>2. DOMAIN ScheduledIfPossible(session) = SessionFields
  BY Parts, MayCount
<1>3. CASE Launched
  <2>1. /\ session'.stage = "stream" /\ session'.token = session.token
        /\ session'.deadline = session.deadline /\ session'.retry = session.retry
        /\ session'.age = "short"
    BY <1>1, <1>3 DEF Launched, SessionFields
  <2>2. TypedSession(session', control.token)
    BY <2>1, GoesOnTyped
  <2> QED  BY <1>1, <2>1, <2>2, RetainsTyped DEF Typed, TypedLate
<1>4. CASE LaunchFails
  <2>1. PICK s \in {session, ScheduledIfPossible(session)} : Stops(s)
    BY <1>4 DEF LaunchFails
  <2>2. /\ DOMAIN session' = SessionFields /\ session'.stage = "stopping"
        /\ session'.deadline = s.deadline /\ session'.retry = s.retry /\ session'.token = s.token
        /\ session'.age = s.age
    BY <1>1, <1>2, <2>1 DEF Stops, SessionFields
  <2> QED  BY <1>1, <2>2, StopsTyped
<1>5. CASE LaunchInterrupted
  <2>1. /\ DOMAIN session' = SessionFields /\ session'.stage = "stopping"
        /\ session'.deadline = session.deadline /\ session'.retry = session.retry
        /\ session'.token = session.token /\ session'.age = session.age
    BY <1>1, <1>5 DEF LaunchInterrupted, Stops, SessionFields
  <2> QED  BY <1>1, <2>1, StopsTyped
<1>6. CASE StreamStops
  <2>1. PICK s \in {session, ScheduledIfPossible(session)} :
               \E r \in {[s EXCEPT !.retry = FALSE], [s EXCEPT !.reported = TRUE], s} : Ends(r)
    BY <1>6 DEF StreamStops
  <2>2. /\ DOMAIN session' = SessionFields /\ session'.stage = "stopping"
        /\ session'.deadline = s.deadline /\ (session'.retry => s.retry) /\ session'.token = s.token
        /\ session'.age = s.age
    BY <1>1, <1>2, <2>1 DEF Ends, SessionFields
  <2> QED  BY <1>1, <2>2, StopsTyped
<1>7. CASE Reconnect \/ WindowResized
  <2>1. /\ DOMAIN session' = SessionFields /\ session'.stage = "stopping"
        /\ session'.deadline = session.deadline /\ session'.retry = session.retry
        /\ session'.token = session.token /\ session'.age = session.age
    BY <1>1, <1>7 DEF Reconnect, WindowResized, Ends, SessionFields
  <2> QED  BY <1>1, <2>1, StopsTyped
<1> QED  BY <1>3, <1>4, <1>5, <1>6, <1>7

LEMMA SmallTyped ==
    ASSUME ChainInv, Typed,
           \/ Picture \/ StreamLasts \/ DeadlinePasses \/ Connect \/ Disconnect \/ Escape
           \/ Callback \/ \E error \in {"network", "graceful", "fatal"} : MediaEnds(error)
    PROVE  Typed'
<1>1. /\ DOMAIN session = SessionFields /\ DOMAIN callback = {"pc", "error"} /\ UNCHANGED stale
      /\ CallbackReports \/ Retained
  BY Parts DEF Picture, StreamLasts, DeadlinePasses, Connect, Disconnect, Escape, Callback,
               CallbackReports, CallbackSchedules, MediaEnds, InExec
<1>2. stale' \in BOOLEAN /\ TypedCallback(callback) /\ TypedSession(session, control.token)
  BY <1>1 DEF Typed, TypedLate
<1>3. CASE Picture \/ StreamLasts \/ Disconnect \/ Escape
  <2>1. /\ session'.stage = session.stage /\ session'.token = session.token
        /\ session'.deadline = session.deadline /\ (session'.retry => session.retry)
        /\ session'.age \in {session.age, "long"} /\ UNCHANGED callback /\ Retained
    BY <1>1, <1>3 DEF Picture, StreamLasts, Disconnect, Escape, InExec, SessionFields
  <2>2. TypedSession(session', control.token)
    BY <2>1, GoesOnTyped
  <2> QED  BY <1>1, <1>2, <2>1, <2>2, RetainsTyped
<1>4. CASE DeadlinePasses
  <2>1. /\ session'.stage = session.stage /\ session'.token = session.token
        /\ session'.deadline = "passed" /\ session'.retry = session.retry
        /\ session'.age = session.age /\ UNCHANGED callback /\ Retained
    BY <1>1, <1>4 DEF DeadlinePasses, InExec, SessionFields
  <2>2. TypedSession(session', control.token)
    BY <1>2, <2>1 DEF TypedSession
  <2> QED  BY <1>1, <1>2, <2>1, <2>2, RetainsTyped
<1>5. CASE Connect
  BY <1>1, <1>2, <1>5, FreshTyped, FreshSession, RetainsTyped DEF Connect
<1>6. CASE \E error \in {"network", "graceful", "fatal"} : MediaEnds(error)
  <2>1. /\ session' = session /\ session.stage = "stream" /\ TypedCallback(callback')
        /\ callback'.pc = "waiting" /\ Retained
    BY <1>6 DEF MediaEnds, TypedCallback
  <2> QED  BY <1>1, <1>2, <2>1, RetainsTyped
<1>7. CASE Callback
  <2>1. session.stage \in {"stream", "stopping", "cleaning"} /\ TypedCallback(callback')
    BY <1>1, <1>2, <1>7, Parts
    DEF Callback, CallbackReports, CallbackSchedules, Done, CallbackCounts, TypedCallback
  <2>2. PICK s \in {session, Scheduled(session)} :
             /\ DOMAIN session' = SessionFields /\ session'.stage = session.stage
             /\ session'.deadline = s.deadline /\ session'.retry = s.retry
             /\ session'.token = s.token /\ session'.age = s.age
    <3>1. DOMAIN Scheduled(session) = SessionFields /\ Scheduled(session).stage = session.stage
      BY SchedulesTyped
    <3>2. CASE CallbackReports
      <4>1. /\ DOMAIN session' = SessionFields /\ session'.stage = session.stage
            /\ session'.deadline = session.deadline /\ session'.retry = session.retry
            /\ session'.token = session.token /\ session'.age = session.age
        BY <1>1, <3>2 DEF CallbackReports, SessionFields
      <4> QED  BY <4>1
    <3>3. CASE CallbackSchedules
      <4> DEFINE s == Scheduled(session)
      <4>1. session' = [s EXCEPT !.ended = TRUE] /\ DOMAIN s = SessionFields /\ s.stage = session.stage
        BY <3>1, <3>3 DEF CallbackSchedules
      <4> HIDE DEF s
      <4>2. /\ DOMAIN session' = SessionFields /\ session'.stage = session.stage
            /\ session'.deadline = s.deadline /\ session'.retry = s.retry
            /\ session'.token = s.token /\ session'.age = s.age
        BY <4>1 DEF SessionFields
      <4> QED  BY <4>2 DEF s
    <3> QED  BY <1>7, <3>2, <3>3 DEF Callback
  <2>3. TypedSession(session', control.token)
    BY <2>1, <2>2, MaySchedule
  <2>4. CASE CallbackReports
    <3>1. UNCHANGED <<control, link, host, stale>> /\ late' = [late EXCEPT !.held = @ /\ stale]
      BY <2>4 DEF CallbackReports
    <3>2. TypedLate' /\ late'.open = late.open
      BY <3>1 DEF Typed, TypedLate
    <3> QED  BY <2>1, <2>2, <2>3, <3>1, <3>2 DEF Typed
  <2>5. CASE CallbackSchedules
    <3>1. Retained /\ callback.pc = "scheduling"
      BY <2>5 DEF CallbackSchedules
    <3> QED  BY <1>1, <1>2, <2>1, <2>2, <2>3, <3>1, RetainsTyped
  <2> QED  BY <1>7, <2>4, <2>5 DEF Callback
<1> QED  BY <1>3, <1>4, <1>5, <1>6, <1>7

LEMMA QuitsTyped == ASSUME ChainInv, Typed, Quits \/ StaleReports \/ UNCHANGED vars PROVE Typed'
<1>1. CASE Quits
  <2>1. /\ session' = Over /\ stale' = FALSE /\ control' = NoController /\ link' = NoLink
        /\ callback' = callback /\ DOMAIN host = HostFields
    BY <1>1, Parts DEF Quits
  <2>2. TypedLate' /\ (late'.open => late.open) /\ (late'.open <=> late.open /\ ~late.held)
    BY <1>1, <2>1 DEF Quits, Typed, TypedLate, NotLate, LeaseOrNone
  <2>3. TypedHost(host', late'.open)
    <3>1. CASE late.held
      <4>1. host' = RenamedIn(Renamed("late", "lost"), "this", "lost")
        BY <1>1, <3>1 DEF Quits
      <4>2. /\ DOMAIN Renamed("late", "lost") = HostFields
            /\ TypedHost(Renamed("late", "lost"), FALSE)
        BY <2>1, RenamesTyped DEF Renamed, Mine, Typed
      <4>3. TypedHost(host', FALSE)
        BY <4>1, <4>2, RenamesTyped DEF Mine, TypedHost
      <4> QED  BY <4>3 DEF TypedHost
    <3>2. CASE ~late.held
      <4>1. host' = RenamedIn(host, "this", "lost") /\ late' = late
        BY <1>1, <3>2 DEF Quits
      <4> QED  BY <2>1, <4>1, RenamesTyped DEF Mine, Typed, TypedHost
    <3> QED  BY <3>1, <3>2
  <2>4. TypedControl(control') /\ TypedLink(link', control'.pc) /\ control'.token = NoLease
    BY <2>1 DEF TypedControl, NoController, TypedLink, NoLink, LeaseOrNone
  <2> QED  BY <2>1, <2>2, <2>3, <2>4, FreshTyped, FreshSession DEF Typed
<1>2. CASE StaleReports
  <2>1. /\ UNCHANGED <<session, callback, control, link, host>> /\ stale' = FALSE
        /\ late' = [late EXCEPT !.held = @ /\ callback.pc = "waiting"]
    BY <1>2 DEF StaleReports, StaleEffect
  <2>2. TypedLate' /\ late'.open = late.open
    BY <2>1 DEF Typed, TypedLate
  <2> QED  BY <2>1, <2>2 DEF Typed
<1>3. CASE UNCHANGED vars
  BY <1>3 DEF vars, Typed, TypedLate
<1> QED  BY <1>1, <1>2, <1>3

LEMMA TypedInitially == Init => Typed
<1> SUFFICES ASSUME Init PROVE Typed
  OBVIOUS
<1>1. /\ session = Over /\ callback = NoCallback /\ stale = FALSE /\ control = NoController
      /\ link = NoLink /\ late = NotLate /\ host = IdleHost
  BY DEF Init
<1>2. TypedLate /\ TypedCallback(callback)
  BY <1>1 DEF TypedLate, NotLate, TypedCallback, NoCallback, LeaseOrNone
<1>3. TypedControl(control) /\ TypedLink(link, control.pc)
  BY <1>1 DEF TypedControl, NoController, TypedLink, NoLink, LeaseOrNone
<1>4. TypedHost(host, late.open)
  BY <1>1, ViewerConstants DEF TypedHost, IdleHost, LeaseOrNone
<1> QED  BY <1>1, <1>2, <1>3, <1>4, FreshTyped, FreshSession DEF Typed

LEMMA TypedSteps == ASSUME ChainInv, DisplayInv, Typed, [Next]_vars PROVE Typed'
  BY HostStepTyped, WorkerTyped, AdmissionTyped, CleaningTyped, CleanUpTyped, StreamTyped, SmallTyped, QuitsTyped
  DEF Next, User, Environment, Exec, Launch, ResumeFails

\* Threads, connection and host are always in a state that TypeOK describes: among
\* others a viewer that is not there holds no connection, and a session of the host
\* has a lease.
THEOREM ViewerTyped == Spec => []TypeOK
<1>1. ChainInv /\ DisplayInv /\ Typed => TypeOK
  <2> SUFFICES ASSUME ChainInv, DisplayInv, Typed PROVE TypeOK
    OBVIOUS
  <2>1. session.attempt \in 0..Attempts
    BY Parts DEF Counted
  <2>2. control.pc \in {"none", "connect", "ended"} <=> link = NoLink
    BY DEF DisplayInv, Corresponds, Typed, TypedLink, NoLink
  <2>3. /\ host.session = "this" => link.state = "up"
        /\ host.session \in Mine \cup {"none", "other"}
    BY DEF DisplayInv, Owns, Typed, TypedHost, Mine
  <2>4. {stale, late.open, late.held} \subseteq BOOLEAN
    BY DEF Typed, TypedLate
  <2> QED  BY <2>1, <2>2, <2>3, <2>4
           DEF TypeOK, Typed, TypedSession, TypedCallback, TypedLate, TypedControl, TypedLink,
               TypedHost, LeaseOrNone
<1>2. Spec => []Typed
  BY TypedInitially, TypedSteps, ChainInvariant, DisplayInvariant, PTL DEF Spec
<1> QED  BY <1>1, <1>2, ChainInvariant, DisplayInvariant, PTL
=============================================================================

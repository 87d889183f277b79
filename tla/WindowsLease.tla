---------------------------- MODULE WindowsLease ----------------------------
(***************************************************************************)
(* The lease of the virtual display on Windows: the helper                 *)
(* (host/windows/display-helper.cpp) asks, over one shared record, an      *)
(* independent guardian (display-recovery.cpp) that owns the recovery of   *)
(* the user's physical layout and DPI preference.  The guardian works      *)
(* through short-lived worker processes, and writes what it must restore   *)
(* before it changes anything.  Any process may end at any step; the next  *)
(* lease finds the files that it left.                                     *)
(***************************************************************************)
EXTENDS Integers, Sequences, FiniteSets, FiniteSetsExt

CONSTANTS
    LeaseCount,     \* bound: leases, numbered in the order of their snapshots
    Modes,          \* dimensions of the virtual display
    ListedModes,    \* those that its driver always offers
    StartMode,      \* the one in which it starts
    Recommended,    \* the DPI index that Windows recommends for each mode
    Highest,        \* the highest DPI index that it offers in each mode
    Preference,     \* the DPI step that the user has chosen
    MaxRequests,    \* bound: requests of the host in one lease
    MaxKills,       \* bound: guardians that are terminated
    StepsFail,      \* whether workers, DPI changes and commands may fail
    WorkersOutlive  \* whether a worker may outlive its guardian

ASSUME LeaseConstants ==
    /\ LeaseCount \in Nat
    /\ ListedModes \subseteq Modes /\ StartMode \in ListedModes
    /\ Recommended \in [Modes -> Nat] /\ Highest \in [Modes -> Nat] /\ Preference \in Int
    /\ MaxRequests \in Nat /\ MaxKills \in Nat
    /\ StepsFail \in BOOLEAN /\ WorkersOutlive \in BOOLEAN

VARIABLES
    device,     \* whether the virtual display is enabled
    layout,     \* arrangement of the physical displays: the user's or another
    mode,       \* mode of the virtual display
    step,       \* its DPI, relative to what Windows recommends for the mode
    offered,    \* the mode that the driver offers besides the listed ones
    snapshot,   \* <nonce>.bin of each lease: the layout it found, or "none"
    journal,    \* <nonce>.bin.dpi: the step and the percentage it found
    guard,      \* the guardian that holds the mutex
    workers,    \* enable-lease, resize-lease and recover processes
    channel,    \* DisplayModeRequest and its two events
    helper,     \* the client of the lease
    used,       \* number of leases so far
    kills,      \* number of guardians terminated so far
    accepted,   \* history: the steps that count as the user's: the one chosen, and
                \* what RestoreDpi made of such a step in another mode
    disturbed   \* history: a recovery failed, or a guardian was terminated
                \* while it waited for a worker or recovered

windowsVars == <<device, layout, mode, step, offered>>
fileVars    == <<snapshot, journal>>
recordVars  == <<used, kills, accepted>>
vars == <<windowsVars, fileVars, guard, workers, channel, helper, recordVars, disturbed>>

Leases == 1..LeaseCount

-----------------------------------------------------------------------------
NoJournal == [step |-> 0, percent |-> -1]
NoGuard   == [lease |-> 0, pc |-> "none", answer |-> "none", file |-> 0, dpiOk |-> TRUE,
              target |-> StartMode]
NoHelper  == [phase |-> "none", plan |-> <<>>, dpi |-> FALSE, changed |-> FALSE,
              ending |-> FALSE, idle |-> StartMode, target |-> StartMode, scale |-> 1, left |-> 0]
Quiet     == [op |-> "none", target |-> StartMode, scale |-> 1,
              request |-> FALSE, completed |-> FALSE, ok |-> FALSE, limited |-> FALSE]

Layouts == {"user", "other"}
Offered == ListedModes \cup {offered}

TypeOK ==
    /\ device \in BOOLEAN /\ layout \in Layouts
    /\ mode \in Modes /\ offered \in Modes /\ step \in Int
    /\ snapshot \in [Leases -> Layouts \cup {"none", "virtual"}]
    /\ journal \in [Leases -> [step : Int, percent : Int]]
    /\ guard.lease \in 0..used /\ (guard.lease = 0 <=> guard = NoGuard)
    /\ \A w \in workers : w.lease \in 1..used /\ w.file \in 1..used /\ w.target \in Modes
    /\ Cardinality({w \in workers : w.lease = guard.lease}) <= 1
    /\ helper.phase \in {"none", "starting", "ready", "waiting"}
    /\ used \in 0..LeaseCount /\ kills \in 0..MaxKills /\ accepted \subseteq Int

Init ==
    /\ device = FALSE /\ layout = "user"
    /\ mode = StartMode /\ offered = StartMode /\ step = Preference
    /\ snapshot = [n \in Leases |-> "none"]
    /\ journal = [n \in Leases |-> NoJournal]
    /\ guard = NoGuard /\ workers = {}
    /\ channel = Quiet /\ helper = NoHelper
    /\ used = 0 /\ kills = 0 /\ accepted = {Preference} /\ disturbed = FALSE

-----------------------------------------------------------------------------
(* DPI (DpiLease)                                                          *)

percent(m, s)  == Recommended[m] + s
relative(m, p) == p - Recommended[m]

\* Windows refuses what the mode does not offer (ERROR_NOT_SUPPORTED).
Settable(s) == percent(mode, s) \in 0..Highest[mode]

\* query(): the display is enabled, and its step is one that the mode offers.
Observable == device /\ Settable(step)

RestoredStep(n, retiringSource) ==
    IF retiringSource THEN journal[n].step ELSE relative(mode, journal[n].percent)

\* Mutant: the journal is deleted also when the preference did not come back.
RetiredAnyway(ok, retire) == retire

Retired(ok, retire) == ok /\ retire

\* DpiLease::restore: by the step when the source retires, else by the
\* percentage, which is another step in a mode with another recommendation.
DpiRestore(n, retire, retiringSource, ok) ==
    IF journal[n] = NoJournal
    THEN ok /\ UNCHANGED <<step, journal>>
    ELSE /\ ok => Observable /\ Settable(RestoredStep(n, retiringSource))
         /\ ok \/ ~Observable \/ ~Settable(RestoredStep(n, retiringSource)) \/ StepsFail
         /\ step' = IF ok THEN RestoredStep(n, retiringSource) ELSE step
         /\ journal' = IF Retired(ok, retire) THEN [journal EXCEPT ![n] = NoJournal] ELSE journal

\* DpiLease::capture: the first preference that this lease finds.
DpiCapture(n, ok) ==
    /\ IF journal[n] # NoJournal THEN ok ELSE (ok => Observable) /\ (ok \/ ~Observable \/ StepsFail)
    /\ journal' = IF ok /\ journal[n] = NoJournal
                  THEN [journal EXCEPT ![n] = [step |-> step, percent |-> percent(mode, step)]]
                  ELSE journal
    /\ UNCHANGED step

\* The step of 100% or 200%.
ScaleStep(scale) == relative(mode, IF scale = 1 THEN 0 ELSE 4)

\* "A small native Windows desktop may expose only 100% through 175%."
Unsupported(n, scale) ==
    device /\ journal[n] # NoJournal /\ ~(Settable(step) /\ Settable(ScaleStep(scale)))

\* DpiLease::change: only what has been recorded may change.
DpiChange(n, scale, ok) ==
    /\ ok => Observable /\ journal[n] # NoJournal /\ Settable(ScaleStep(scale))
    /\ ok \/ ~device \/ journal[n] = NoJournal \/ Unsupported(n, scale) \/ StepsFail
    /\ step' = IF ok THEN ScaleStep(scale) ELSE step
    /\ UNCHANGED journal

\* History: RestoreDpi of lease n sets the user's percentage, and whatever step
\* that is in the present mode is from now on the user's.
Accept(n, ok) ==
    accepted' = IF ok /\ journal[n] # NoJournal /\ journal[n].step \in accepted
                THEN accepted \cup {RestoredStep(n, FALSE)} ELSE accepted

-----------------------------------------------------------------------------
(* The guardian (productionLease)                                          *)

alive == helper.phase # "none"

\* Mutant: the answer of the last worker is taken for that of the next.
GotoAnswered(pc) == [guard EXCEPT !.pc = pc]

Goto(pc) == [guard EXCEPT !.pc = pc, !.answer = "none"]

\* runWorker: a process of its own, which the guardian waits for.
Launch(kind, file, target) ==
    workers' = workers \cup {[lease |-> guard.lease, kind |-> kind, file |-> file,
                              stage |-> IF kind = "recover" THEN "disable" ELSE "check",
                              target |-> target]}

\* A helper asks the service for a lease; the mutex is free.
Acquire ==
    /\ helper = NoHelper /\ guard = NoGuard /\ used < LeaseCount
    /\ used' = used + 1
    /\ guard' = [NoGuard EXCEPT !.lease = used + 1, !.pc = "inspect"]
    /\ helper' = [NoHelper EXCEPT !.phase = "starting", !.left = MaxRequests]
    /\ channel' = Quiet
    /\ UNCHANGED <<windowsVars, fileVars, workers, kills, accepted, disturbed>>

Orphans == {k \in Leases \ {guard.lease} : snapshot[k] # "none"}

\* Mutant: the orphan's percentage is restored, not its step.
OrphanByPercentage(n, ok) == DpiRestore(n, TRUE, FALSE, ok)

\* The guardian of lease n was terminated: its journal serves to the last.
OrphanDpi(n, ok) == DpiRestore(n, TRUE, TRUE, ok)

\* An earlier guardian was terminated: recover from the newest snapshot first.
Inspect ==
    /\ guard.pc = "inspect"
    /\ IF device /\ Orphans # {}
       THEN \E ok \in BOOLEAN :
              /\ OrphanDpi(Max(Orphans), ok)
              /\ Launch("recover", Max(Orphans), StartMode)
              /\ guard' = [Goto("orphan") EXCEPT !.file = Max(Orphans), !.dpiOk = ok]
              /\ disturbed' = (disturbed \/ ~ok)
       ELSE guard' = Goto("check") /\ UNCHANGED <<step, journal, workers, disturbed>>
    /\ UNCHANGED <<device, layout, mode, offered, snapshot, channel, helper, recordVars>>

\* Mutant: the snapshot is deleted whether or not the layout came back.
RecoveredAnyway == TRUE

Recovered == guard.answer = "ok" /\ guard.dpiOk

\* A recovery has ended: only a complete one deletes its snapshot.
Retire(next) ==
    /\ guard.answer # "none"
    /\ snapshot' = IF Recovered THEN [snapshot EXCEPT ![guard.file] = "none"] ELSE snapshot
    /\ guard' = next
    /\ UNCHANGED <<windowsVars, journal, workers, channel, helper, recordVars, disturbed>>

OrphanRecovered == guard.pc = "orphan" /\ Retire([Goto("check") EXCEPT !.dpiOk = TRUE])

\* Nothing is captured while the virtual display is enabled.
Check ==
    /\ guard.pc = "check"
    /\ guard' = IF device THEN NoGuard ELSE Goto("save")
    /\ UNCHANGED <<windowsVars, fileVars, workers, channel, helper, recordVars, disturbed>>

\* capture() and save(): the layout at that moment.
Save ==
    /\ guard.pc = "save"
    /\ snapshot' = [snapshot EXCEPT ![guard.lease] = IF device THEN "virtual" ELSE layout]
    /\ guard' = [Goto("enable") EXCEPT !.file = guard.lease]
    /\ UNCHANGED <<windowsVars, journal, workers, channel, helper, recordVars, disturbed>>

Enable ==
    /\ guard.pc = "enable"
    /\ IF alive
       THEN Launch("enable", guard.lease, StartMode) /\ guard' = Goto("enabling")
       ELSE guard' = Goto("cleanup") /\ UNCHANGED workers
    /\ UNCHANGED <<windowsVars, fileVars, channel, helper, recordVars, disturbed>>

\* The display is enabled: the helper may start.
Enabled ==
    /\ guard.pc = "enabling" /\ guard.answer # "none"
    /\ IF guard.answer = "ok"
       THEN /\ guard' = Goto("serve")
            /\ helper' = IF alive THEN [helper EXCEPT !.phase = "ready", !.idle = mode] ELSE helper
       ELSE guard' = Goto("cleanup") /\ UNCHANGED helper
    /\ UNCHANGED <<windowsVars, fileVars, workers, channel, recordVars, disturbed>>

Completed(ok) == [channel EXCEPT !.request = FALSE, !.completed = TRUE, !.ok = ok]

\* A command on the DPI is carried out at once.
ServeDpi ==
    /\ guard.pc = "serve" /\ alive /\ channel.request /\ channel.op # "resize"
    /\ \E ok \in BOOLEAN :
          /\ CASE channel.op = "capture" -> DpiCapture(guard.lease, ok)
               [] channel.op = "set" -> DpiChange(guard.lease, channel.scale, ok)
               [] channel.op = "restore" -> DpiRestore(guard.lease, TRUE, FALSE, ok)
               [] channel.op = "reset" -> DpiRestore(guard.lease, FALSE, TRUE, ok)
          /\ Accept(guard.lease, ok /\ channel.op = "restore")
          /\ channel' = [Completed(ok) EXCEPT !.limited =
                  ~ok /\ channel.op = "set" /\ Unsupported(guard.lease, channel.scale)]
    /\ UNCHANGED <<device, layout, mode, offered, snapshot, guard, workers, helper, used, kills,
                   disturbed>>

\* A resize restores the DPI, retires the display and enables it again.
ServeResize ==
    /\ guard.pc = "serve" /\ alive /\ channel.request /\ channel.op = "resize"
    /\ \E ok \in BOOLEAN :
          /\ DpiRestore(guard.lease, FALSE, TRUE, ok)
          /\ IF ok
             THEN /\ Launch("resize", guard.lease, channel.target)
                  /\ guard' = Goto("resizing")
                  /\ channel' = [channel EXCEPT !.request = FALSE]
             ELSE guard' = Goto("cleanup") /\ channel' = Completed(FALSE) /\ UNCHANGED workers
    /\ UNCHANGED <<device, layout, mode, offered, snapshot, helper, recordVars, disturbed>>

Resized ==
    /\ guard.pc = "resizing" /\ guard.answer # "none"
    /\ IF guard.answer = "ok" /\ alive
       THEN /\ Launch("enable", guard.lease, StartMode)
            /\ guard' = Goto("reenabling")
            /\ UNCHANGED channel
       ELSE guard' = Goto("cleanup") /\ UNCHANGED workers /\ channel' =
               [channel EXCEPT !.completed = TRUE, !.ok = FALSE]
    /\ UNCHANGED <<windowsVars, fileVars, helper, recordVars, disturbed>>

Reenabled ==
    /\ guard.pc = "reenabling" /\ guard.answer # "none"
    /\ guard' = Goto(IF guard.answer = "ok" THEN "serve" ELSE "cleanup")
    /\ channel' = [channel EXCEPT !.completed = TRUE, !.ok = guard.answer = "ok"]
    /\ UNCHANGED <<windowsVars, fileVars, workers, helper, recordVars, disturbed>>

\* Mutant: an end is only noticed after the command that waits.
AfterCommands == ~alive /\ ~channel.request

Ended == ~alive

\* The helper has ended or released the lease.
Release ==
    /\ guard.pc = "serve" /\ Ended
    /\ guard' = Goto("cleanup")
    /\ UNCHANGED <<windowsVars, fileVars, workers, channel, helper, recordVars, disturbed>>

Cleanup ==
    /\ guard.pc = "cleanup"
    /\ \E ok \in BOOLEAN :
          /\ DpiRestore(guard.lease, TRUE, TRUE, ok)
          /\ guard' = [Goto("recovering") EXCEPT !.dpiOk = ok]
          /\ disturbed' = (disturbed \/ ~ok)
    /\ Launch("recover", guard.lease, StartMode)
    /\ UNCHANGED <<device, layout, mode, offered, snapshot, channel, helper, recordVars>>

Finish == guard.pc = "recovering" /\ Retire(NoGuard)

Working == {"orphan", "enabling", "resizing", "reenabling", "cleanup", "recovering"}

\* The guardian is terminated: its mutex is free.
Killed ==
    /\ guard # NoGuard /\ kills < MaxKills
    /\ kills' = kills + 1
    /\ guard' = NoGuard
    /\ workers' = IF WorkersOutlive THEN workers ELSE {}
    /\ disturbed' = (disturbed \/ guard.pc \in Working)
    /\ UNCHANGED <<windowsVars, fileVars, channel, helper, used, accepted>>

-----------------------------------------------------------------------------
(* The workers                                                             *)

\* The exit code of w, for the guardian that waits for it.
Exit(w, answer) ==
    /\ workers' = workers \ {w}
    /\ guard' = IF guard.lease = w.lease THEN [guard EXCEPT !.answer = answer] ELSE guard

Proceed(w, stage) ==
    /\ workers' = (workers \ {w}) \cup {[w EXCEPT !.stage = stage]}
    /\ UNCHANGED guard

rest == <<fileVars, channel, helper, recordVars>>

\* enable-lease and resize-lease: the guardian is alive and has saved its snapshot.
WorkerChecks(w) ==
    /\ w.stage = "check"
    /\ IF guard.lease = w.lease /\ snapshot[w.lease] # "none"
       THEN Proceed(w, "act") ELSE Exit(w, "failed")
    /\ UNCHANGED <<windowsVars, rest, disturbed>>

\* An error may be reported although the device has changed its state.
Answers == {"ok"} \cup (IF StepsFail THEN {"failed"} ELSE {})

\* Windows may rearrange the displays when one comes or goes.
Rearranged == layout' \in {layout, "other"}

WorkerEnables(w) ==
    /\ w.kind = "enable" /\ w.stage = "act"
    /\ \E answer \in Answers : Exit(w, answer)
    /\ IF device THEN UNCHANGED <<device, layout, mode>>
                 ELSE device' = TRUE /\ Rearranged /\ mode' = offered
    /\ UNCHANGED <<step, offered, rest, disturbed>>

WorkerResizes(w) ==
    /\ w.kind = "resize" /\ w.stage = "act"
    /\ \E answer \in Answers : Exit(w, answer)
    /\ offered' = w.target
    /\ IF device THEN device' = FALSE /\ Rearranged ELSE UNCHANGED <<device, layout>>
    /\ UNCHANGED <<mode, step, rest, disturbed>>

WorkerDisables(w) ==
    /\ w.kind = "recover" /\ w.stage = "disable"
    /\ Proceed(w, "layout")
    /\ IF device THEN device' = FALSE /\ Rearranged ELSE UNCHANGED <<device, layout>>
    /\ UNCHANGED <<mode, step, offered, rest, disturbed>>

\* restoreSnapshot: success is only reported for the layout of the snapshot.
WorkerRestores(w) ==
    /\ w.kind = "recover" /\ w.stage = "layout"
    /\ IF snapshot[w.file] \in Layouts /\ ~device
       THEN layout' = snapshot[w.file] /\ Exit(w, "ok") /\ UNCHANGED disturbed
       ELSE UNCHANGED layout /\ Exit(w, "failed") /\ disturbed' = TRUE
    /\ UNCHANGED <<device, mode, step, offered, rest>>

\* An error, or 20 seconds have passed.
WorkerFails(w) ==
    /\ StepsFail
    /\ Exit(w, "failed")
    /\ disturbed' = (disturbed \/ w.kind = "recover")
    /\ UNCHANGED <<windowsVars, rest>>

-----------------------------------------------------------------------------
(* The helper                                                              *)

\* restore(): back to the idle mode.
RestoreOps(dpi, changed, releaseDpi) ==
    (IF dpi THEN <<"reset">> ELSE <<>>) \o (IF changed THEN <<"idle">> ELSE <<>>)
        \o (IF dpi /\ releaseDpi THEN <<"restore">> ELSE <<>>)

EndOps(h) == RestoreOps(h.dpi, h.changed, TRUE) \o <<"finish">>

\* The handler of a request for a session in mode m, mirrored or independent.
SessionOps(m, mirror) ==
    LET first == IF mirror THEN (IF helper.dpi THEN RestoreOps(TRUE, helper.changed, TRUE) ELSE <<>>)
                           ELSE (IF helper.dpi THEN <<>> ELSE <<"capture">>)
        changed == helper.changed /\ ~(mirror /\ helper.dpi)
    IN  first \o (IF m \in Offered THEN <<>> ELSE RestoreOps(~mirror, changed, FALSE) \o <<"resize">>)
              \o <<"apply">> \o (IF mirror THEN <<>> ELSE <<"set">>)

\* The host asks for the idle display or for a session.
Request ==
    /\ helper.phase = "ready" /\ helper.plan = <<>> /\ helper.left > 0
    /\ \/ helper' = [helper EXCEPT !.plan = RestoreOps(helper.dpi, helper.changed, TRUE),
                                   !.left = @ - 1, !.ending = FALSE]
       \/ \E m \in Modes, mirror \in BOOLEAN, scale \in {1, 2} :
             /\ mirror => scale = 1
             /\ helper' = [helper EXCEPT !.plan = SessionOps(m, mirror), !.left = @ - 1,
                                         !.target = m, !.scale = scale, !.ending = TRUE]
    /\ UNCHANGED <<windowsVars, fileVars, guard, workers, channel, recordVars, disturbed>>

\* The input has ended.
InputEnds ==
    /\ helper.phase = "ready" /\ helper.plan = <<>>
    /\ helper' = [helper EXCEPT !.plan = EndOps(helper), !.ending = FALSE, !.left = 0]
    /\ UNCHANGED <<windowsVars, fileVars, guard, workers, channel, recordVars, disturbed>>

\* A failed step: a session request ends the lease (`ending'), one for the idle
\* display is answered with an error, and the end itself is not tried again.
Failing ==
    IF helper.ending THEN [helper EXCEPT !.phase = "ready", !.plan = EndOps(helper),
                                         !.ending = FALSE, !.left = 0]
    ELSE IF helper.left = 0 THEN NoHelper
    ELSE [helper EXCEPT !.phase = "ready", !.plan = <<>>]

\* A step of the handler that the helper carries out itself.
HelperActs ==
    /\ helper.phase = "ready" /\ helper.plan # <<>>
    /\ LET op == Head(helper.plan)
           to == IF op = "idle" THEN helper.idle ELSE helper.target
       IN  /\ op \in {"idle", "apply", "finish"}
           /\ IF op = "finish"
              THEN helper' = NoHelper /\ UNCHANGED mode
              ELSE IF device /\ to \in Offered
              THEN /\ mode' = to
                   /\ helper' = [helper EXCEPT !.plan = Tail(@), !.changed = op = "apply"]
              ELSE UNCHANGED mode /\ helper' = Failing
    /\ UNCHANGED <<device, layout, step, offered, fileVars, guard, workers, channel, recordVars,
                   disturbed>>

\* DisplayLease::command: the record and the event are shared with the guardian.
Command ==
    /\ helper.phase = "ready" /\ helper.plan # <<>>
    /\ Head(helper.plan) \notin {"idle", "apply", "finish"}
    /\ channel' = [op |-> Head(helper.plan), target |-> helper.target, scale |-> helper.scale,
                   request |-> TRUE, completed |-> FALSE, ok |-> FALSE, limited |-> FALSE]
    /\ helper' = [helper EXCEPT !.phase = "waiting"]
    /\ UNCHANGED <<windowsVars, fileVars, guard, workers, recordVars, disturbed>>

\* What a command that succeeded leaves in the helper.
Succeeded ==
    LET op == Head(helper.plan)
    IN  [helper EXCEPT !.phase = "ready", !.plan = Tail(@),
             !.dpi = IF op = "capture" THEN TRUE ELSE IF op = "restore" THEN FALSE ELSE @,
             !.idle = IF op = "resize" THEN helper.target ELSE @]

\* 200% is not to be had: the session goes on with 100%.
Fallback == channel.limited /\ Head(helper.plan) = "set" /\ helper.scale = 2

Answered ==
    /\ helper.phase = "waiting" /\ channel.completed
    /\ channel' = [channel EXCEPT !.completed = FALSE]
    /\ helper' = IF channel.ok THEN Succeeded
                 ELSE IF Fallback THEN [helper EXCEPT !.phase = "ready", !.scale = 1]
                 ELSE Failing
    /\ UNCHANGED <<windowsVars, fileVars, guard, workers, recordVars, disturbed>>

\* The guardian has ended, or 20 seconds have passed: a late answer stays.
TimedOut ==
    /\ helper.phase = "waiting" /\ ~channel.completed
    /\ guard = NoGuard \/ StepsFail
    /\ helper' = Failing
    /\ UNCHANGED <<windowsVars, fileVars, guard, workers, channel, recordVars, disturbed>>

\* The helper is terminated, the guardian did not become ready in time, or
\* the service stops.
HelperDies ==
    /\ helper # NoHelper
    /\ helper' = NoHelper
    /\ UNCHANGED <<windowsVars, fileVars, guard, workers, channel, recordVars, disturbed>>

-----------------------------------------------------------------------------
Guardian ==
    \/ Inspect \/ OrphanRecovered \/ Check \/ Save \/ Enable \/ Enabled \/ ServeDpi
    \/ ServeResize \/ Resized \/ Reenabled \/ Release \/ Cleanup \/ Finish

Worker(w) ==
    \/ WorkerChecks(w) \/ WorkerEnables(w) \/ WorkerResizes(w) \/ WorkerDisables(w)
    \/ WorkerRestores(w) \/ WorkerFails(w)

Next ==
    \/ Acquire \/ Killed \/ Guardian
    \/ \E w \in workers : Worker(w)
    \/ Request \/ InputEnds \/ HelperActs \/ Command \/ Answered \/ TimedOut \/ HelperDies

Spec == Init /\ [][Next]_vars

\* The guardian runs, and waits at most 20 seconds for a worker.
FairSpec == Spec /\ WF_vars(Guardian) /\ WF_vars(\E w \in workers : Worker(w))

-----------------------------------------------------------------------------
(* Properties                                                              *)

\* "Recovery failure retains its protected journal"
\* (docs/WINDOWS_DISPLAY_SERVICE.md:74): as long as the user's layout is not back,
\* a snapshot of it is on disk, whatever has failed or was terminated.
LayoutIsKept == device \/ layout # "user" => \E n \in Leases : snapshot[n] = "user"

\* The same for the DPI step: as long as the user's is not in force, a journal on
\* disk holds it.  There is one exception.  Windows keeps a step relative to what
\* it recommends for the mode, and RestoreDpi, at the end of a session, sets the
\* user's percentage in a mode whose recommendation may be another one
\* (display-helper.cpp:507-508): that puts another step in the place of the
\* user's and deletes the journal (MCClaimDpi.cfg), and such a step is accepted
\* for his from then on.  Nothing else ever changes what is taken for the user's.
PreferenceIsKept ==
    step \notin accepted => \E n \in Leases : journal[n] # NoJournal /\ journal[n].step \in accepted

\* What a new lease takes for the user's own layout and step is just that, with
\* the same exception for the step, also after a guardian was terminated, unless
\* a recovery has failed or a guardian was terminated while it waited for a
\* worker or recovered.
BaselineIsUsers ==
    guard.pc = "save" /\ ~disturbed => ~device /\ layout = "user" /\ step \in accepted

\* A lease whose helper has ended comes to its end.
LeaseEnds == (guard # NoGuard /\ ~alive) ~> (guard = NoGuard)
=============================================================================

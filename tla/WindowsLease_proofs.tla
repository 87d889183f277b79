------------------------ MODULE WindowsLease_proofs ------------------------
(***************************************************************************)
(* The user's layout and DPI preference are never lost (WindowsLease), for *)
(* any number of leases, guardians terminated at any step and workers that *)
(* outlive them.                                                           *)
(*                                                                         *)
(* Layout.  A worker of a terminated guardian may enable the display at    *)
(* any later time, so each such worker and the display itself need a       *)
(* snapshot of their own: `Owed' is what the guardian's step needs besides *)
(* the pending workers (`Pending'), and there are always that many         *)
(* snapshots.  The oldest one is the user's, and only the newest is ever   *)
(* deleted.                                                                *)
(*                                                                         *)
(* Preference.  The oldest journal likewise holds a step that counts as     *)
(* the user's (`accepted').                                                *)
(*                                                                         *)
(* Baseline.  Until a recovery fails, no worker outlives its lease, and    *)
(* the newest files lead back to the user's state: `Traceable'.            *)
(***************************************************************************)
EXTENDS WindowsLease, FiniteSetTheorems, SequenceTheorems, TLAPS

-----------------------------------------------------------------------------
(* Types                                                                   *)

PCs == {"none", "inspect", "orphan", "check", "save", "enable", "enabling", "serve",
        "resizing", "reenabling", "cleanup", "recovering"}
Ops == {"capture", "set", "restore", "reset", "resize"}
Steps == Ops \cup {"idle", "apply", "finish"}

Guards == [lease : Nat, pc : PCs, answer : {"none", "ok", "failed"},
           file : Nat, dpiOk : BOOLEAN, target : Modes]
Workers == [lease : Leases, kind : {"enable", "resize", "recover"}, file : Leases,
            stage : {"check", "act", "disable", "layout"}, target : Modes]
Channels == [op : Ops \cup {"none"}, target : Modes, scale : {1, 2},
             request : BOOLEAN, completed : BOOLEAN, ok : BOOLEAN, limited : BOOLEAN]
Helpers == [phase : {"none", "starting", "ready", "waiting"}, plan : Seq(Steps),
            dpi : BOOLEAN, changed : BOOLEAN, ending : BOOLEAN, idle : Modes,
            target : Modes, scale : {1, 2}, left : Nat]

Typed ==
    /\ device \in BOOLEAN /\ layout \in Layouts
    /\ mode \in Modes /\ offered \in Modes /\ step \in Int
    /\ snapshot \in [Leases -> Layouts \cup {"none", "virtual"}]
    /\ journal \in [Leases -> [step : Int, percent : Int]]
    /\ guard \in Guards /\ helper \in Helpers /\ channel \in Channels
    /\ channel.request => channel.op \in Ops
    /\ helper.phase = "waiting" => helper.plan # <<>>
    /\ workers \subseteq Workers /\ IsFiniteSet(workers)
    /\ used \in 0..LeaseCount /\ kills \in 0..MaxKills /\ accepted \subseteq Int

-----------------------------------------------------------------------------
(* Files and processes                                                     *)

Owning == {"enable", "enabling", "serve", "resizing", "reenabling", "cleanup", "recovering"}

Snaps == {n \in Leases : snapshot[n] # "none"}

\* The guardian holds the latest lease; the file it works on is the newest.
FilesOrdered ==
    /\ Snaps \subseteq 1..used
    /\ guard.pc # "none" => guard.lease = used /\ used \in Leases
    /\ guard.pc = "none" <=> guard = NoGuard
    /\ guard.pc \in {"inspect", "orphan", "check", "save"} => snapshot[used] = "none"
    /\ guard.pc \in Owning => guard.file = used
    /\ guard.pc \in Owning \cup {"orphan"} =>
          guard.file \in Snaps /\ \A n \in Snaps : n <= guard.file

\* The guardian's own worker runs only while the guardian waits for it.
OwnKind(pc) ==
    CASE pc \in {"enabling", "reenabling"} -> "enable"
      [] pc = "resizing" -> "resize"
      [] pc \in {"orphan", "recovering"} -> "recover"
      [] OTHER -> "none"

Own == {w \in workers : w.lease = guard.lease}

WorkersKnown ==
    /\ \A w \in workers : w.lease <= used /\ w.file <= used
    /\ \A w, x \in workers : w.lease = x.lease => w = x
    /\ \A w \in workers : w.stage \in IF w.kind = "recover" THEN {"disable", "layout"}
                                                           ELSE {"check", "act"}
    /\ \A w \in Own : /\ guard.answer = "none"
                      /\ w.kind = OwnKind(guard.pc)
                      /\ w.kind = "recover" => w.file = guard.file

FileInv == Typed /\ FilesOrdered /\ WorkersKnown

-----------------------------------------------------------------------------
(* The layout                                                              *)

\* A snapshot that is not the user's has an older one that is.
OldestIsUsers ==
    \A k \in Snaps : snapshot[k] # "user" => \E j \in Snaps : j < k /\ snapshot[j] = "user"

\* Workers, of whatever lease, that have checked and will enable the display.
Pending == {w \in workers : w.kind = "enable" /\ w.stage = "act"}

Enabled1 == IF device THEN 1 ELSE 0

\* Snapshots that are needed besides one for each pending worker.
Owed ==
    CASE guard.pc \in {"none", "inspect", "check", "save"} -> Enabled1
      [] guard.pc = "enable" -> 1 + Enabled1
      [] guard.pc \in {"enabling", "reenabling"} ->
            IF guard.answer # "none" THEN 1
            ELSE IF \E w \in Own : w.stage = "act" THEN Enabled1 ELSE 1 + Enabled1
      [] guard.pc \in {"serve", "cleanup"} -> 1
      [] guard.pc = "resizing" -> IF guard.answer = "ok" THEN 1 + Enabled1 ELSE 1
      [] guard.pc \in {"orphan", "recovering"} ->
            IF guard.answer = "ok" \/ \E w \in Own : w.stage = "layout" THEN 1 + Enabled1 ELSE 1

SnapshotsSuffice == Cardinality(Snaps) >= Cardinality(Pending) + Owed

LayoutInv ==
    /\ OldestIsUsers
    /\ SnapshotsSuffice
    /\ layout # "user" => Snaps # {}
    /\ guard.pc \in {"orphan", "recovering"} /\ guard.answer = "ok" =>
          Cardinality(Snaps) >= 2 \/ layout = "user"

-----------------------------------------------------------------------------
(* The preference                                                          *)

Journals == {n \in Leases : journal[n] # NoJournal}

\* The oldest journal has a step that is accepted for the user's.
JournalInv ==
    /\ step \notin accepted => \E n \in Journals : journal[n].step \in accepted
    /\ \A k \in Journals : journal[k].step \notin accepted =>
          \E j \in Journals : j < k /\ journal[j].step \in accepted

\* A journal outlives no snapshot.
JournalFiles ==
    /\ Journals \subseteq Snaps
    /\ guard.pc \in {"orphan", "recovering"} /\ guard.dpiOk => guard.file \notin Journals

PreferenceInv == JournalInv /\ JournalFiles

-----------------------------------------------------------------------------
(* The baseline: what a lease captures when nothing has been disturbed     *)

Home == ~device /\ layout = "user" /\ step \in accepted

\* The files of lease n lead back to the user's layout and preference.
Kept(n) ==
    /\ snapshot[n] = "user"
    /\ IF journal[n] = NoJournal THEN step \in accepted ELSE journal[n].step \in accepted

\* Only the holder's worker runs, and at each step of the guardian the user's
\* state is there or can be found in the newest files.
Traceable ==
    /\ \A w \in workers : w.lease = guard.lease
    /\ \A n \in Snaps : snapshot[n] = "user"
    /\ guard.pc \in {"none", "inspect"} =>
          Home \/ (device /\ \E n \in Snaps : Kept(n) /\ \A k \in Snaps : k <= n)
    /\ guard.pc \in {"check", "save", "enable"} => Home
    /\ guard.pc \in Owning \ {"recovering"} => Kept(guard.lease)
    /\ guard.pc = "serve" => device
    /\ guard.pc \in {"enabling", "reenabling"} /\ guard.answer = "ok" => device
    /\ guard.pc \in {"orphan", "recovering"} =>
          /\ step \in accepted /\ guard.dpiOk /\ guard.answer # "failed"
          /\ guard.answer = "ok" => Home
          /\ (\E w \in workers : w.stage = "layout") => ~device

BaselineInv == ~disturbed => Traceable

-----------------------------------------------------------------------------
(* Lemmas on the definitions of the model                                  *)

USE LeaseConstants

LEMMA ConcatTyped ==
    \A S : \A s, t \in Seq(S) : s \o t \in Seq(S)
BY ConcatProperties

LEMMA RestoreOpsTyped ==
    ASSUME NEW dpi \in BOOLEAN, NEW changed \in BOOLEAN, NEW release \in BOOLEAN
    PROVE  RestoreOps(dpi, changed, release) \in Seq(Steps)
<1>1. <<>> \in Seq(Steps) /\ <<"reset">> \in Seq(Steps) /\ <<"idle">> \in Seq(Steps)
          /\ <<"restore">> \in Seq(Steps)
  BY DEF Steps, Ops
<1> QED BY <1>1 DEF RestoreOps

LEMMA SessionOpsTyped ==
    ASSUME Typed, NEW m \in Modes, NEW mirror \in BOOLEAN
    PROVE  SessionOps(m, mirror) \in Seq(Steps)
<1>1. /\ <<>> \in Seq(Steps) /\ <<"capture">> \in Seq(Steps) /\ <<"resize">> \in Seq(Steps)
      /\ <<"apply">> \in Seq(Steps) /\ <<"set">> \in Seq(Steps)
  BY DEF Steps, Ops
<1>2. helper.dpi \in BOOLEAN /\ helper.changed \in BOOLEAN
  BY DEF Typed, Helpers
<1> DEFINE changed == helper.changed /\ ~(mirror /\ helper.dpi)
           first == IF mirror THEN (IF helper.dpi THEN RestoreOps(TRUE, helper.changed, TRUE)
                                                  ELSE <<>>)
                              ELSE (IF helper.dpi THEN <<>> ELSE <<"capture">>)
           resize == IF m \in Offered THEN <<>>
                                      ELSE RestoreOps(~mirror, changed, FALSE) \o <<"resize">>
           last == IF mirror THEN <<>> ELSE <<"set">>
<1>3. first \in Seq(Steps) /\ last \in Seq(Steps)
  BY <1>1, <1>2, RestoreOpsTyped
<1>4. RestoreOps(~mirror, changed, FALSE) \in Seq(Steps)
  BY <1>2, RestoreOpsTyped
<1>5. resize \in Seq(Steps)
  BY <1>1, <1>4, ConcatTyped
<1>6. SessionOps(m, mirror) = first \o resize \o <<"apply">> \o last
  BY DEF SessionOps
<1> HIDE DEF first, resize, last
<1>7. first \o resize \in Seq(Steps)
  BY <1>3, <1>5, ConcatTyped
<1>8. first \o resize \o <<"apply">> \in Seq(Steps)
  BY <1>1, <1>7, ConcatTyped
<1> QED BY <1>3, <1>6, <1>8, ConcatTyped

LEMMA EndOpsTyped ==
    ASSUME Typed, NEW h \in Helpers
    PROVE  EndOps(h) \in Seq(Steps)
<1>1. <<"finish">> \in Seq(Steps)
  BY DEF Steps
<1>2. RestoreOps(h.dpi, h.changed, TRUE) \in Seq(Steps)
  BY RestoreOpsTyped DEF Helpers
<1> QED BY ONLY <1>1, <1>2, ConcatTyped DEF EndOps

LEMMA FailingTyped ==
    ASSUME Typed
    PROVE  Failing \in Helpers /\ Failing.phase # "waiting"
<1>1. helper \in Helpers /\ EndOps(helper) \in Seq(Steps) /\ <<>> \in Seq(Steps)
  BY EndOpsTyped DEF Typed
<1>2. NoHelper \in Helpers /\ NoHelper.phase = "none"
  BY <1>1 DEF NoHelper, Helpers
<1> QED BY <1>1, <1>2 DEF Failing, Helpers

Preferences == [step : Int, percent : Int]

LEMMA DpiTyped ==
    ASSUME Typed, NEW n \in Leases, NEW ok \in BOOLEAN, NEW scale \in {1, 2},
           \/ \E retire, source \in BOOLEAN : DpiRestore(n, retire, source, ok)
           \/ DpiCapture(n, ok)
           \/ DpiChange(n, scale, ok)
    PROVE  step' \in Int /\ journal' \in [Leases -> Preferences]
<1>1. journal[n].step \in Int /\ journal[n].percent \in Int /\ Recommended[mode] \in Nat
      /\ NoJournal \in Preferences /\ step \in Int /\ journal \in [Leases -> Preferences]
  BY DEF Typed, Preferences, NoJournal
<1>2. CASE \E retire, source \in BOOLEAN : DpiRestore(n, retire, source, ok)
  BY <1>1, <1>2 DEF DpiRestore, RestoredStep, relative
<1>3. CASE DpiCapture(n, ok)
  <2>1. [step |-> step, percent |-> percent(mode, step)] \in Preferences
    BY <1>1 DEF percent, Preferences
  <2> QED BY <1>1, <1>3, <2>1 DEF DpiCapture
<1>4. CASE DpiChange(n, scale, ok)
  BY <1>1, <1>4 DEF DpiChange, ScaleStep, relative
<1> QED BY <1>2, <1>3, <1>4

NatPairs == {ss \in Nat \X Nat : ss[1] < ss[2]}

LEMMA LessIsWellFounded == IsWellFoundedOn(NatPairs, Nat)
BY NatLessThanWellFounded DEF OpToRel, NatPairs

\* The newest of some leases.
LEMMA NewestExists ==
    ASSUME NEW S, S \subseteq Leases, S # {}
    PROVE  Max(S) \in S /\ \A x \in S : x <= Max(S)
<1> DEFINE T == {y \in Nat : LeaseCount - y \in S}
<1>1. T \subseteq Nat /\ T # {}
  <2>1. PICK x \in S : TRUE
    OBVIOUS
  <2>2. LeaseCount - x \in T
    BY <2>1 DEF Leases
  <2> QED BY <2>2
<1>2. PICK y \in T : \A z \in T : ~(<<z, y>> \in NatPairs)
  <2> HIDE DEF T
  <2> QED BY <1>1, LessIsWellFounded, WFMin, Zenon
<1>3. \A x \in S : x <= LeaseCount - y
  <2> TAKE x \in S
  <2>1. LeaseCount - x \in T
    BY DEF Leases
  <2>2. <<LeaseCount - x, y>> \notin NatPairs
    BY <1>2, <2>1
  <2>3. ~(LeaseCount - x < y)
    BY <1>1, <2>1, <2>2 DEF NatPairs
  <2> QED BY <2>3 DEF Leases
<1>4. LeaseCount - y \in S
  BY <1>2
<1> QED BY <1>3, <1>4 DEF Max

-----------------------------------------------------------------------------
(* Files and processes: every step keeps FileInv                           *)

LEMMA HolderKnown ==
    ASSUME FileInv, guard.pc # "none"
    PROVE  guard.lease \in Leases /\ guard.lease = used
BY DEF FileInv, FilesOrdered

LEMMA GuardsTyped ==
    ASSUME Typed
    PROVE  /\ NoGuard \in Guards
           /\ \A pc \in PCs : Goto(pc) \in Guards
BY DEF Typed, Guards, NoGuard, Goto, PCs

LEMMA LaunchTyped ==
    ASSUME Typed, guard.lease \in Leases, NEW kind \in {"enable", "resize", "recover"},
           NEW file \in Leases, NEW target \in Modes, Launch(kind, file, target)
    PROVE  workers' \subseteq Workers /\ IsFiniteSet(workers')
<1> DEFINE w == [lease |-> guard.lease, kind |-> kind, file |-> file,
                 stage |-> IF kind = "recover" THEN "disable" ELSE "check", target |-> target]
<1>1. w \in Workers
  BY DEF Workers
<1>2. workers' = workers \cup {w}
  BY DEF Launch
<1> HIDE DEF w
<1> QED BY <1>1, <1>2, FS_AddElement DEF Typed

\* The helper's own steps.
LEMMA HelperTyped ==
    ASSUME Typed,
           Request \/ InputEnds \/ HelperActs \/ Command \/ Answered \/ TimedOut \/ HelperDies
    PROVE  Typed'
<1> USE DEF Typed, vars, windowsVars, fileVars, recordVars
<1>1. /\ helper \in Helpers /\ channel \in Channels /\ Failing \in Helpers
      /\ Failing.phase # "waiting"
      /\ helper.plan # <<>> => Head(helper.plan) \in Steps /\ Tail(helper.plan) \in Seq(Steps)
  <2>1. helper \in Helpers /\ channel \in Channels
    OBVIOUS
  <2>2. Failing \in Helpers /\ Failing.phase # "waiting"
    BY FailingTyped
  <2>3. helper.plan \in Seq(Steps)
    BY ONLY <2>1 DEF Helpers
  <2>4. helper.plan # <<>> => Head(helper.plan) \in Steps /\ Tail(helper.plan) \in Seq(Steps)
    BY ONLY <2>3
  <2> QED BY ONLY <2>1, <2>2, <2>4
<1>2. CASE Request
  <2>1. RestoreOps(helper.dpi, helper.changed, TRUE) \in Seq(Steps)
    BY <1>1, RestoreOpsTyped DEF Helpers
  <2>2. \A m \in Modes, mirror \in BOOLEAN : SessionOps(m, mirror) \in Seq(Steps)
    BY SessionOpsTyped
  <2>3. CASE helper' = [helper EXCEPT !.plan = RestoreOps(helper.dpi, helper.changed, TRUE),
                                      !.left = @ - 1, !.ending = FALSE]
    <3>1. helper' \in Helpers
      <4>1. helper.left - 1 \in Nat
        <5>1. helper.left \in Nat
          BY ONLY <1>1 DEF Helpers
        <5>2. helper.left > 0
          BY ONLY <1>2 DEF Request
        <5> QED BY ONLY <5>1, <5>2
      <4> QED BY ONLY <4>1, <1>1, <2>1, <2>3 DEF Helpers
    <3>2. helper'.phase = "ready"
      BY <1>2, <2>3 DEF Request, Helpers
    <3> QED BY <1>2, <3>1, <3>2 DEF Request
  <2>4. CASE \E m \in Modes, mirror \in BOOLEAN, scale \in {1, 2} :
               helper' = [helper EXCEPT !.plan = SessionOps(m, mirror), !.left = @ - 1,
                                        !.target = m, !.scale = scale, !.ending = TRUE]
    <3>1. PICK m \in Modes, mirror \in BOOLEAN, scale \in {1, 2} :
               helper' = [helper EXCEPT !.plan = SessionOps(m, mirror), !.left = @ - 1,
                                        !.target = m, !.scale = scale, !.ending = TRUE]
      BY <2>4
    <3>2. SessionOps(m, mirror) \in Seq(Steps)
      BY <2>2
    <3>3. helper' \in Helpers
      <4>1. helper.left - 1 \in Nat
        <5>1. helper.left \in Nat
          BY ONLY <1>1 DEF Helpers
        <5>2. helper.left > 0
          BY ONLY <1>2 DEF Request
        <5> QED BY ONLY <5>1, <5>2
      <4> QED BY ONLY <4>1, <1>1, <3>1, <3>2 DEF Helpers
    <3>4. helper'.phase = "ready"
      BY <1>2, <3>1 DEF Request, Helpers
    <3> QED BY <1>2, <3>3, <3>4 DEF Request
  <2> QED BY <1>2, <2>3, <2>4 DEF Request
<1>3. CASE InputEnds
  <2>1. helper' \in Helpers
    BY <1>1, <1>3, EndOpsTyped DEF InputEnds, Helpers
  <2> QED BY <1>3, <2>1 DEF InputEnds
<1>4. CASE HelperActs
  <2>1. NoHelper \in Helpers /\ NoHelper.phase = "none"
    BY DEF NoHelper, Helpers
  <2> DEFINE next == [helper EXCEPT !.plan = Tail(@), !.changed = Head(helper.plan) = "apply"]
  <2>2. next \in Helpers /\ next.phase = helper.phase
    BY <1>1, <1>4 DEF HelperActs, Helpers
  <2>3. /\ helper' \in {NoHelper, Failing, next} /\ helper.phase = "ready"
        /\ mode' \in {mode, helper.idle, helper.target}
    BY <1>4 DEF HelperActs
  <2> HIDE DEF next
  <2>4. helper' \in Helpers /\ helper'.phase # "waiting" /\ mode' \in Modes
    BY <1>1, <2>1, <2>2, <2>3 DEF Helpers
  <2> QED BY <1>4, <2>4 DEF HelperActs
<1>5. CASE Command
  <2>1. Head(helper.plan) \in Ops
    BY <1>1, <1>5 DEF Command, Steps
  <2>2. helper' \in Helpers /\ channel' \in Channels /\ channel'.op \in Ops
    BY <1>1, <1>5, <2>1 DEF Command, Helpers, Channels
  <2> QED BY <1>5, <2>2 DEF Command
<1>6. CASE Answered
  <2>1. channel' \in Channels /\ channel'.request = channel.request /\ channel'.op = channel.op
    BY <1>1, <1>6 DEF Answered, Channels
  <2>2. helper' \in Helpers /\ helper'.phase # "waiting"
    <3>1. CASE helper' = Failing
      BY <1>1, <3>1
    <3>2. CASE helper' = Succeeded /\ helper.plan # <<>>
      <4>1. Tail(helper.plan) \in Seq(Steps)
        BY <1>1, <3>2
      <4> QED BY ONLY <1>1, <3>2, <4>1 DEF Succeeded, Helpers
    <3>3. CASE helper' = [helper EXCEPT !.phase = "ready", !.scale = 1]
      BY ONLY <1>1, <3>3 DEF Helpers
    <3> QED BY <1>6, <3>1, <3>2, <3>3 DEF Answered
  <2> QED BY <1>6, <2>1, <2>2 DEF Answered
<1>7. CASE TimedOut
  BY <1>1, <1>7 DEF TimedOut
<1>8. CASE HelperDies
  <2>1. NoHelper \in Helpers /\ NoHelper.phase = "none"
    BY DEF NoHelper, Helpers
  <2> QED BY <1>8, <2>1 DEF HelperDies
<1> QED BY <1>2, <1>3, <1>4, <1>5, <1>6, <1>7, <1>8

LEMMA GuardianTyped ==
    ASSUME FileInv, Guardian
    PROVE  Typed'
<1> USE DEF vars, windowsVars, fileVars, recordVars
<1>1. Typed /\ FilesOrdered
  BY DEF FileInv
<1>2. /\ guard \in Guards /\ channel \in Channels /\ helper \in Helpers
      /\ NoGuard \in Guards /\ \A pc \in PCs : Goto(pc) \in Guards
      /\ StartMode \in Modes
  BY <1>1, GuardsTyped DEF Typed
<1>3. guard.pc # "none" => guard.lease \in Leases
  BY HolderKnown
<1>4. \A ok \in BOOLEAN : Completed(ok) \in Channels /\ ~Completed(ok).request
  BY <1>2 DEF Completed, Channels
<1>5. CASE Inspect
  <2>1. Max(Orphans) \in Leases \/ Orphans = {}
    <3>1. Orphans \subseteq Leases
      BY DEF Orphans
    <3> QED BY <3>1, NewestExists
  <2>2. CASE device /\ Orphans # {}
    <3>1. PICK ok \in BOOLEAN :
            /\ DpiRestore(Max(Orphans), TRUE, TRUE, ok)
            /\ Launch("recover", Max(Orphans), StartMode)
            /\ guard' = [Goto("orphan") EXCEPT !.file = Max(Orphans), !.dpiOk = ok]
      BY <1>5, <2>2 DEF Inspect, OrphanDpi
    <3>2. step' \in Int /\ journal' \in [Leases -> Preferences]
      BY <1>1, <2>1, <2>2, <3>1, DpiTyped
    <3>3. workers' \subseteq Workers /\ IsFiniteSet(workers')
      <4>1. guard.pc # "none"
        BY <1>5 DEF Inspect
      <4> QED BY <1>1, <1>2, <1>3, <2>1, <2>2, <3>1, <4>1, LaunchTyped
    <3>4. guard' \in Guards
      <4>1. Goto("orphan") \in Guards
        BY <1>2 DEF PCs
      <4>2. Max(Orphans) \in Nat
        BY <2>1, <2>2 DEF Leases
      <4> QED BY ONLY <3>1, <4>1, <4>2 DEF Guards
    <3> QED BY <1>1, <1>5, <3>2, <3>3, <3>4 DEF Typed, Inspect, Preferences
  <2>3. CASE ~(device /\ Orphans # {})
    <3>1. guard' \in Guards
      BY <1>2, <1>5, <2>3 DEF Inspect, PCs
    <3> QED BY <1>1, <1>5, <2>3, <3>1 DEF Typed, Inspect
  <2> QED BY <2>2, <2>3
<1>6. CASE OrphanRecovered \/ Finish
  <2>1. guard' \in Guards
    <3>1. Goto("check") \in Guards
      BY <1>2 DEF PCs
    <3>2. [Goto("check") EXCEPT !.dpiOk = TRUE] \in Guards
      BY <3>1 DEF Guards
    <3> QED BY <1>2, <1>6, <3>2 DEF OrphanRecovered, Finish, Retire
  <2>2. snapshot' \in [Leases -> Layouts \cup {"none", "virtual"}]
    BY <1>1, <1>6 DEF Typed, OrphanRecovered, Finish, Retire
  <2> QED BY <1>1, <1>6, <2>1, <2>2 DEF Typed, OrphanRecovered, Finish, Retire
<1>7. CASE Check
  BY <1>1, <1>2, <1>7 DEF Typed, Check, PCs
<1>8. CASE Save
  <2>1. guard' \in Guards
    <3>1. Goto("enable") \in Guards /\ guard.lease \in Nat
      BY <1>2 DEF PCs, Guards
    <3> QED BY <1>8, <3>1 DEF Save, Guards
  <2>2. snapshot' \in [Leases -> Layouts \cup {"none", "virtual"}]
    BY <1>1, <1>8 DEF Typed, Save
  <2> QED BY <1>1, <1>8, <2>1, <2>2 DEF Typed, Save
<1>9. CASE Enable
  <2>1. guard' \in Guards
    BY <1>2, <1>9 DEF Enable, PCs
  <2>2. guard.lease \in Leases
    BY <1>3, <1>9 DEF Enable
  <2>3. workers' \subseteq Workers /\ IsFiniteSet(workers')
    BY <1>1, <1>2, <1>9, <2>2, LaunchTyped DEF Enable, Typed
  <2> QED BY <1>1, <1>9, <2>1, <2>3 DEF Typed, Enable
<1>10. CASE Enabled
  <2>1. guard' \in Guards
    BY <1>2, <1>10 DEF Enabled, PCs
  <2>2. helper' \in Helpers /\ (helper' = helper \/ helper'.phase = "ready")
    <3>1. [helper EXCEPT !.phase = "ready", !.idle = mode] \in Helpers
      BY <1>1, <1>2 DEF Helpers, Typed
    <3>2. [helper EXCEPT !.phase = "ready", !.idle = mode].phase = "ready"
      BY <1>2 DEF Helpers
    <3> QED BY <1>2, <1>10, <3>1, <3>2 DEF Enabled
  <2> QED BY <1>1, <1>10, <2>1, <2>2 DEF Typed, Enabled
<1>11. CASE ServeDpi
  <2>1. PICK ok \in BOOLEAN :
          /\ CASE channel.op = "capture" -> DpiCapture(guard.lease, ok)
               [] channel.op = "set" -> DpiChange(guard.lease, channel.scale, ok)
               [] channel.op = "restore" -> DpiRestore(guard.lease, TRUE, FALSE, ok)
               [] channel.op = "reset" -> DpiRestore(guard.lease, FALSE, TRUE, ok)
          /\ Accept(guard.lease, ok /\ channel.op = "restore")
          /\ channel' = [Completed(ok) EXCEPT !.limited =
                  ~ok /\ channel.op = "set" /\ Unsupported(guard.lease, channel.scale)]
    BY <1>11 DEF ServeDpi
  <2>2. channel.op \in {"capture", "set", "restore", "reset"} /\ channel.scale \in {1, 2}
    BY <1>1, <1>2, <1>11 DEF ServeDpi, Typed, Ops, Channels
  <2>3. \/ DpiCapture(guard.lease, ok)
        \/ DpiChange(guard.lease, channel.scale, ok)
        \/ DpiRestore(guard.lease, TRUE, FALSE, ok)
        \/ DpiRestore(guard.lease, FALSE, TRUE, ok)
    BY <2>1, <2>2
  <2>4. guard.lease \in Leases
    BY <1>3, <1>11 DEF ServeDpi
  <2>5. step' \in Int /\ journal' \in [Leases -> Preferences]
    BY <1>1, <2>2, <2>3, <2>4, DpiTyped
  <2>6. channel' \in Channels /\ ~channel'.request
    <3>1. (~ok /\ channel.op = "set" /\ Unsupported(guard.lease, channel.scale)) \in BOOLEAN
      BY DEF Unsupported
    <3>2. Completed(ok) \in Channels /\ ~Completed(ok).request
      BY <1>4
    <3> QED BY ONLY <2>1, <3>1, <3>2 DEF Channels
  <2>7. accepted' \subseteq Int
    <3>1. RestoredStep(guard.lease, FALSE) \in Int
      BY <1>1, <2>4 DEF RestoredStep, relative, Typed
    <3> QED BY <1>1, <2>1, <3>1 DEF Accept, Typed
  <2> QED BY <1>1, <1>11, <2>5, <2>6, <2>7 DEF Typed, ServeDpi, Preferences
<1>12. CASE ServeResize
  <2>1. PICK ok \in BOOLEAN :
          /\ DpiRestore(guard.lease, FALSE, TRUE, ok)
          /\ IF ok
             THEN /\ Launch("resize", guard.lease, channel.target)
                  /\ guard' = Goto("resizing")
                  /\ channel' = [channel EXCEPT !.request = FALSE]
             ELSE guard' = Goto("cleanup") /\ channel' = Completed(FALSE) /\ UNCHANGED workers
    BY <1>12 DEF ServeResize
  <2>2. guard.lease \in Leases
    BY <1>3, <1>12 DEF ServeResize
  <2>3. step' \in Int /\ journal' \in [Leases -> Preferences]
    BY <1>1, <2>1, <2>2, DpiTyped
  <2>4. workers' \subseteq Workers /\ IsFiniteSet(workers')
    BY <1>1, <1>2, <2>1, <2>2, LaunchTyped DEF Typed, Channels
  <2>5. guard' \in Guards
    BY <1>2, <2>1 DEF PCs
  <2>6. channel' \in Channels /\ ~channel'.request
    BY <1>2, <1>4, <2>1 DEF Channels
  <2> QED BY <1>1, <1>12, <2>3, <2>4, <2>5, <2>6 DEF Typed, ServeResize, Preferences
<1>13. CASE Resized
  <2>1. guard' \in Guards
    BY <1>2, <1>13 DEF Resized, PCs
  <2>2. guard.lease \in Leases
    BY <1>3, <1>13 DEF Resized
  <2>3. workers' \subseteq Workers /\ IsFiniteSet(workers')
    BY <1>1, <1>2, <1>13, <2>2, LaunchTyped DEF Resized, Typed
  <2>4. channel' \in Channels /\ channel'.request = channel.request /\ channel'.op = channel.op
    BY <1>2, <1>13 DEF Resized, Channels
  <2> QED BY <1>1, <1>13, <2>1, <2>3, <2>4 DEF Typed, Resized
<1>14. CASE Reenabled
  <2>1. guard' \in Guards
    BY <1>2, <1>14 DEF Reenabled, PCs
  <2>2. channel' \in Channels /\ channel'.request = channel.request /\ channel'.op = channel.op
    BY <1>2, <1>14 DEF Reenabled, Channels
  <2> QED BY <1>1, <1>14, <2>1, <2>2 DEF Typed, Reenabled
<1>15. CASE Release
  BY <1>1, <1>2, <1>15 DEF Typed, Release, PCs
<1>16. CASE Cleanup
  <2>1. PICK ok \in BOOLEAN :
          /\ DpiRestore(guard.lease, TRUE, TRUE, ok)
          /\ guard' = [Goto("recovering") EXCEPT !.dpiOk = ok]
    BY <1>16 DEF Cleanup
  <2>2. guard.lease \in Leases
    BY <1>3, <1>16 DEF Cleanup
  <2>3. step' \in Int /\ journal' \in [Leases -> Preferences]
    BY <1>1, <2>1, <2>2, DpiTyped
  <2>4. workers' \subseteq Workers /\ IsFiniteSet(workers')
    BY <1>1, <1>2, <1>16, <2>2, LaunchTyped DEF Cleanup
  <2>5. guard' \in Guards
    <3>1. Goto("recovering") \in Guards
      BY <1>2 DEF PCs
    <3> QED BY <2>1, <3>1 DEF Guards
  <2> QED BY <1>1, <1>16, <2>3, <2>4, <2>5 DEF Typed, Cleanup, Preferences
<1> QED BY <1>5, <1>6, <1>7, <1>8, <1>9, <1>10, <1>11, <1>12, <1>13, <1>14, <1>15, <1>16
        DEF Guardian

\* What a worker does to itself and to the answer the guardian waits for.
LEMMA ExitTyped ==
    ASSUME Typed, NEW w \in workers, NEW answer \in {"ok", "failed"}, Exit(w, answer)
    PROVE  guard' \in Guards /\ workers' \subseteq Workers /\ IsFiniteSet(workers')
<1>1. guard' \in Guards
  BY DEF Typed, Guards, Exit
<1>2. workers' \subseteq Workers /\ IsFiniteSet(workers')
  BY FS_RemoveElement DEF Typed, Exit
<1> QED BY <1>1, <1>2

LEMMA ProceedTyped ==
    ASSUME Typed, NEW w \in workers, NEW stage \in {"act", "layout"}, Proceed(w, stage)
    PROVE  guard' \in Guards /\ workers' \subseteq Workers /\ IsFiniteSet(workers')
<1>1. w \in Workers /\ [w EXCEPT !.stage = stage] \in Workers
  BY DEF Typed, Workers
<1>2. workers' = (workers \ {w}) \cup {[w EXCEPT !.stage = stage]} /\ guard' = guard
  BY DEF Proceed
<1>3. IsFiniteSet(workers \ {w}) /\ workers \subseteq Workers
  BY FS_RemoveElement DEF Typed
<1>4. IsFiniteSet(workers')
  BY <1>2, <1>3, FS_AddElement
<1> QED BY <1>1, <1>2, <1>3, <1>4 DEF Typed

LEMMA WorkerTyped ==
    ASSUME FileInv, NEW w \in workers, Worker(w)
    PROVE  Typed'
<1> USE DEF rest, windowsVars, fileVars, recordVars
<1>1. Typed /\ w \in Workers
  BY DEF FileInv, Typed
<1>2. /\ \A answer \in {"ok", "failed"} : Exit(w, answer) =>
            guard' \in Guards /\ workers' \subseteq Workers /\ IsFiniteSet(workers')
      /\ \A stage \in {"act", "layout"} : Proceed(w, stage) =>
            guard' \in Guards /\ workers' \subseteq Workers /\ IsFiniteSet(workers')
  BY <1>1, ExitTyped, ProceedTyped
<1>3. guard' \in Guards /\ workers' \subseteq Workers /\ IsFiniteSet(workers')
  BY <1>2 DEF Worker, WorkerChecks, WorkerEnables, WorkerResizes, WorkerDisables,
              WorkerRestores, WorkerFails, Answers
<1>4. device' \in BOOLEAN /\ layout' \in Layouts /\ mode' \in Modes /\ offered' \in Modes
  BY <1>1 DEF Typed, Workers, Layouts, Worker, WorkerChecks, WorkerEnables, WorkerResizes,
              WorkerDisables, WorkerRestores, WorkerFails, Rearranged
<1>5. UNCHANGED <<step, snapshot, journal, channel, helper, used, kills, accepted>>
  BY DEF Worker, WorkerChecks, WorkerEnables, WorkerResizes, WorkerDisables, WorkerRestores,
         WorkerFails
<1> QED BY <1>1, <1>3, <1>4, <1>5 DEF Typed

LEMMA TypedKept ==
    ASSUME FileInv, [Next]_vars
    PROVE  Typed'
<1> USE DEF vars, windowsVars, fileVars, recordVars
<1>1. Typed
  BY DEF FileInv
<1>2. CASE Acquire
  <2>1. guard' \in Guards
    <3>1. NoGuard \in Guards /\ used + 1 \in Nat /\ "inspect" \in PCs
      BY <1>1, GuardsTyped DEF Typed, PCs
    <3>2. guard' = [NoGuard EXCEPT !.lease = used + 1, !.pc = "inspect"]
      BY <1>2 DEF Acquire
    <3> QED BY ONLY <3>1, <3>2 DEF Guards
  <2>2. helper' \in Helpers /\ helper'.phase = "starting"
    <3>1. NoHelper \in Helpers
      BY DEF NoHelper, Helpers
    <3>2. helper' = [NoHelper EXCEPT !.phase = "starting", !.left = MaxRequests]
      BY <1>2 DEF Acquire
    <3>3. MaxRequests \in Nat
      OBVIOUS
    <3> QED BY ONLY <3>1, <3>2, <3>3 DEF Helpers
  <2>3. channel' \in Channels /\ ~channel'.request
    BY <1>2 DEF Acquire, Channels, Quiet
  <2>4. used \in 0..LeaseCount /\ used < LeaseCount /\ used' = used + 1
    BY <1>1, <1>2 DEF Acquire, Typed
  <2>5. used' \in 0..LeaseCount
    BY ONLY <2>4, LeaseConstants DEF LeaseConstants
  <2>6. UNCHANGED <<windowsVars, fileVars, workers, kills, accepted>>
    BY <1>2 DEF Acquire
  <2>7. helper'.phase # "waiting"
    BY <2>2
  <2> QED BY ONLY <1>1, <2>1, <2>2, <2>3, <2>5, <2>6, <2>7
          DEF Typed, windowsVars, fileVars
<1>3. CASE Killed
  <2>1. IsFiniteSet({})
    BY FS_EmptySet
  <2> QED BY <1>1, <1>3, <2>1, GuardsTyped DEF Killed, Typed
<1>4. CASE UNCHANGED vars
  BY <1>1, <1>4 DEF Typed
<1> QED BY <1>1, <1>2, <1>3, <1>4, GuardianTyped, WorkerTyped, HelperTyped DEF Next

LEMMA GotoIs ==
    ASSUME Typed, NEW pc \in PCs
    PROVE  /\ Goto(pc).pc = pc /\ Goto(pc).lease = guard.lease
           /\ Goto(pc).file = guard.file /\ Goto(pc).dpiOk = guard.dpiOk
           /\ Goto(pc).answer = "none"
BY DEF Typed, Guards, Goto

\* A guardian that has a pc is not NoGuard.
LEMMA FilesKept ==
    ASSUME FileInv, [Next]_vars
    PROVE  FilesOrdered'
<1> USE DEF vars, windowsVars, fileVars, recordVars
<1>1. /\ Typed /\ FilesOrdered /\ Typed'
      /\ guard \in Guards /\ used \in Nat /\ NoGuard.pc = "none" /\ NoGuard.lease = 0
      /\ \A pc \in PCs : Goto(pc) # NoGuard \/ pc = "none"
  <2>1. \A pc \in PCs : Goto(pc).pc = pc
    BY GotoIs DEF FileInv
  <2>2. NoGuard.pc = "none" /\ NoGuard.lease = 0
    BY DEF NoGuard
  <2>3. Typed /\ FilesOrdered /\ Typed'
    BY TypedKept DEF FileInv
  <2>4. guard \in Guards /\ used \in Nat
    BY <2>3 DEF Typed
  <2> QED BY ONLY <2>1, <2>2, <2>3, <2>4
<1>2. \A pc \in PCs : /\ Goto(pc).pc = pc /\ Goto(pc).lease = guard.lease
                      /\ Goto(pc).file = guard.file
  BY <1>1, GotoIs
<1>3. CASE Acquire
  <2>1. /\ guard' = [NoGuard EXCEPT !.lease = used + 1, !.pc = "inspect"]
        /\ used' = used + 1 /\ used' \in Leases /\ snapshot' = snapshot
    BY <1>1, <1>3 DEF Acquire, Leases
  <2>2. guard'.lease = used' /\ guard'.pc = "inspect" /\ guard' # NoGuard
    BY <1>1, <2>1 DEF NoGuard
  <2>3. Snaps' = Snaps /\ used + 1 \notin Snaps
    BY <1>1, <2>1 DEF Snaps, FilesOrdered
  <2> QED BY <1>1, <2>1, <2>2, <2>3 DEF FilesOrdered, Snaps, Owning
<1>4. CASE Killed
  <2>1. guard' = NoGuard /\ snapshot' = snapshot /\ used' = used
    BY <1>4 DEF Killed
  <2> QED BY <1>1, <2>1 DEF FilesOrdered, Snaps, Owning
\* Steps that leave the files, and go on within the same part.
<1>5. ASSUME UNCHANGED <<snapshot, used>>,
             guard'.lease = guard.lease, guard'.pc # "none", guard.pc # "none",
             \/ guard.pc \in Owning /\ guard'.pc \in Owning /\ guard'.file = guard.file
             \/ /\ guard.pc \in {"inspect", "orphan", "check", "save"}
                /\ guard'.pc \in {"inspect", "check", "save"}
             \/ guard' = [guard EXCEPT !.answer = guard'.answer]
      PROVE  FilesOrdered'
  <2>1. guard' # NoGuard
    BY <1>1, <1>5
  <2>2. \/ guard.pc \in Owning /\ guard'.pc \in Owning /\ guard'.file = guard.file
        \/ /\ guard.pc \in {"inspect", "orphan", "check", "save"}
           /\ guard'.pc \in {"inspect", "check", "save"}
        \/ guard.pc = guard'.pc /\ guard'.file = guard.file
    BY <1>1, <1>5 DEF Guards
  <2> QED BY <1>1, <1>5, <2>1, <2>2 DEF FilesOrdered, Snaps, Owning
<1>6. CASE UNCHANGED <<snapshot, used, guard>>
  BY <1>1, <1>6 DEF FilesOrdered, Snaps
<1>7. CASE Inspect
  <2>1. guard.pc = "inspect" /\ UNCHANGED <<snapshot, used>>
    BY <1>7 DEF Inspect
  <2>2. CASE device /\ Orphans # {}
    <3>1. PICK ok \in BOOLEAN :
            guard' = [Goto("orphan") EXCEPT !.file = Max(Orphans), !.dpiOk = ok]
      BY <1>7, <2>2 DEF Inspect
    <3>2. Max(Orphans) \in Orphans /\ \A n \in Orphans : n <= Max(Orphans)
      <4>1. Orphans \subseteq Leases
        BY DEF Orphans
      <4> QED BY <2>2, <4>1, NewestExists
    <3>3. snapshot[guard.lease] = "none" /\ Orphans = Snaps
      BY <1>1, <2>1 DEF FilesOrdered, Orphans, Snaps
    <3>4. guard'.pc = "orphan" /\ guard'.lease = guard.lease /\ guard'.file = Max(Orphans)
      <4>1. Goto("orphan") \in Guards
        BY <1>1, GuardsTyped DEF PCs
      <4> QED BY <1>2, <3>1, <4>1 DEF Guards, PCs
    <3>5. guard' # NoGuard
      BY <1>1, <3>4
    <3> QED BY <1>1, <2>1, <3>2, <3>3, <3>4, <3>5 DEF FilesOrdered, Snaps, Owning
  <2>3. CASE ~(device /\ Orphans # {})
    <3>1. guard' = Goto("check")
      BY <1>7, <2>3 DEF Inspect
    <3> QED BY <1>2, <1>5, <2>1, <3>1 DEF PCs
  <2> QED BY <2>2, <2>3
<1>8. CASE OrphanRecovered
  <2>1. /\ guard.pc = "orphan" /\ UNCHANGED used
        /\ snapshot' = IF Recovered THEN [snapshot EXCEPT ![guard.file] = "none"] ELSE snapshot
        /\ guard' = [Goto("check") EXCEPT !.dpiOk = TRUE]
    BY <1>8 DEF OrphanRecovered, Retire
  <2>2. guard'.pc = "check" /\ guard'.lease = guard.lease /\ guard' # NoGuard
    <3>1. Goto("check") \in Guards
      BY <1>1, GuardsTyped DEF PCs
    <3> QED BY <1>1, <1>2, <2>1, <3>1 DEF Guards, PCs
  <2>3. Snaps' \subseteq Snaps
    BY <1>1, <2>1 DEF Snaps, Typed
  <2> QED BY <1>1, <2>1, <2>2, <2>3 DEF FilesOrdered, Snaps, Owning
<1>9. CASE Finish
  <2>1. /\ guard' = NoGuard /\ UNCHANGED used
        /\ snapshot' = IF Recovered THEN [snapshot EXCEPT ![guard.file] = "none"] ELSE snapshot
    BY <1>9 DEF Finish, Retire
  <2>2. Snaps' \subseteq Snaps
    BY <1>1, <2>1 DEF Snaps, Typed
  <2> QED BY <1>1, <2>1, <2>2 DEF FilesOrdered, Snaps, Owning
<1>10. CASE Check
  <2>1. CASE device
    BY <1>1, <1>10, <2>1 DEF Check, FilesOrdered, Snaps, Owning
  <2>2. CASE ~device
    BY <1>2, <1>5, <1>10, <2>2 DEF Check, PCs
  <2> QED BY <2>1, <2>2
<1>11. CASE Save
  <2>1. /\ guard.pc = "save" /\ UNCHANGED used /\ guard.lease = used /\ used \in Leases
        /\ guard' = [Goto("enable") EXCEPT !.file = guard.lease]
        /\ snapshot' = [snapshot EXCEPT ![used] = IF device THEN "virtual" ELSE layout]
    BY <1>1, <1>11 DEF Save, FilesOrdered
  <2>2. guard'.pc = "enable" /\ guard'.lease = used /\ guard'.file = used /\ guard' # NoGuard
    <3>1. Goto("enable") \in Guards
      BY <1>1, GuardsTyped DEF PCs
    <3> QED BY <1>1, <1>2, <2>1, <3>1 DEF Guards, PCs
  <2>3. Snaps' = Snaps \cup {used}
    BY <1>1, <2>1 DEF Snaps, Typed, Layouts
  <2>4. Snaps \subseteq 1..used
    BY <1>1 DEF FilesOrdered
  <2>5. guard'.file \in Snaps' /\ \A n \in Snaps' : n <= guard'.file
    <3>1. used \in Nat
      BY <1>1
    <3>2. \A n \in Snaps : n <= used
      BY ONLY <2>4, <3>1
    <3> QED BY ONLY <2>2, <2>3, <3>1, <3>2
  <2>6. Snaps' \subseteq 1..used
    BY ONLY <1>1, <2>1, <2>3, <2>4 DEF Leases
  <2> QED BY ONLY <1>1, <2>1, <2>2, <2>5, <2>6 DEF FilesOrdered, Owning
\* From one step with a snapshot to the next.
<1>12. CASE Enable \/ Enabled \/ ServeDpi \/ ServeResize \/ Resized \/ Reenabled \/ Release
  <2>1. /\ UNCHANGED <<snapshot, used>> /\ guard.pc \in Owning
        /\ guard' = guard \/ \E pc \in Owning : guard' = Goto(pc)
    BY <1>12 DEF Enable, Enabled, ServeDpi, ServeResize, Resized, Reenabled, Release, Owning
  <2> QED BY <1>1, <1>2, <1>5, <1>6, <2>1 DEF PCs, Owning
<1>13. CASE Cleanup
  <2>1. PICK ok \in BOOLEAN : guard' = [Goto("recovering") EXCEPT !.dpiOk = ok]
    BY <1>13 DEF Cleanup
  <2>2. guard'.pc = "recovering" /\ guard'.lease = guard.lease /\ guard'.file = guard.file
    <3>1. Goto("recovering") \in Guards
      BY <1>1, GuardsTyped DEF PCs
    <3> QED BY <1>2, <2>1, <3>1 DEF Guards, PCs
  <2> QED BY <1>5, <1>13, <2>2 DEF Cleanup, Owning
<1>14. ASSUME NEW w \in workers, Worker(w) PROVE FilesOrdered'
  <2>1. UNCHANGED <<snapshot, used>>
    BY <1>14 DEF Worker, WorkerChecks, WorkerEnables, WorkerResizes, WorkerDisables,
                 WorkerRestores, WorkerFails, rest
  <2>2. guard' = guard \/ \E answer \in {"ok", "failed"} : Exit(w, answer)
    BY <1>14 DEF Worker, WorkerChecks, WorkerEnables, WorkerResizes, WorkerDisables,
                 WorkerRestores, WorkerFails, Proceed, Answers
  <2>3. CASE guard' = guard
    BY <1>6, <2>1, <2>3
  <2>4. CASE guard' # guard
    <3>1. PICK answer \in {"ok", "failed"} : Exit(w, answer)
      BY <2>2, <2>4
    <3>2. guard.lease = w.lease /\ guard' = [guard EXCEPT !.answer = answer]
      BY <2>4, <3>1 DEF Exit
    <3>3. w.lease \in Leases
      BY <1>1 DEF Typed, Workers
    <3>4. guard.pc # "none"
      BY <1>1, <3>2, <3>3 DEF FilesOrdered, NoGuard, Leases
    <3>5. /\ guard'.lease = guard.lease /\ guard'.pc = guard.pc
          /\ guard' = [guard EXCEPT !.answer = guard'.answer]
      BY <1>1, <3>2 DEF Guards
    <3> QED BY <1>5, <2>1, <3>4, <3>5
  <2> QED BY <2>3, <2>4
<1>15. CASE Request \/ InputEnds \/ HelperActs \/ Command \/ Answered \/ TimedOut \/ HelperDies
  BY <1>6, <1>15 DEF Request, InputEnds, HelperActs, Command, Answered, TimedOut, HelperDies
<1> QED BY <1>3, <1>4, <1>6, <1>7, <1>8, <1>9, <1>10, <1>11, <1>12, <1>13, <1>14, <1>15
        DEF Next, Guardian

\* The guardian only waits for a worker in the steps that have launched one.
LEMMA NoOwnWorker ==
    ASSUME FileInv,
           guard.answer # "none" \/ guard.pc \notin {"enabling", "reenabling", "resizing",
                                                     "orphan", "recovering"}
    PROVE  Own = {}
BY DEF FileInv, WorkersKnown, OwnKind, Typed, Workers, Own

\* A guardian that has no worker launches one, and waits for it.
LEMMA LaunchKnown ==
    ASSUME FileInv, Own = {}, guard.pc # "none", UNCHANGED used,
           NEW kind \in {"enable", "resize", "recover"}, NEW file \in 1..used,
           NEW target, Launch(kind, file, target),
           guard'.lease = guard.lease, guard'.answer = "none",
           OwnKind(guard'.pc) = kind, kind = "recover" => guard'.file = file
    PROVE  WorkersKnown'
<1> DEFINE new == [lease |-> guard.lease, kind |-> kind, file |-> file,
                   stage |-> IF kind = "recover" THEN "disable" ELSE "check", target |-> target]
<1>1. /\ new.lease = guard.lease /\ new.kind = kind /\ new.file = file
      /\ new.stage \in IF kind = "recover" THEN {"disable", "layout"} ELSE {"check", "act"}
  OBVIOUS
<1>2. workers' = workers \cup {new}
  BY DEF Launch
<1> HIDE DEF new
<1>3. guard.lease = used /\ \A w \in workers : w.lease # guard.lease
  BY HolderKnown DEF Own
<1>4. used \in Nat
  BY DEF FileInv, Typed
<1>5. \A w, x \in workers' : w.lease = x.lease => w = x
  BY <1>1, <1>2, <1>3 DEF FileInv, WorkersKnown
<1>6. \A w \in workers' : /\ w.lease <= used' /\ w.file <= used'
                          /\ w.stage \in IF w.kind = "recover" THEN {"disable", "layout"}
                                                               ELSE {"check", "act"}
  BY <1>1, <1>2, <1>3, <1>4 DEF FileInv, WorkersKnown
<1>7. Own' = {new}
  BY <1>1, <1>2, <1>3 DEF Own
<1> QED BY <1>1, <1>5, <1>6, <1>7 DEF WorkersKnown

LEMMA WorkersKept ==
    ASSUME FileInv, [Next]_vars
    PROVE  WorkersKnown'
<1> USE DEF vars, windowsVars, fileVars, recordVars
<1>1. /\ WorkersKnown /\ Typed /\ guard \in Guards /\ used \in Nat
      /\ NoGuard.lease = 0 /\ NoGuard.answer = "none" /\ Typed'
  <2>1. WorkersKnown /\ Typed
    BY DEF FileInv
  <2>2. guard \in Guards /\ used \in Nat
    BY ONLY <2>1, LeaseConstants DEF Typed
  <2>3. NoGuard.lease = 0 /\ NoGuard.answer = "none"
    BY ONLY DEF NoGuard
  <2>4. Typed'
    BY ONLY FileInv, [Next]_vars, TypedKept
  <2> QED BY ONLY <2>1, <2>2, <2>3, <2>4
<1>2. \A pc \in PCs : Goto(pc).pc = pc /\ Goto(pc).lease = guard.lease
                      /\ Goto(pc).file = guard.file /\ Goto(pc).answer = "none"
  BY <1>1, GotoIs
<1>3. \A w \in workers : w.lease \in Nat \ {0}
  <2>1. workers \subseteq Workers
    BY <1>1 DEF Typed
  <2> QED BY ONLY <2>1 DEF Workers, Leases
\* Steps of the guardian while none of its workers runs.
<1>4. ASSUME Own = {}, UNCHANGED <<workers, used>>, guard'.lease \in {guard.lease, 0}
      PROVE  WorkersKnown'
  <2>1. Own' = {}
    BY <1>3, <1>4 DEF Own
  <2> QED BY <1>1, <1>4, <2>1 DEF WorkersKnown
<1>5. CASE UNCHANGED <<workers, used, guard>>
  BY <1>1, <1>5 DEF WorkersKnown, Own
<1>6. CASE Acquire
  <2>1. guard'.lease = used + 1 /\ used' = used + 1 /\ workers' = workers
    BY <1>6 DEF Acquire, NoGuard
  <2>2. \A w \in workers : w.lease <= used /\ w.file <= used /\ w.file \in Nat
    BY <1>1 DEF WorkersKnown, Typed, Workers, Leases
  <2>3. Own' = {}
    BY <1>1, <1>3, <2>1, <2>2 DEF Own
  <2> QED BY <1>1, <1>3, <2>1, <2>2, <2>3 DEF WorkersKnown
<1>7. CASE Killed
  <2>1. guard'.lease = 0 /\ used' = used /\ workers' \subseteq workers
    BY <1>1, <1>7 DEF Killed
  <2>2. Own' = {}
    BY <1>3, <2>1 DEF Own
  <2> QED BY <1>1, <2>1, <2>2 DEF WorkersKnown
<1>8. CASE Inspect
  <2>1. Own = {} /\ guard.pc = "inspect" /\ used' = used
    BY <1>8, NoOwnWorker DEF Inspect
  <2>2. CASE device /\ Orphans # {}
    <3>1. PICK ok \in BOOLEAN :
            /\ Launch("recover", Max(Orphans), StartMode)
            /\ guard' = [Goto("orphan") EXCEPT !.file = Max(Orphans), !.dpiOk = ok]
      BY <1>8, <2>2 DEF Inspect
    <3>2. /\ guard'.pc = "orphan" /\ guard'.lease = guard.lease
          /\ guard'.file = Max(Orphans) /\ guard'.answer = "none"
      <4>1. Goto("orphan") \in Guards
        BY <1>1, GuardsTyped DEF PCs
      <4> QED BY <1>2, <3>1, <4>1 DEF Guards, PCs
    <3>3. OwnKind(guard'.pc) = "recover"
      BY <3>2 DEF OwnKind
    <3>4. Max(Orphans) \in 1..used
      <4>1. Orphans \subseteq Leases /\ Orphans \subseteq Snaps
        BY DEF Orphans, Snaps
      <4>2. Max(Orphans) \in Orphans
        BY <2>2, <4>1, NewestExists
      <4> QED BY <4>1, <4>2 DEF FileInv, FilesOrdered
    <3> QED BY <2>1, <3>1, <3>2, <3>3, <3>4, LaunchKnown
  <2>3. CASE ~(device /\ Orphans # {})
    BY <1>2, <1>4, <1>8, <2>1, <2>3 DEF Inspect, PCs
  <2> QED BY <2>2, <2>3
<1>9. CASE OrphanRecovered
  <2>1. Own = {} /\ UNCHANGED <<workers, used>>
    BY <1>9, NoOwnWorker DEF OrphanRecovered, Retire
  <2>2. guard'.lease = guard.lease
    <3>1. Goto("check") \in Guards
      BY <1>1, GuardsTyped DEF PCs
    <3> QED BY <1>2, <1>9, <3>1 DEF OrphanRecovered, Retire, Guards, PCs
  <2> QED BY <1>4, <2>1, <2>2
<1>10. CASE Finish
  <2>1. Own = {} /\ UNCHANGED <<workers, used>> /\ guard' = NoGuard
    BY <1>10, NoOwnWorker DEF Finish, Retire
  <2> QED BY <1>1, <1>4, <2>1
<1>11. CASE Check \/ Release
  <2>1. /\ Own = {} /\ UNCHANGED <<workers, used>>
        /\ guard' = NoGuard \/ \E pc \in PCs : guard' = Goto(pc)
    BY <1>11, NoOwnWorker DEF Check, Release, PCs
  <2> QED BY <1>1, <1>2, <1>4, <2>1
<1>12. CASE Save
  <2>1. Own = {} /\ UNCHANGED <<workers, used>>
    BY <1>12, NoOwnWorker DEF Save
  <2>2. guard'.lease = guard.lease
    <3>1. Goto("enable") \in Guards
      BY <1>1, GuardsTyped DEF PCs
    <3> QED BY <1>2, <1>12, <3>1 DEF Save, Guards, PCs
  <2> QED BY <1>4, <2>1, <2>2
\* Steps that may launch the next worker.
<1>13. CASE Enable \/ ServeResize \/ Resized
  <2>1. Own = {} /\ guard.pc # "none" /\ used' = used /\ guard.lease \in 1..used
    <3>1. Own = {} /\ guard.pc # "none" /\ used' = used
      BY <1>13, NoOwnWorker DEF Enable, ServeResize, Resized
    <3>2. guard.lease \in Leases /\ guard.lease = used
      BY <3>1, HolderKnown
    <3> QED BY <1>1, <3>1, <3>2 DEF Leases
  <2>2. \/ UNCHANGED workers /\ \E pc \in PCs : guard' = Goto(pc)
        \/ Launch("enable", guard.lease, StartMode) /\ guard' = Goto("enabling")
        \/ Launch("enable", guard.lease, StartMode) /\ guard' = Goto("reenabling")
        \/ Launch("resize", guard.lease, channel.target) /\ guard' = Goto("resizing")
    BY <1>13 DEF Enable, ServeResize, Resized, PCs
  <2>3. /\ \A pc \in {"enabling", "reenabling"} : OwnKind(pc) = "enable"
        /\ OwnKind("resizing") = "resize" /\ {"enabling", "reenabling", "resizing"} \subseteq PCs
    BY DEF OwnKind, PCs
  <2>4. CASE UNCHANGED workers /\ \E pc \in PCs : guard' = Goto(pc)
    BY <1>2, <1>4, <2>1, <2>4
  <2>5. CASE Launch("enable", guard.lease, StartMode)
             /\ guard' \in {Goto("enabling"), Goto("reenabling")}
    <3>1. guard'.lease = guard.lease /\ guard'.answer = "none" /\ OwnKind(guard'.pc) = "enable"
      BY <1>2, <2>3, <2>5
    <3> QED BY <2>1, <2>5, <3>1, LaunchKnown
  <2>6. CASE Launch("resize", guard.lease, channel.target) /\ guard' = Goto("resizing")
    <3>1. guard'.lease = guard.lease /\ guard'.answer = "none" /\ OwnKind(guard'.pc) = "resize"
      BY <1>2, <2>3, <2>6
    <3> QED BY <2>1, <2>6, <3>1, LaunchKnown
  <2> QED BY <2>2, <2>4, <2>5, <2>6
<1>14. CASE Enabled \/ Reenabled
  <2>1. Own = {} /\ UNCHANGED <<workers, used>> /\ \E pc \in PCs : guard' = Goto(pc)
    BY <1>14, NoOwnWorker DEF Enabled, Reenabled, PCs
  <2> QED BY <1>2, <1>4, <2>1
<1>15. CASE ServeDpi
  BY <1>5, <1>15 DEF ServeDpi
<1>16. CASE Cleanup
  <2>1. Own = {} /\ guard.pc = "cleanup" /\ used' = used /\ guard.lease \in 1..used
    BY <1>1, <1>16, NoOwnWorker, HolderKnown DEF Cleanup, Leases
  <2>2. PICK ok \in BOOLEAN : guard' = [Goto("recovering") EXCEPT !.dpiOk = ok]
    BY <1>16 DEF Cleanup
  <2>3. /\ guard'.pc = "recovering" /\ guard'.lease = guard.lease
        /\ guard'.file = guard.file /\ guard'.answer = "none"
    <3>1. Goto("recovering") \in Guards
      BY <1>1, GuardsTyped DEF PCs
    <3> QED BY <1>2, <2>2, <3>1 DEF Guards, PCs
  <2>4. guard.file = guard.lease
    BY <2>1, HolderKnown DEF FileInv, FilesOrdered, Owning
  <2>5. OwnKind(guard'.pc) = "recover" /\ Launch("recover", guard.lease, StartMode)
    BY <1>16, <2>3 DEF OwnKind, Cleanup
  <2> QED BY <2>1, <2>3, <2>4, <2>5, LaunchKnown
<1>17. ASSUME NEW w \in workers, Worker(w) PROVE WorkersKnown'
  <2>1. used' = used
    BY <1>17 DEF Worker, WorkerChecks, WorkerEnables, WorkerResizes, WorkerDisables,
                 WorkerRestores, WorkerFails, rest
  <2>2. \/ \E answer \in {"ok", "failed"} : Exit(w, answer)
        \/ Proceed(w, "act") /\ w.stage = "check"
        \/ Proceed(w, "layout") /\ w.kind = "recover"
    BY <1>17 DEF Worker, WorkerChecks, WorkerEnables, WorkerResizes, WorkerDisables,
                 WorkerRestores, WorkerFails, Answers
  <2>3. ASSUME NEW answer \in {"ok", "failed"}, Exit(w, answer) PROVE WorkersKnown'
    <3>1. workers' = workers \ {w}
      BY <2>3 DEF Exit
    <3>2. CASE guard.lease = w.lease
      <4>1. guard'.lease = guard.lease
        BY <1>1, <2>3 DEF Exit, Guards
      <4>2. Own' = {}
        BY <1>1, <3>1, <3>2, <4>1 DEF Own, WorkersKnown
      <4> QED BY <1>1, <2>1, <3>1, <4>2 DEF WorkersKnown
    <3>3. CASE guard.lease # w.lease
      <4>1. guard' = guard
        BY <2>3, <3>3 DEF Exit
      <4>2. Own' = Own
        BY <3>1, <3>3, <4>1 DEF Own
      <4> QED BY <1>1, <2>1, <3>1, <4>1, <4>2 DEF WorkersKnown
    <3> QED BY <3>2, <3>3
  <2>4. ASSUME NEW stage \in {"act", "layout"}, Proceed(w, stage),
               stage = "act" => w.kind # "recover", stage = "layout" => w.kind = "recover"
        PROVE  WorkersKnown'
    <3> DEFINE v == [w EXCEPT !.stage = stage]
    <3>1. /\ v.lease = w.lease /\ v.kind = w.kind /\ v.file = w.file /\ v.stage = stage
      BY <1>1 DEF Typed, Workers
    <3>2. workers' = (workers \ {w}) \cup {v} /\ guard' = guard
      BY <2>4 DEF Proceed
    <3> HIDE DEF v
    <3>3. \A x, y \in workers' : x.lease = y.lease => x = y
      BY <1>1, <3>1, <3>2 DEF WorkersKnown
    <3>4. \A x \in workers' : /\ x.lease <= used' /\ x.file <= used'
                              /\ x.stage \in IF x.kind = "recover" THEN {"disable", "layout"}
                                                                   ELSE {"check", "act"}
      BY <1>1, <2>1, <2>4, <3>1, <3>2 DEF WorkersKnown
    <3>5. \A x \in Own' : x \in Own \/ (x = v /\ w \in Own)
      <4>1. Own' = {x \in workers' : x.lease = guard.lease}
        BY <3>2 DEF Own
      <4>2. v \in Own' => w \in Own
        BY <3>1, <4>1 DEF Own
      <4>3. \A x \in Own' : x # v => x \in Own
        BY <3>2, <4>1 DEF Own
      <4> QED BY <4>2, <4>3
    <3> QED BY <1>1, <3>1, <3>2, <3>3, <3>4, <3>5 DEF WorkersKnown
  <2>5. w.stage = "check" => w.kind # "recover"
    BY <1>1 DEF WorkersKnown
  <2> QED BY <2>2, <2>3, <2>4, <2>5
<1>18. CASE Request \/ InputEnds \/ HelperActs \/ Command \/ Answered \/ TimedOut \/ HelperDies
  BY <1>5, <1>18 DEF Request, InputEnds, HelperActs, Command, Answered, TimedOut, HelperDies
<1>19. CASE UNCHANGED vars
  BY <1>5, <1>19
<1> QED BY <1>6, <1>7, <1>8, <1>9, <1>10, <1>11, <1>12, <1>13, <1>14, <1>15, <1>16, <1>17,
           <1>18, <1>19 DEF Next, Guardian

LEMMA FileInvKept ==
    ASSUME FileInv, [Next]_vars
    PROVE  FileInv'
BY TypedKept, FilesKept, WorkersKept DEF FileInv

-----------------------------------------------------------------------------
(* The preference                                                          *)

\* History: no step is ever struck off.
LEMMA AcceptedGrows ==
    ASSUME [Next]_vars
    PROVE  accepted \subseteq accepted'
BY DEF Next, Guardian, Acquire, Killed, Inspect, OrphanRecovered, Retire, Check, Save, Enable,
       Enabled, ServeDpi, Accept, ServeResize, Resized, Reenabled, Release, Cleanup, Finish,
       Worker, WorkerChecks, WorkerEnables, WorkerResizes, WorkerDisables, WorkerRestores,
       WorkerFails, Request, InputEnds, HelperActs, Command, Answered, TimedOut, HelperDies,
       vars, recordVars, rest

\* A restoration by the step needs nothing of the history; one by the percentage
\* makes what it sets an accepted step.
Recorded(n, source, ok) ==
    /\ accepted \subseteq accepted'
    /\ ok /\ ~source /\ journal[n] # NoJournal /\ journal[n].step \in accepted =>
          RestoredStep(n, FALSE) \in accepted'

LEMMA RestoredIsAccepted ==
    ASSUME NEW n \in Journals, NEW source \in BOOLEAN, NEW ok \in BOOLEAN,
           Recorded(n, source, ok), ok, journal[n].step \in accepted
    PROVE  RestoredStep(n, source) \in accepted'
BY DEF Recorded, RestoredStep, Journals

\* Only the newest journal is restored, or deleted.
LEMMA RestoreKeepsJournals ==
    ASSUME Typed, JournalInv, Journals \subseteq Snaps,
           NEW n \in Leases, \A k \in Snaps : k <= n,
           NEW ok \in BOOLEAN, NEW retire \in BOOLEAN, NEW source \in BOOLEAN,
           DpiRestore(n, retire, source, ok), Recorded(n, source, ok)
    PROVE  /\ JournalInv'
           /\ Journals' \subseteq Journals
           /\ ok /\ retire => n \notin Journals'
<1>1. CASE n \notin Journals
  BY <1>1 DEF DpiRestore, Journals, JournalInv, Recorded
<1>2. CASE n \in Journals
  <2>1. ok /\ journal[n].step \in accepted => RestoredStep(n, source) \in accepted'
    BY <1>2, RestoredIsAccepted
  <2>2. /\ step' = (IF ok THEN RestoredStep(n, source) ELSE step)
        /\ accepted \subseteq accepted'
    BY <1>2 DEF DpiRestore, Journals, Recorded
  <2>3. CASE ~(ok /\ retire)
    <3>1. journal' = journal /\ Journals' = Journals
      BY <1>2, <2>3 DEF DpiRestore, Retired, Journals
    <3>2. step' \notin accepted' => \E j \in Journals' : journal'[j].step \in accepted'
      <4> SUFFICES ASSUME step' \notin accepted'
                   PROVE  \E j \in Journals : journal[j].step \in accepted
        BY <2>2, <3>1
      <4>1. CASE ok
        BY <1>2, <2>1, <2>2, <4>1 DEF JournalInv
      <4>2. CASE ~ok
        BY <2>2, <4>2 DEF JournalInv
      <4> QED BY <4>1, <4>2
    <3>3. \A k \in Journals' : journal'[k].step \notin accepted' =>
             \E j \in Journals' : j < k /\ journal'[j].step \in accepted'
      BY <2>2, <3>1 DEF JournalInv
    <3> QED BY <2>3, <3>1, <3>2, <3>3 DEF JournalInv
  <2>4. CASE ok /\ retire
    <3>1. journal' = [journal EXCEPT ![n] = NoJournal]
      BY <1>2, <2>4 DEF DpiRestore, Retired, Journals
    <3>2. Journals' = Journals \ {n} /\ \A k \in Journals' : journal'[k] = journal[k]
      BY <3>1 DEF Journals, Typed
    <3>3. \A k \in Journals' : k <= n /\ k # n /\ k \in Nat
      BY <3>2 DEF Journals, Leases
    <3>4. n \in Nat
      BY DEF Leases
    <3>5. \A k \in Journals' : journal'[k].step \notin accepted' =>
             \E j \in Journals' : j < k /\ journal'[j].step \in accepted'
      <4> SUFFICES ASSUME NEW k \in Journals', journal'[k].step \notin accepted'
                   PROVE  \E j \in Journals' : j < k /\ journal'[j].step \in accepted'
        OBVIOUS
      <4>1. PICK j \in Journals : j < k /\ journal[j].step \in accepted
        BY <2>2, <3>2 DEF JournalInv
      <4>2. j \in Journals'
        BY <3>2, <3>3, <3>4, <4>1
      <4> QED BY <2>2, <3>2, <4>1, <4>2
    <3>6. step' \notin accepted' => \E j \in Journals' : journal'[j].step \in accepted'
      <4> SUFFICES ASSUME step' \notin accepted'
                   PROVE  \E j \in Journals' : journal'[j].step \in accepted'
        OBVIOUS
      <4>1. PICK j \in Journals : j < n /\ journal[j].step \in accepted
        BY <1>2, <2>1, <2>2, <2>4 DEF JournalInv
      <4> QED BY <2>2, <3>2, <3>4, <4>1
    <3> QED BY <3>2, <3>5, <3>6 DEF JournalInv
  <2> QED BY <2>3, <2>4
<1> QED BY <1>1, <1>2

LEMMA CaptureKeepsJournals ==
    ASSUME Typed, JournalInv, Journals \subseteq Snaps,
           NEW n \in Snaps, \A k \in Snaps : k <= n,
           NEW ok \in BOOLEAN, DpiCapture(n, ok), accepted \subseteq accepted'
    PROVE  JournalInv' /\ Journals' \subseteq Snaps
<1> DEFINE found == [step |-> step, percent |-> percent(mode, step)]
<1>1. CASE journal' = journal
  BY <1>1 DEF DpiCapture, JournalInv, Journals
<1>2. CASE journal[n] = NoJournal /\ journal' = [journal EXCEPT ![n] = found] /\ journal' # journal
  <2>1. found.step = step /\ found # NoJournal
    <3>1. found.step = step /\ found.percent = percent(mode, step) /\ NoJournal.percent = -1
      BY DEF NoJournal
    <3>2. Settable(step)
      BY <1>2 DEF DpiCapture, Observable
    <3>3. percent(mode, step) # -1
      BY <3>2 DEF Settable, Typed
    <3> QED BY <3>1, <3>3
  <2> HIDE DEF found
  <2>2. step' = step /\ n \in Leases
    BY DEF DpiCapture, Snaps
  <2>3. /\ n \notin Journals /\ Journals' = Journals \cup {n} /\ journal'[n] = found
        /\ \A k \in Journals : journal'[k] = journal[k]
    BY <1>2, <2>1, <2>2 DEF Journals, Typed
  <2>4. \A j \in Journals : j < n
    BY <2>2, <2>3 DEF Snaps, Leases
  <2>5. step \notin accepted => \E j \in Journals : j < n /\ journal[j].step \in accepted
    BY <2>4 DEF JournalInv
  <2>6. step' \notin accepted' => \E j \in Journals' : journal'[j].step \in accepted'
    BY <2>2, <2>3, <2>5
  <2>7. \A k \in Journals' : journal'[k].step \notin accepted' =>
           \E j \in Journals' : j < k /\ journal'[j].step \in accepted'
    BY <2>1, <2>3, <2>5 DEF JournalInv
  <2> QED BY <2>3, <2>6, <2>7 DEF JournalInv
<1> QED BY <1>1, <1>2 DEF DpiCapture

LEMMA ChangeKeepsJournals ==
    ASSUME JournalInv, NEW n \in Leases, NEW ok \in BOOLEAN, NEW scale, DpiChange(n, scale, ok),
           accepted \subseteq accepted'
    PROVE  JournalInv' /\ Journals' = Journals
<1>1. journal' = journal /\ Journals' = Journals
  BY DEF DpiChange, Journals
<1>2. CASE step' = step
  BY <1>1, <1>2 DEF JournalInv
<1>3. CASE step' # step
  <2>1. n \in Journals
    BY <1>3 DEF DpiChange, Journals
  <2>2. \E j \in Journals : journal[j].step \in accepted
    BY <2>1 DEF JournalInv
  <2> QED BY <1>1, <2>2 DEF JournalInv
<1> QED BY <1>2, <1>3

\* The holder of the lease has the newest snapshot.
LEMMA HolderIsNewest ==
    ASSUME FileInv, guard.pc \in Owning
    PROVE  guard.lease \in Snaps /\ guard.lease \in Leases /\ guard.file = guard.lease
           /\ \A k \in Snaps : k <= guard.lease
BY HolderKnown DEF FileInv, FilesOrdered, Owning, Snaps

LEMMA PreferenceKept ==
    ASSUME FileInv, PreferenceInv, [Next]_vars
    PROVE  PreferenceInv'
<1> USE DEF vars, windowsVars, fileVars, recordVars
<1>0. accepted \subseteq accepted'
  BY AcceptedGrows
<1>1. /\ JournalInv /\ Journals \subseteq Snaps /\ Typed /\ guard \in Guards
      /\ \A pc \in PCs : Goto(pc).pc = pc /\ Goto(pc) \in Guards
  BY GotoIs, GuardsTyped DEF FileInv, PreferenceInv, JournalFiles, Typed
\* Steps that leave the journals and what is snapshotted.
<1>2. ASSUME UNCHANGED <<step, journal>>, Snaps \subseteq Snaps',
             \/ guard'.pc \notin {"orphan", "recovering"}
             \/ guard'.pc = guard.pc /\ guard'.file = guard.file /\ guard'.dpiOk = guard.dpiOk
      PROVE  PreferenceInv'
  BY <1>0, <1>1, <1>2 DEF PreferenceInv, JournalInv, JournalFiles, Journals
<1>3. CASE Inspect
  <2>1. Snaps' = Snaps /\ guard.pc = "inspect"
    BY <1>3 DEF Inspect, Snaps
  <2>2. CASE device /\ Orphans # {}
    <3>1. PICK ok \in BOOLEAN :
            /\ DpiRestore(Max(Orphans), TRUE, TRUE, ok)
            /\ guard' = [Goto("orphan") EXCEPT !.file = Max(Orphans), !.dpiOk = ok]
      BY <1>3, <2>2 DEF Inspect, OrphanDpi
    <3>2. Max(Orphans) \in Orphans /\ \A n \in Orphans : n <= Max(Orphans)
      <4>1. Orphans \subseteq Leases
        BY DEF Orphans
      <4> QED BY <2>2, <4>1, NewestExists
    <3>3. Orphans = Snaps
      <4>1. guard.lease = used /\ snapshot[used] = "none"
        BY <2>1, HolderKnown DEF FileInv, FilesOrdered
      <4> QED BY <4>1 DEF Orphans, Snaps
    <3>4. Max(Orphans) \in Leases
      BY <3>2 DEF Orphans
    <3>5. /\ JournalInv' /\ Journals' \subseteq Journals
          /\ ok => Max(Orphans) \notin Journals'
      <4>1. Recorded(Max(Orphans), TRUE, ok)
        BY <1>0 DEF Recorded
      <4> QED BY <1>1, <3>1, <3>2, <3>3, <3>4, <4>1, RestoreKeepsJournals
    <3>6. guard'.file = Max(Orphans) /\ guard'.dpiOk = ok
      <4>1. Goto("orphan") \in Guards
        BY <1>1 DEF PCs
      <4> QED BY <3>1, <4>1 DEF Guards
    <3> QED BY <1>1, <2>1, <3>5, <3>6 DEF PreferenceInv, JournalFiles
  <2>3. CASE ~(device /\ Orphans # {})
    <3>1. guard'.pc = "check"
      BY <1>1, <1>3, <2>3 DEF Inspect, PCs
    <3> QED BY <1>2, <1>3, <2>1, <2>3, <3>1 DEF Inspect
  <2> QED BY <2>2, <2>3
<1>4. CASE OrphanRecovered \/ Finish
  <2>1. guard.pc \in {"orphan", "recovering"} /\ UNCHANGED <<step, journal>>
        /\ snapshot' = IF Recovered THEN [snapshot EXCEPT ![guard.file] = "none"] ELSE snapshot
    BY <1>4 DEF OrphanRecovered, Finish, Retire
  <2>2. guard'.pc \notin {"orphan", "recovering"}
    <3>1. Goto("check") \in Guards /\ Goto("check").pc = "check"
      BY <1>1 DEF PCs
    <3>2. [Goto("check") EXCEPT !.dpiOk = TRUE].pc = "check"
      BY <3>1 DEF Guards
    <3>3. NoGuard.pc = "none"
      BY DEF NoGuard
    <3>4. guard' \in {NoGuard, [Goto("check") EXCEPT !.dpiOk = TRUE]}
      BY <1>4 DEF OrphanRecovered, Finish, Retire
    <3> QED BY ONLY <3>2, <3>3, <3>4
  <2>3. CASE Recovered
    <3>1. guard.file \notin Journals
      BY <2>1, <2>3 DEF PreferenceInv, JournalFiles, Recovered
    <3>2. Snaps \ {guard.file} \subseteq Snaps' /\ Journals' = Journals
      BY <1>1, <2>1, <2>3 DEF Snaps, Typed, Journals
    <3>3. JournalInv'
      BY <1>0, <1>1, <2>1, <3>2 DEF JournalInv
    <3> QED BY <1>1, <2>2, <3>1, <3>2, <3>3 DEF PreferenceInv, JournalFiles
  <2>4. CASE ~Recovered
    <3>1. Snaps' = Snaps
      BY <2>1, <2>4 DEF Snaps
    <3> QED BY <1>2, <2>1, <2>2, <3>1
  <2> QED BY <2>3, <2>4
<1>5. CASE Save
  <2>1. Snaps \subseteq Snaps' /\ UNCHANGED <<step, journal>>
    BY <1>1, <1>5 DEF Save, Snaps, Typed, Layouts
  <2>2. guard'.pc = "enable"
    <3>1. Goto("enable") \in Guards /\ Goto("enable").pc = "enable"
      BY <1>1 DEF PCs
    <3> QED BY <1>5, <3>1 DEF Save, Guards
  <2> QED BY <1>2, <2>1, <2>2
<1>6. CASE ServeDpi
  <2>1. PICK ok \in BOOLEAN :
          /\ CASE channel.op = "capture" -> DpiCapture(guard.lease, ok)
               [] channel.op = "set" -> DpiChange(guard.lease, channel.scale, ok)
               [] channel.op = "restore" -> DpiRestore(guard.lease, TRUE, FALSE, ok)
               [] channel.op = "reset" -> DpiRestore(guard.lease, FALSE, TRUE, ok)
          /\ Accept(guard.lease, ok /\ channel.op = "restore")
    BY <1>6 DEF ServeDpi
  <2>2. channel.op \in {"capture", "set", "restore", "reset"}
    BY <1>1, <1>6 DEF ServeDpi, Typed, Ops
  <2>3. \/ DpiCapture(guard.lease, ok)
        \/ DpiChange(guard.lease, channel.scale, ok)
        \/ DpiRestore(guard.lease, TRUE, FALSE, ok) /\ Recorded(guard.lease, FALSE, ok)
        \/ DpiRestore(guard.lease, FALSE, TRUE, ok) /\ Recorded(guard.lease, TRUE, ok)
    BY <1>0, <2>1, <2>2 DEF Accept, Recorded
  <2>4. /\ guard.lease \in Snaps /\ guard.lease \in Leases
        /\ \A k \in Snaps : k <= guard.lease
    BY <1>6, HolderIsNewest DEF ServeDpi, Owning
  <2>5. JournalInv' /\ Journals' \subseteq Snaps
    BY <1>0, <1>1, <2>3, <2>4, CaptureKeepsJournals, ChangeKeepsJournals, RestoreKeepsJournals
  <2>6. Snaps' = Snaps /\ guard'.pc = "serve"
    BY <1>6 DEF ServeDpi, Snaps
  <2> QED BY <2>5, <2>6 DEF PreferenceInv, JournalFiles
<1>7. CASE ServeResize
  <2>1. PICK ok \in BOOLEAN : DpiRestore(guard.lease, FALSE, TRUE, ok)
    BY <1>7 DEF ServeResize
  <2>2. guard.lease \in Leases /\ \A k \in Snaps : k <= guard.lease
    BY <1>7, HolderIsNewest DEF ServeResize, Owning
  <2>3. JournalInv' /\ Journals' \subseteq Journals
    <3>1. Recorded(guard.lease, TRUE, ok)
      BY <1>0 DEF Recorded
    <3> QED BY <1>1, <2>1, <2>2, <3>1, RestoreKeepsJournals
  <2>4. Snaps' = Snaps /\ guard'.pc \in {"resizing", "cleanup"}
    BY <1>1, <1>7 DEF ServeResize, Snaps, PCs
  <2> QED BY <1>1, <2>3, <2>4 DEF PreferenceInv, JournalFiles
<1>8. CASE Cleanup
  <2>1. PICK ok \in BOOLEAN :
          /\ DpiRestore(guard.lease, TRUE, TRUE, ok)
          /\ guard' = [Goto("recovering") EXCEPT !.dpiOk = ok]
    BY <1>8 DEF Cleanup
  <2>2. /\ guard.lease \in Leases /\ \A k \in Snaps : k <= guard.lease
        /\ guard.file = guard.lease
    BY <1>8, HolderIsNewest DEF Cleanup, Owning
  <2>3. /\ JournalInv' /\ Journals' \subseteq Journals
        /\ ok => guard.lease \notin Journals'
    <3>1. Recorded(guard.lease, TRUE, ok)
      BY <1>0 DEF Recorded
    <3> QED BY <1>1, <2>1, <2>2, <3>1, RestoreKeepsJournals
  <2>4. Snaps' = Snaps
    BY <1>8 DEF Cleanup, Snaps
  <2>5. guard'.file = guard.file /\ guard'.dpiOk = ok
    <3>1. Goto("recovering") \in Guards /\ Goto("recovering").file = guard.file
      BY <1>1, GotoIs DEF PCs
    <3> QED BY <2>1, <3>1 DEF Guards
  <2> QED BY <1>1, <2>2, <2>3, <2>4, <2>5 DEF PreferenceInv, JournalFiles
\* The other steps leave the DPI alone.
<1>9. ASSUME UNCHANGED <<step, journal, snapshot>>,
             guard'.pc \notin {"orphan", "recovering"}
      PROVE  PreferenceInv'
  BY <1>2, <1>9 DEF Snaps
<1>10. CASE Check \/ Enable \/ Enabled \/ Resized \/ Reenabled \/ Release
  <2>1. UNCHANGED <<step, journal, snapshot>>
    BY <1>10 DEF Check, Enable, Enabled, Resized, Reenabled, Release
  <2>2. \/ guard' = NoGuard
        \/ \E pc \in {"save", "enabling", "cleanup", "serve", "reenabling"} : guard' = Goto(pc)
    BY <1>10 DEF Check, Enable, Enabled, Resized, Reenabled, Release
  <2>3. guard'.pc \notin {"orphan", "recovering"}
    BY <1>1, <2>2 DEF NoGuard, PCs
  <2> QED BY <1>9, <2>1, <2>3
<1>11. CASE Acquire \/ Killed
  <2>1. UNCHANGED <<step, journal, snapshot>>
    BY <1>11 DEF Acquire, Killed
  <2>2. guard'.pc \notin {"orphan", "recovering"}
    <3>1. NoGuard.pc = "none" /\ [NoGuard EXCEPT !.lease = used + 1, !.pc = "inspect"].pc = "inspect"
      BY DEF NoGuard
    <3> QED BY <1>11, <3>1 DEF Acquire, Killed
  <2> QED BY <1>9, <2>1, <2>2
<1>12. ASSUME UNCHANGED <<step, journal, snapshot>>,
              guard' = guard \/ \E answer : guard' = [guard EXCEPT !.answer = answer]
       PROVE  PreferenceInv'
  <2>1. guard'.pc = guard.pc /\ guard'.file = guard.file /\ guard'.dpiOk = guard.dpiOk
    BY <1>1, <1>12 DEF Guards
  <2> QED BY <1>2, <1>12, <2>1 DEF Snaps
<1>13. ASSUME NEW w \in workers, Worker(w) PROVE PreferenceInv'
  <2>1. UNCHANGED <<step, journal, snapshot>>
    BY <1>13 DEF Worker, WorkerChecks, WorkerEnables, WorkerResizes, WorkerDisables,
                 WorkerRestores, WorkerFails, rest
  <2>2. guard' = guard \/ \E answer : guard' = [guard EXCEPT !.answer = answer]
    BY <1>13 DEF Worker, WorkerChecks, WorkerEnables, WorkerResizes, WorkerDisables,
                 WorkerRestores, WorkerFails, Proceed, Exit
  <2> QED BY <1>12, <2>1, <2>2
<1>14. CASE Request \/ InputEnds \/ HelperActs \/ Command \/ Answered \/ TimedOut \/ HelperDies
            \/ UNCHANGED vars
  <2>1. UNCHANGED <<step, journal, snapshot, guard>>
    BY <1>14 DEF Request, InputEnds, HelperActs, Command, Answered, TimedOut, HelperDies
  <2> QED BY <1>12, <2>1
<1> QED BY <1>3, <1>4, <1>5, <1>6, <1>7, <1>8, <1>10, <1>11, <1>13, <1>14 DEF Next, Guardian

-----------------------------------------------------------------------------
(* The baseline                                                            *)

\* What the guardian does to the DPI keeps the preference traceable.
LEMMA RestoreKeepsTrace ==
    ASSUME Typed, JournalInv, NEW n \in Leases, Kept(n),
           NEW ok \in BOOLEAN, NEW retire \in BOOLEAN, NEW source \in BOOLEAN,
           DpiRestore(n, retire, source, ok), Recorded(n, source, ok), UNCHANGED snapshot
    PROVE  Kept(n)' /\ (ok => step' \in accepted')
<1>1. CASE journal[n] = NoJournal
  BY <1>1 DEF DpiRestore, Kept, Recorded
<1>2. CASE journal[n] # NoJournal
  <2>1. ok => RestoredStep(n, source) \in accepted'
    BY <1>2, RestoredIsAccepted DEF Journals, Kept
  <2>2. /\ step' = (IF ok THEN RestoredStep(n, source) ELSE step)
        /\ accepted \subseteq accepted' /\ journal[n].step \in accepted
    BY <1>2 DEF DpiRestore, Recorded, Kept
  <2>3. CASE ok /\ retire
    <3>1. journal'[n] = NoJournal
      BY <1>2, <2>3 DEF DpiRestore, Retired, Typed
    <3> QED BY <2>1, <2>2, <2>3, <3>1 DEF Kept
  <2>4. CASE ~(ok /\ retire)
    <3>1. journal' = journal
      BY <1>2, <2>4 DEF DpiRestore, Retired
    <3> QED BY <1>2, <2>1, <2>2, <3>1 DEF Kept
  <2> QED BY <2>3, <2>4
<1> QED BY <1>1, <1>2

LEMMA CommandKeepsTrace ==
    ASSUME Typed, NEW n \in Leases, Kept(n), NEW ok \in BOOLEAN, NEW scale, UNCHANGED snapshot,
           DpiCapture(n, ok) \/ DpiChange(n, scale, ok), accepted \subseteq accepted'
    PROVE  Kept(n)'
<1>1. CASE DpiCapture(n, ok)
  <2>1. CASE journal' = journal
    BY <1>1, <2>1 DEF DpiCapture, Kept
  <2>2. CASE journal[n] = NoJournal /\ journal' # journal
    <3>1. journal'[n] = [step |-> step, percent |-> percent(mode, step)]
      BY <1>1, <2>2 DEF DpiCapture, Typed
    <3>2. journal'[n].step \in accepted'
      BY <2>2, <3>1 DEF Kept
    <3> QED BY <1>1, <2>2, <3>2 DEF DpiCapture, Kept
  <2> QED BY <1>1, <2>1, <2>2 DEF DpiCapture
<1>2. CASE DpiChange(n, scale, ok)
  BY <1>2 DEF DpiChange, Kept
<1> QED BY <1>1, <1>2

LEMMA Undisturbed ==
    ASSUME [Next]_vars, ~disturbed'
    PROVE  ~disturbed
BY DEF Next, Guardian, Acquire, Killed, Inspect, OrphanRecovered, Retire, Check, Save, Enable,
       Enabled, ServeDpi, ServeResize, Resized, Reenabled, Release, Cleanup, Finish, Worker,
       WorkerChecks, WorkerEnables, WorkerResizes, WorkerDisables, WorkerRestores, WorkerFails,
       Request, InputEnds, HelperActs, Command, Answered, TimedOut, HelperDies, vars

\* No worker runs unless the guardian waits for it.
LEMMA NobodyWorks ==
    ASSUME FileInv, Traceable,
           guard.answer # "none" \/ guard.pc \notin {"enabling", "reenabling", "resizing",
                                                     "orphan", "recovering"}
    PROVE  workers = {} /\ Own = {}
BY NoOwnWorker DEF Traceable, Own

LEMMA LaunchIsOwn ==
    ASSUME workers = {}, NEW kind, NEW file, NEW target, Launch(kind, file, target)
    PROVE  \A w \in workers' : /\ w.lease = guard.lease
                               /\ kind = "recover" => w.stage = "disable"
<1> DEFINE new == [lease |-> guard.lease, kind |-> kind, file |-> file,
                   stage |-> IF kind = "recover" THEN "disable" ELSE "check", target |-> target]
<1>1. new.lease = guard.lease /\ (kind = "recover" => new.stage = "disable")
  OBVIOUS
<1>2. workers' = {new}
  BY DEF Launch
<1> HIDE DEF new
<1> QED BY <1>1, <1>2

\* The guardian goes on with the lease that it serves.
LEMMA ServesOn ==
    ASSUME Traceable, guard'.lease = guard.lease, Kept(guard.lease)', UNCHANGED snapshot,
           guard'.pc \in {"enabling", "serve", "resizing", "reenabling", "cleanup"},
           \A w \in workers' : w.lease = guard.lease,
           guard'.pc = "serve" => device',
           guard'.pc \in {"enabling", "reenabling"} /\ guard'.answer = "ok" => device'
    PROVE  Traceable'
BY DEF Traceable, Snaps, Owning

\* The guardian recovers from the newest files.
LEMMA Recovers ==
    ASSUME Traceable, guard'.lease = guard.lease, step' \in accepted', UNCHANGED snapshot,
           guard'.pc \in {"orphan", "recovering"}, guard'.dpiOk, guard'.answer = "none",
           \A w \in workers' : w.lease = guard.lease /\ w.stage = "disable"
    PROVE  Traceable'
BY DEF Traceable, Snaps, Owning

LEMMA GuardianTraces ==
    ASSUME FileInv, PreferenceInv, Traceable, Guardian, ~disturbed', ~disturbed
    PROVE  Traceable'
<1> USE DEF windowsVars, fileVars, recordVars
<1>0. accepted \subseteq accepted'
  BY AcceptedGrows DEF Next
<1>1. /\ Typed /\ guard \in Guards /\ JournalInv /\ Journals \subseteq Snaps
      /\ \A pc \in PCs : /\ Goto(pc).pc = pc /\ Goto(pc).lease = guard.lease
                         /\ Goto(pc).file = guard.file /\ Goto(pc).dpiOk = guard.dpiOk
                         /\ Goto(pc).answer = "none" /\ Goto(pc) \in Guards
  BY GotoIs, GuardsTyped DEF FileInv, Typed, PreferenceInv, JournalFiles
<1>2. CASE Inspect
  <2>1. /\ guard.pc = "inspect" /\ UNCHANGED <<device, layout, snapshot>>
        /\ workers = {} /\ Snaps' = Snaps
    BY <1>2, NobodyWorks DEF Inspect, Snaps
  <2>2. Orphans = Snaps
    <3>1. guard.lease = used /\ snapshot[used] = "none"
      BY <2>1, HolderKnown DEF FileInv, FilesOrdered
    <3> QED BY <3>1 DEF Orphans, Snaps
  <2>3. CASE device /\ Orphans # {}
    <3>1. PICK ok \in BOOLEAN :
            /\ DpiRestore(Max(Orphans), TRUE, TRUE, ok)
            /\ Launch("recover", Max(Orphans), StartMode)
            /\ guard' = [Goto("orphan") EXCEPT !.file = Max(Orphans), !.dpiOk = ok]
            /\ disturbed' = (disturbed \/ ~ok)
      BY <1>2, <2>3 DEF Inspect, OrphanDpi
    <3>2. Max(Orphans) \in Snaps /\ Max(Orphans) \in Leases /\ \A n \in Snaps : n <= Max(Orphans)
      <4>1. Orphans \subseteq Leases
        BY DEF Orphans
      <4> QED BY <2>2, <2>3, <4>1, NewestExists
    <3>3. Kept(Max(Orphans))
      <4>1. PICK n \in Snaps : Kept(n) /\ \A k \in Snaps : k <= n
        BY <2>1, <2>3 DEF Traceable, Home
      <4>2. n \in Nat /\ Max(Orphans) \in Nat
        BY <3>2 DEF Snaps, Leases
      <4>3. n = Max(Orphans)
        BY <3>2, <4>1, <4>2
      <4> QED BY <4>1, <4>3
    <3>4. PICK m \in Leases : m = Max(Orphans)
      BY <3>2
    <3>5. ok
      BY <3>1
    <3>6. step' \in accepted'
      <4>1. Recorded(m, TRUE, ok)
        BY <1>0 DEF Recorded
      <4> QED BY <1>1, <2>1, <3>1, <3>3, <3>4, <3>5, <4>1, RestoreKeepsTrace
    <3>7. /\ guard'.lease = guard.lease /\ guard'.pc = "orphan" /\ guard'.answer = "none"
          /\ guard'.dpiOk
      <4>1. Goto("orphan") \in Guards /\ Goto("orphan").pc = "orphan"
            /\ Goto("orphan").lease = guard.lease /\ Goto("orphan").answer = "none"
        BY <1>1 DEF PCs
      <4> QED BY <3>1, <3>5, <4>1 DEF Guards
    <3>8. \A w \in workers' : w.lease = guard.lease /\ w.stage = "disable"
      BY <2>1, <3>1, LaunchIsOwn
    <3> QED BY <2>1, <3>6, <3>7, <3>8, Recovers
  <2>4. CASE ~(device /\ Orphans # {})
    <3>1. Home
      BY <2>1, <2>2, <2>4 DEF Traceable
    <3>2. guard' = Goto("check") /\ UNCHANGED <<step, journal, workers>>
      BY <1>2, <2>4 DEF Inspect
    <3>3. guard'.pc = "check"
      BY <1>1, <3>2 DEF PCs
    <3>4. Home' /\ workers' = {}
      BY <1>0, <2>1, <3>1, <3>2 DEF Home
    <3> QED BY <2>1, <3>3, <3>4 DEF Traceable, Owning
  <2> QED BY <2>3, <2>4
<1>3. CASE OrphanRecovered \/ Finish
  <2>1. /\ guard.pc \in {"orphan", "recovering"} /\ guard.answer # "none"
        /\ UNCHANGED <<windowsVars, journal, workers>>
        /\ snapshot' = IF Recovered THEN [snapshot EXCEPT ![guard.file] = "none"] ELSE snapshot
    BY <1>3 DEF OrphanRecovered, Finish, Retire
  <2>2. Home /\ workers = {}
    <3>1. guard.answer = "ok"
      BY <1>1, <2>1 DEF Traceable, Guards
    <3> QED BY <2>1, <3>1, NobodyWorks DEF Traceable
  <2>3. \A n \in Snaps' : snapshot'[n] = "user"
    BY <1>1, <2>1 DEF Snaps, Traceable, Typed
  <2>4. guard'.pc \in {"none", "check"}
    <3>1. Goto("check") \in Guards /\ Goto("check").pc = "check"
      BY <1>1 DEF PCs
    <3>2. [Goto("check") EXCEPT !.dpiOk = TRUE].pc = "check"
      BY <3>1 DEF Guards
    <3>3. NoGuard.pc = "none"
      BY DEF NoGuard
    <3>4. guard' \in {NoGuard, [Goto("check") EXCEPT !.dpiOk = TRUE]}
      BY <1>3 DEF OrphanRecovered, Finish, Retire
    <3> QED BY ONLY <3>2, <3>3, <3>4
  <2>5. Home' /\ workers' = {}
    BY <1>0, <2>1, <2>2 DEF Home
  <2> QED BY <2>3, <2>4, <2>5 DEF Traceable, Owning
<1>4. CASE Check
  <2>1. guard.pc = "check" /\ Home /\ workers = {}
    BY <1>4, NobodyWorks DEF Check, Traceable
  <2>2. guard' = Goto("save") /\ UNCHANGED <<windowsVars, fileVars, workers>>
    BY <1>4, <2>1 DEF Check, Home
  <2>3. guard'.pc = "save"
    BY <1>1, <2>2 DEF PCs
  <2>4. Home' /\ workers' = {} /\ Snaps' = Snaps
    BY <1>0, <2>1, <2>2 DEF Home, Snaps
  <2> QED BY <2>2, <2>3, <2>4 DEF Traceable, Owning
<1>5. CASE Save
  <2>1. guard.pc = "save" /\ Home /\ workers = {}
    BY <1>5, NobodyWorks DEF Save, Traceable
  <2>2. /\ guard.lease \in Leases /\ snapshot' = [snapshot EXCEPT ![guard.lease] = "user"]
        /\ UNCHANGED <<windowsVars, journal, workers>>
    BY <1>5, <2>1, HolderKnown DEF Save, Home
  <2>3. journal[guard.lease] = NoJournal
    <3>1. guard.lease \notin Snaps
      BY <2>1, HolderKnown DEF FileInv, FilesOrdered, Snaps
    <3> QED BY <1>1, <2>2, <3>1 DEF Journals
  <2>4. guard'.pc = "enable" /\ guard'.lease = guard.lease
    <3>1. Goto("enable") \in Guards /\ Goto("enable").pc = "enable"
          /\ Goto("enable").lease = guard.lease
      BY <1>1 DEF PCs
    <3> QED BY <1>5, <3>1 DEF Save, Guards
  <2>5. \A n \in Snaps' : snapshot'[n] = "user"
    BY <1>1, <2>2 DEF Snaps, Typed, Traceable
  <2>6. Home' /\ workers' = {} /\ Kept(guard.lease)'
    <3>1. snapshot'[guard.lease] = "user"
      BY <1>1, <2>2 DEF Typed
    <3>2. Home' /\ workers' = {}
      BY <1>0, <2>1, <2>2 DEF Home
    <3>3. journal'[guard'.lease] = NoJournal /\ snapshot'[guard'.lease] = "user"
      BY <2>2, <2>3, <2>4, <3>1
    <3> QED BY <3>2, <3>3 DEF Kept, Home
  <2> QED BY <2>4, <2>5, <2>6 DEF Traceable, Owning
\* The steps of a guardian that serves its lease.
<1>6. ASSUME guard.pc \in Owning \ {"recovering"},
             UNCHANGED <<snapshot, journal, step>>,
             NEW pc \in {"enabling", "serve", "resizing", "reenabling", "cleanup"},
             guard' = Goto(pc), \A w \in workers' : w.lease = guard.lease,
             pc = "serve" => device'
      PROVE  Traceable'
  <2>1. guard'.lease = guard.lease /\ guard'.pc = pc /\ guard'.answer = "none"
    BY <1>1, <1>6 DEF PCs
  <2>2. Kept(guard.lease)'
    BY <1>0, <1>6, <2>1 DEF Traceable, Kept
  <2> QED BY <1>6, <2>1, <2>2, ServesOn
<1>7. CASE Enable
  <2>1. workers = {} /\ guard.pc = "enable"
    BY <1>7, NobodyWorks DEF Enable
  <2>2. \A w \in workers' : w.lease = guard.lease
    BY <1>7, <2>1, LaunchIsOwn DEF Enable
  <2>3. guard' = Goto("enabling") \/ guard' = Goto("cleanup")
    BY <1>7 DEF Enable
  <2> QED BY <1>6, <1>7, <2>1, <2>2, <2>3 DEF Enable, Owning
<1>8. CASE Enabled
  <2>1. guard.pc = "enabling" /\ UNCHANGED <<windowsVars, fileVars, workers>>
    BY <1>8 DEF Enabled
  <2>2. \A w \in workers' : w.lease = guard.lease
    BY <2>1 DEF Traceable
  <2>3. guard' = Goto("cleanup") \/ (guard' = Goto("serve") /\ guard.answer = "ok")
    BY <1>8 DEF Enabled
  <2>4. guard.answer = "ok" => device'
    BY <2>1 DEF Traceable
  <2> QED BY <1>6, <2>1, <2>2, <2>3, <2>4 DEF Owning
<1>9. CASE Resized
  <2>1. guard.pc = "resizing" /\ workers = {}
    BY <1>9, NobodyWorks DEF Resized
  <2>2. \A w \in workers' : w.lease = guard.lease
    BY <1>9, <2>1, LaunchIsOwn DEF Resized
  <2>3. guard' = Goto("reenabling") \/ guard' = Goto("cleanup")
    BY <1>9 DEF Resized
  <2> QED BY <1>6, <1>9, <2>1, <2>2, <2>3 DEF Resized, Owning
<1>10. CASE Reenabled
  <2>1. guard.pc = "reenabling" /\ UNCHANGED <<windowsVars, fileVars, workers>>
    BY <1>10 DEF Reenabled
  <2>2. \A w \in workers' : w.lease = guard.lease
    BY <2>1 DEF Traceable
  <2>3. guard' = Goto("cleanup") \/ (guard' = Goto("serve") /\ guard.answer = "ok")
    BY <1>10 DEF Reenabled
  <2>4. guard.answer = "ok" => device'
    BY <2>1 DEF Traceable
  <2> QED BY <1>6, <2>1, <2>2, <2>3, <2>4 DEF Owning
<1>11. CASE Release
  <2>1. guard.pc = "serve" /\ UNCHANGED <<windowsVars, fileVars, workers>>
        /\ guard' = Goto("cleanup")
    BY <1>11 DEF Release
  <2>2. \A w \in workers' : w.lease = guard.lease
    BY <2>1 DEF Traceable
  <2> QED BY <1>6, <2>1, <2>2 DEF Owning
<1>12. CASE ServeDpi
  <2>1. PICK ok \in BOOLEAN :
          /\ CASE channel.op = "capture" -> DpiCapture(guard.lease, ok)
               [] channel.op = "set" -> DpiChange(guard.lease, channel.scale, ok)
               [] channel.op = "restore" -> DpiRestore(guard.lease, TRUE, FALSE, ok)
               [] channel.op = "reset" -> DpiRestore(guard.lease, FALSE, TRUE, ok)
          /\ Accept(guard.lease, ok /\ channel.op = "restore")
    BY <1>12 DEF ServeDpi
  <2>2. channel.op \in {"capture", "set", "restore", "reset"}
    BY <1>1, <1>12 DEF ServeDpi, Typed, Ops
  <2>3. \/ DpiCapture(guard.lease, ok)
        \/ DpiChange(guard.lease, channel.scale, ok)
        \/ DpiRestore(guard.lease, TRUE, FALSE, ok) /\ Recorded(guard.lease, FALSE, ok)
        \/ DpiRestore(guard.lease, FALSE, TRUE, ok) /\ Recorded(guard.lease, TRUE, ok)
    BY <1>0, <2>1, <2>2 DEF Accept, Recorded
  <2>4. /\ guard.pc = "serve" /\ UNCHANGED <<device, snapshot, guard, workers>>
    BY <1>12 DEF ServeDpi
  <2>5. PICK n \in Leases : n = guard.lease
    BY <2>4, HolderKnown
  <2>6. Kept(n)
    BY <2>4, <2>5 DEF Traceable, Owning
  <2>7. Kept(n)'
    BY <1>0, <1>1, <2>3, <2>4, <2>5, <2>6, RestoreKeepsTrace, CommandKeepsTrace
  <2>8. Kept(guard.lease)' /\ device' /\ \A w \in workers' : w.lease = guard.lease
    BY <2>4, <2>5, <2>7 DEF Traceable, Kept
  <2> QED BY <2>4, <2>8, ServesOn
<1>13. CASE ServeResize
  <2>1. PICK ok \in BOOLEAN :
          /\ DpiRestore(guard.lease, FALSE, TRUE, ok)
          /\ IF ok
             THEN Launch("resize", guard.lease, channel.target) /\ guard' = Goto("resizing")
             ELSE guard' = Goto("cleanup") /\ UNCHANGED workers
    BY <1>13 DEF ServeResize
  <2>2. guard.pc = "serve" /\ UNCHANGED snapshot /\ workers = {}
    BY <1>13, NobodyWorks DEF ServeResize
  <2>3. PICK n \in Leases : n = guard.lease
    BY <2>2, HolderKnown
  <2>4. Kept(n)
    BY <2>2, <2>3 DEF Traceable, Owning
  <2>5. Kept(n)'
    <3>1. Recorded(n, TRUE, ok)
      BY <1>0 DEF Recorded
    <3> QED BY <1>1, <2>1, <2>2, <2>3, <2>4, <3>1, RestoreKeepsTrace
  <2>6. guard'.lease = guard.lease /\ guard'.pc \in {"resizing", "cleanup"}
    BY <1>1, <2>1 DEF PCs
  <2>7. Kept(guard.lease)'
    BY <2>3, <2>5, <2>6 DEF Kept
  <2>8. \A w \in workers' : w.lease = guard.lease
    BY <2>1, <2>2, LaunchIsOwn
  <2> QED BY <2>2, <2>6, <2>7, <2>8, ServesOn
<1>14. CASE Cleanup
  <2>1. PICK ok \in BOOLEAN :
          /\ DpiRestore(guard.lease, TRUE, TRUE, ok)
          /\ guard' = [Goto("recovering") EXCEPT !.dpiOk = ok]
          /\ disturbed' = (disturbed \/ ~ok)
    BY <1>14 DEF Cleanup
  <2>2. /\ guard.pc = "cleanup" /\ UNCHANGED snapshot /\ workers = {}
        /\ Launch("recover", guard.lease, StartMode)
    BY <1>14, NobodyWorks DEF Cleanup
  <2>3. PICK n \in Leases : n = guard.lease
    BY <2>2, HolderKnown
  <2>4. Kept(n)
    BY <2>2, <2>3 DEF Traceable, Owning
  <2>5. ok
    BY <2>1
  <2>6. step' \in accepted'
    <3>1. Recorded(n, TRUE, ok)
      BY <1>0 DEF Recorded
    <3> QED BY <1>1, <2>1, <2>2, <2>3, <2>4, <2>5, <3>1, RestoreKeepsTrace
  <2>7. /\ guard'.lease = guard.lease /\ guard'.pc = "recovering" /\ guard'.answer = "none"
        /\ guard'.dpiOk
    <3>1. Goto("recovering") \in Guards /\ Goto("recovering").pc = "recovering"
          /\ Goto("recovering").lease = guard.lease /\ Goto("recovering").answer = "none"
      BY <1>1 DEF PCs
    <3> QED BY <2>1, <2>5, <3>1 DEF Guards
  <2>8. \A w \in workers' : w.lease = guard.lease /\ w.stage = "disable"
    BY <2>2, LaunchIsOwn
  <2> QED BY <2>2, <2>6, <2>7, <2>8, Recovers
<1> QED BY <1>2, <1>3, <1>4, <1>5, <1>7, <1>8, <1>9, <1>10, <1>11, <1>12, <1>13, <1>14
        DEF Guardian

LEMMA WorkerTraces ==
    ASSUME FileInv, Traceable, NEW w \in workers, Worker(w), ~disturbed', ~disturbed
    PROVE  Traceable'
<1> USE DEF windowsVars, fileVars, recordVars
<1>1. /\ guard \in Guards /\ w \in Workers /\ w.lease = guard.lease /\ workers = {w}
      /\ guard.answer = "none" /\ w.kind = OwnKind(guard.pc)
      /\ w.kind = "recover" => w.file = guard.file
      /\ w.stage \in IF w.kind = "recover" THEN {"disable", "layout"} ELSE {"check", "act"}
  BY DEF FileInv, Typed, WorkersKnown, Own, Traceable
<1>2. UNCHANGED <<step, snapshot, journal, accepted>> /\ Snaps' = Snaps
  BY DEF Worker, WorkerChecks, WorkerEnables, WorkerResizes, WorkerDisables,
         WorkerRestores, WorkerFails, rest, Snaps
<1>3. guard.pc \in {"enabling", "reenabling", "resizing", "orphan", "recovering"}
  BY <1>1 DEF OwnKind, Workers, Guards
<1>4. /\ w.kind = "recover" <=> guard.pc \in {"orphan", "recovering"}
      /\ w.kind = "enable" <=> guard.pc \in {"enabling", "reenabling"}
      /\ w.kind = "resize" <=> guard.pc = "resizing"
  BY <1>1, <1>3 DEF OwnKind
\* A worker that exits leaves none; one that goes on is the same.
<1>5. ASSUME NEW answer, Exit(w, answer)
      PROVE  /\ workers' = {} /\ guard'.answer = answer /\ guard'.pc = guard.pc
             /\ guard'.lease = guard.lease /\ guard'.dpiOk = guard.dpiOk
  BY <1>1, <1>5 DEF Exit, Guards
<1>6. ASSUME NEW stage, Proceed(w, stage)
      PROVE  /\ guard' = guard
             /\ \A x \in workers' : x.lease = guard.lease
  <2>1. [w EXCEPT !.stage = stage].lease = w.lease
    BY <1>1 DEF Workers
  <2>2. workers' = {[w EXCEPT !.stage = stage]} /\ guard' = guard
    BY <1>1, <1>6 DEF Proceed
  <2> QED BY <1>1, <2>1, <2>2
\* Workers of a lease that is served.
<1>7. ASSUME guard.pc \in {"enabling", "reenabling", "resizing"},
             \/ \E answer : Exit(w, answer) /\ (answer = "ok" /\ guard.pc # "resizing" => device')
             \/ \E stage : Proceed(w, stage)
      PROVE  Traceable'
  <2>1. /\ guard'.pc = guard.pc /\ guard'.lease = guard.lease
        /\ \A x \in workers' : x.lease = guard.lease
    BY <1>5, <1>6, <1>7
  <2>2. guard'.pc \in {"enabling", "reenabling"} /\ guard'.answer = "ok" => device'
    <3>1. CASE \E stage : Proceed(w, stage)
      BY <1>1, <1>6, <3>1
    <3>2. CASE \E answer : Exit(w, answer) /\ (answer = "ok" /\ guard.pc # "resizing" => device')
      <4>1. PICK answer : Exit(w, answer) /\ (answer = "ok" /\ guard.pc # "resizing" => device')
        BY <3>2
      <4> QED BY <1>5, <4>1
    <3> QED BY <1>7, <3>1, <3>2
  <2>3. Kept(guard.lease)'
    BY <1>2, <1>7, <2>1 DEF Traceable, Kept, Owning
  <2> QED BY <1>2, <1>7, <2>1, <2>2, <2>3, ServesOn
<1>8. CASE WorkerChecks(w)
  <2>1. guard.pc \in {"enabling", "reenabling", "resizing"}
    BY <1>1, <1>3, <1>4, <1>8 DEF WorkerChecks
  <2>2. Proceed(w, "act") \/ Exit(w, "failed")
    BY <1>8 DEF WorkerChecks
  <2> QED BY <1>7, <2>1, <2>2
<1>9. CASE WorkerEnables(w)
  <2>1. guard.pc \in {"enabling", "reenabling"} /\ device'
    BY <1>4, <1>9 DEF WorkerEnables
  <2>2. PICK answer \in Answers : Exit(w, answer)
    BY <1>9 DEF WorkerEnables
  <2> QED BY <1>7, <2>1, <2>2
<1>10. CASE WorkerResizes(w)
  <2>1. guard.pc = "resizing"
    BY <1>4, <1>10 DEF WorkerResizes
  <2>2. PICK answer \in Answers : Exit(w, answer)
    BY <1>10 DEF WorkerResizes
  <2> QED BY <1>7, <2>1, <2>2
<1>11. CASE WorkerFails(w)
  <2>1. guard.pc \in {"enabling", "reenabling", "resizing"} /\ Exit(w, "failed")
    BY <1>3, <1>4, <1>11 DEF WorkerFails
  <2> QED BY <1>7, <2>1
<1>12. CASE WorkerDisables(w)
  <2>1. guard.pc \in {"orphan", "recovering"} /\ ~device' /\ Proceed(w, "layout")
    BY <1>4, <1>12 DEF WorkerDisables
  <2>2. guard' = guard /\ \A x \in workers' : x.lease = guard.lease
    BY <1>6, <2>1
  <2> QED BY <1>1, <1>2, <2>1, <2>2 DEF Traceable, Owning
<1>13. CASE WorkerRestores(w)
  <2>1. guard.pc \in {"orphan", "recovering"} /\ w.file = guard.file /\ w.stage = "layout"
    BY <1>1, <1>4, <1>13 DEF WorkerRestores
  <2>2. snapshot[w.file] = "user"
    BY <2>1 DEF Traceable, FileInv, FilesOrdered, Owning
  <2>3. ~device /\ step \in accepted /\ guard.dpiOk
    BY <1>1, <2>1 DEF Traceable
  <2>4. layout' = "user" /\ Exit(w, "ok") /\ device' = device
    BY <1>13, <2>2, <2>3 DEF WorkerRestores, Layouts
  <2>5. /\ workers' = {} /\ guard'.answer = "ok" /\ guard'.pc = guard.pc
        /\ guard'.lease = guard.lease /\ guard'.dpiOk
    BY <1>5, <2>3, <2>4
  <2>6. Home'
    BY <1>2, <2>3, <2>4 DEF Home
  <2> QED BY <1>2, <2>1, <2>3, <2>5, <2>6 DEF Traceable, Owning
<1> QED BY <1>8, <1>9, <1>10, <1>11, <1>12, <1>13 DEF Worker

LEMMA BaselineInvKept ==
    ASSUME FileInv, PreferenceInv, BaselineInv, [Next]_vars
    PROVE  BaselineInv'
<1> SUFFICES ASSUME ~disturbed' PROVE Traceable'
  BY DEF BaselineInv
<1> USE DEF vars, windowsVars, fileVars, recordVars
<1>1. ~disturbed /\ Traceable
  BY Undisturbed DEF BaselineInv
<1>2. CASE Guardian
  BY <1>1, <1>2, GuardianTraces
<1>3. ASSUME NEW w \in workers, Worker(w) PROVE Traceable'
  BY <1>1, <1>3, WorkerTraces
<1>4. CASE Acquire
  <2>1. /\ guard = NoGuard /\ UNCHANGED <<device, layout, step, snapshot, journal, workers, accepted>>
        /\ guard' = [NoGuard EXCEPT !.lease = used + 1, !.pc = "inspect"]
    BY <1>4 DEF Acquire
  <2>2. guard.pc = "none" /\ guard'.pc = "inspect"
    BY <2>1 DEF NoGuard
  <2>3. workers = {}
    BY <1>1, <2>2, NobodyWorks
  <2> QED BY <1>1, <2>1, <2>2, <2>3 DEF Traceable, Snaps, Home, Kept, Owning
<1>5. CASE Killed
  <2>1. /\ guard # NoGuard /\ guard' = NoGuard /\ guard.pc \notin Working
        /\ UNCHANGED <<device, layout, step, snapshot, journal, accepted>>
        /\ workers' \subseteq workers
    BY <1>5 DEF Killed
  <2>2. guard.pc \in {"inspect", "check", "save", "enable", "serve"}
    BY <2>1 DEF FileInv, FilesOrdered, Typed, Guards, PCs, Working
  <2>3. workers = {} /\ guard'.pc = "none"
    BY <1>1, <2>1, <2>2, NobodyWorks DEF NoGuard
  <2>4. Home \/ (device /\ \E n \in Snaps : Kept(n) /\ \A k \in Snaps : k <= n)
    <3>1. CASE guard.pc = "serve"
      <4>1. guard.lease \in Snaps /\ \A k \in Snaps : k <= guard.lease
        BY <3>1, HolderIsNewest DEF Owning
      <4> QED BY <1>1, <3>1, <4>1 DEF Traceable, Owning
    <3>2. CASE guard.pc # "serve"
      BY <1>1, <2>2, <3>2 DEF Traceable
    <3> QED BY <3>1, <3>2
  <2> QED BY <1>1, <2>1, <2>3, <2>4 DEF Traceable, Snaps, Home, Kept, Owning
<1>6. CASE Request \/ InputEnds \/ HelperActs \/ Command \/ Answered \/ TimedOut \/ HelperDies
           \/ UNCHANGED vars
  <2>1. UNCHANGED <<device, layout, step, journal, snapshot, guard, workers, accepted>>
    BY <1>6 DEF Request, InputEnds, HelperActs, Command, Answered, TimedOut, HelperDies
  <2> QED BY <1>1, <2>1 DEF Traceable, Snaps, Home, Kept
<1> QED BY <1>2, <1>3, <1>4, <1>5, <1>6 DEF Next

-----------------------------------------------------------------------------
(* The layout                                                              *)

LEMMA Countable ==
    ASSUME Typed
    PROVE  /\ IsFiniteSet(Snaps) /\ Cardinality(Snaps) \in Nat
           /\ IsFiniteSet(Pending) /\ Cardinality(Pending) \in Nat
           /\ Snaps # {} => Cardinality(Snaps) >= 1
           /\ Snaps = {} => Cardinality(Snaps) = 0
<1>1. IsFiniteSet(Leases)
  BY FS_Interval DEF Leases
<1>2. IsFiniteSet(Snaps)
  BY <1>1, FS_Subset DEF Snaps
<1>3. IsFiniteSet(Pending)
  BY FS_Subset DEF Pending, Typed
<1>4. Cardinality(Snaps) \in Nat /\ Cardinality(Pending) \in Nat
  BY <1>2, <1>3, FS_CardinalityType
<1>5. Cardinality(Snaps) = 0 <=> Snaps = {}
  BY <1>2, FS_EmptySet
<1> QED BY <1>2, <1>3, <1>4, <1>5

LEMMA TwoAreTwo ==
    ASSUME NEW S, IsFiniteSet(S), NEW j \in S, NEW k \in S, j # k
    PROVE  Cardinality(S) >= 2
<1>1. IsFiniteSet(S \ {j}) /\ Cardinality(S \ {j}) = Cardinality(S) - 1
  BY FS_RemoveElement
<1>2. Cardinality(S \ {j}) # 0
  BY <1>1, FS_EmptySet
<1>3. Cardinality(S \ {j}) \in Nat /\ Cardinality(S) \in Nat
  BY <1>1, FS_CardinalityType
<1> QED BY <1>1, <1>2, <1>3

\* A snapshot of the user's layout, or another one besides.
LEMMA SnapshotIsUsers ==
    ASSUME Typed, OldestIsUsers, NEW k \in Snaps
    PROVE  snapshot[k] = "user" \/ Cardinality(Snaps) >= 2
<1>1. CASE snapshot[k] # "user"
  <2>1. PICK j \in Snaps : j < k
    BY <1>1 DEF OldestIsUsers
  <2>2. j # k
    BY <2>1 DEF Snaps, Leases
  <2> QED BY <2>2, Countable, TwoAreTwo
<1> QED BY <1>1

LEMMA OwedBounds ==
    ASSUME Typed
    PROVE  /\ Owed \in Nat /\ Enabled1 \in {0, 1} /\ Owed >= Enabled1
           /\ guard.pc \in {"orphan", "recovering"} /\ guard.answer = "ok" => Owed = 1 + Enabled1
<1>1. Enabled1 \in {0, 1}
  BY DEF Enabled1
<1>2. guard.pc \in PCs
  BY DEF Typed, Guards
<1>3. Owed \in {1, Enabled1, 1 + Enabled1} /\ (Owed = Enabled1 \/ Owed >= 1)
  BY <1>1, <1>2 DEF Owed, PCs
<1>4. guard.pc \in {"orphan", "recovering"} /\ guard.answer = "ok" => Owed = 1 + Enabled1
  BY DEF Owed
<1> QED  BY <1>1, <1>3, <1>4

\* While some worker will enable the display, or it is enabled, there is a
\* snapshot; and two when one is about to be deleted.
LEMMA SnapshotsExist ==
    ASSUME Typed, SnapshotsSuffice, device \/ Pending # {}
    PROVE  /\ Snaps # {}
           /\ guard.pc \in {"orphan", "recovering"} /\ guard.answer = "ok" =>
                 Cardinality(Snaps) >= 2
<1>1. Pending # {} => Cardinality(Pending) >= 1
  <2>1. Cardinality(Pending) = 0 <=> Pending = {}
    BY Countable, FS_EmptySet
  <2> QED BY <2>1, Countable
<1>2. Cardinality(Pending) + Enabled1 >= 1
  BY <1>1, Countable DEF Enabled1
<1> HIDE DEF Enabled1
<1> QED BY <1>2, Countable, OwedBounds DEF SnapshotsSuffice

\* A step of the guardian that leaves the layout, the files and the display.
LEMMA GuardStepKeepsLayout ==
    ASSUME FileInv, LayoutInv, UNCHANGED <<snapshot, layout>>,
           Cardinality(Pending') + Owed' <= Cardinality(Pending) + Owed,
           Owed' \in Nat, Cardinality(Pending') \in Nat,
           guard'.pc \notin {"orphan", "recovering"} \/ guard'.answer # "ok"
    PROVE  LayoutInv'
<1>1. Snaps' = Snaps /\ OldestIsUsers'
  BY DEF Snaps, LayoutInv, OldestIsUsers
<1>2. SnapshotsSuffice'
  BY <1>1, Countable, OwedBounds DEF FileInv, LayoutInv, SnapshotsSuffice
<1> QED BY <1>1, <1>2 DEF LayoutInv

\* The worker that the guardian launches is not among those that will enable.
LEMMA LaunchPending ==
    ASSUME Own = {}, NEW kind \in {"enable", "resize", "recover"}, NEW file, NEW target,
           Launch(kind, file, target), guard'.lease = guard.lease
    PROVE  /\ Pending' = Pending
           /\ \A w \in Own' : w.stage \in {"check", "disable"}
<1> DEFINE new == [lease |-> guard.lease, kind |-> kind, file |-> file,
                   stage |-> IF kind = "recover" THEN "disable" ELSE "check", target |-> target]
<1>1. new.stage \in {"check", "disable"} /\ workers' = workers \cup {new}
  BY DEF Launch
<1> HIDE DEF new
<1>2. Own' \subseteq {new}
  BY <1>1 DEF Own
<1> QED BY <1>1, <1>2 DEF Pending

LEMMA GuardianKeepsLayout ==
    ASSUME FileInv, LayoutInv, Guardian
    PROVE  LayoutInv'
<1> USE DEF vars, windowsVars, fileVars, recordVars
<1>1. /\ Typed /\ FilesOrdered /\ WorkersKnown /\ guard \in Guards
      /\ Typed' /\ Owed' \in Nat /\ Cardinality(Pending') \in Nat
  <2>1. Typed'
    BY TypedKept DEF Next
  <2>2. Owed' \in Nat
    BY <2>1 DEF Typed, Guards, PCs, Owed, Enabled1
  <2>3. IsFiniteSet(Pending')
    BY <2>1, FS_Subset DEF Pending, Typed
  <2>4. Cardinality(Pending') \in Nat
    BY <2>3, FS_CardinalityType
  <2> QED BY <2>1, <2>2, <2>4 DEF FileInv, Typed
<1>2. /\ \A pc \in PCs : /\ Goto(pc) \in Guards /\ Goto(pc).pc = pc /\ Goto(pc).answer = "none"
                         /\ Goto(pc).lease = guard.lease
      /\ NoGuard.pc = "none" /\ NoGuard.answer = "none"
      /\ Cardinality(Pending) \in Nat /\ Owed \in Nat
  BY <1>1, GotoIs, GuardsTyped, Countable, OwedBounds DEF NoGuard
\* Steps that launch nothing.
<1>3. ASSUME UNCHANGED <<snapshot, layout, workers, device>>, Owed' <= Owed,
             guard'.answer = "none"
      PROVE  LayoutInv'
  <2>1. Pending' = Pending
    BY <1>3 DEF Pending
  <2> QED BY <1>1, <1>2, <1>3, <2>1, GuardStepKeepsLayout
\* Steps that launch a worker.
<1>4. ASSUME UNCHANGED <<snapshot, layout, device>>, Own = {},
             NEW kind \in {"enable", "resize", "recover"}, NEW file, NEW target,
             Launch(kind, file, target), guard'.lease = guard.lease, guard'.answer = "none",
             (\A w \in Own' : w.stage \in {"check", "disable"}) => Owed' <= Owed
      PROVE  LayoutInv'
  <2>1. Pending' = Pending /\ Owed' <= Owed
    BY <1>4, LaunchPending
  <2> QED BY <1>1, <1>2, <1>4, <2>1, GuardStepKeepsLayout
<1>5. CASE Inspect
  <2>1. Own = {} /\ UNCHANGED <<snapshot, layout, device>>
    BY <1>5, NoOwnWorker DEF Inspect
  <2>2. CASE device /\ Orphans # {}
    <3>1. PICK ok \in BOOLEAN :
            /\ Launch("recover", Max(Orphans), StartMode)
            /\ guard' = [Goto("orphan") EXCEPT !.file = Max(Orphans), !.dpiOk = ok]
      BY <1>5, <2>2 DEF Inspect
    <3>2. guard'.pc = "orphan" /\ guard'.lease = guard.lease /\ guard'.answer = "none"
      <4>1. Goto("orphan") \in Guards /\ Goto("orphan").pc = "orphan"
            /\ Goto("orphan").lease = guard.lease /\ Goto("orphan").answer = "none"
        BY <1>2 DEF PCs
      <4> QED BY <3>1, <4>1 DEF Guards
    <3>3. Owed = 1
      BY <1>5, <2>2 DEF Inspect, Owed, Enabled1
    <3>4. (\A w \in Own' : w.stage \in {"check", "disable"}) => Owed' = 1
      BY <3>2 DEF Owed
    <3> QED BY <1>4, <2>1, <3>1, <3>2, <3>3, <3>4
  <2>3. CASE ~(device /\ Orphans # {})
    <3>1. guard'.pc = "check" /\ guard'.answer = "none" /\ workers' = workers
      BY <1>2, <1>5, <2>3 DEF Inspect, PCs
    <3>2. Owed' = Owed
      <4>1. Owed = Enabled1
        BY <1>5 DEF Inspect, Owed
      <4>2. Owed' = Enabled1
        BY <2>1, <3>1 DEF Owed, Enabled1
      <4> QED BY <4>1, <4>2
    <3> QED BY <1>2, <1>3, <2>1, <3>1, <3>2
  <2> QED BY <2>2, <2>3
<1>6. CASE OrphanRecovered \/ Finish
  <2>1. /\ guard.pc \in {"orphan", "recovering"} /\ guard.answer # "none"
        /\ UNCHANGED <<layout, device, workers>>
        /\ snapshot' = IF Recovered THEN [snapshot EXCEPT ![guard.file] = "none"] ELSE snapshot
    BY <1>6 DEF OrphanRecovered, Finish, Retire
  <2>2. guard'.pc \in {"check", "none"} /\ guard'.answer = "none"
    <3>1. [Goto("check") EXCEPT !.dpiOk = TRUE].pc = "check"
          /\ [Goto("check") EXCEPT !.dpiOk = TRUE].answer = "none"
      <4>1. Goto("check") \in Guards /\ Goto("check").pc = "check" /\ Goto("check").answer = "none"
        BY <1>2 DEF PCs
      <4> QED BY <4>1 DEF Guards
    <3>2. guard' \in {NoGuard, [Goto("check") EXCEPT !.dpiOk = TRUE]}
      BY <1>6 DEF OrphanRecovered, Finish, Retire
    <3> QED BY ONLY <1>2, <3>1, <3>2
  <2>3. Owed' = Enabled1 /\ Enabled1 \in {0, 1} /\ Pending' = Pending
    BY <2>1, <2>2 DEF Owed, Enabled1, Pending
  <2>4. CASE ~Recovered
    <3>1. Owed' <= Owed
      BY <1>1, <2>3, OwedBounds
    <3> QED BY <1>3, <2>1, <2>2, <2>4, <3>1
  <2>5. CASE Recovered
    <3>1. Owed = 1 + Enabled1 /\ (Cardinality(Snaps) >= 2 \/ layout = "user")
      BY <1>1, <2>1, <2>5, OwedBounds DEF Recovered, LayoutInv
    <3>2. guard.file \in Snaps /\ \A n \in Snaps : n <= guard.file
      BY <1>1, <2>1 DEF FilesOrdered, Owning
    <3>3. Snaps' = Snaps \ {guard.file} /\ \A n \in Snaps' : snapshot'[n] = snapshot[n]
      BY <1>1, <2>1, <2>5, <3>2 DEF Snaps, Typed
    <3>4. IsFiniteSet(Snaps) /\ Cardinality(Snaps) \in Nat
      BY <1>1, Countable
    <3>5. IsFiniteSet(Snaps') /\ Cardinality(Snaps') = Cardinality(Snaps) - 1
      BY <3>2, <3>3, <3>4, FS_RemoveElement
    <3>6. OldestIsUsers'
      <4> SUFFICES ASSUME NEW k \in Snaps', snapshot'[k] # "user"
                   PROVE  \E j \in Snaps' : j < k /\ snapshot'[j] = "user"
        BY DEF OldestIsUsers
      <4>1. PICK j \in Snaps : j < k /\ snapshot[j] = "user"
        BY <3>3 DEF LayoutInv, OldestIsUsers
      <4>2. j # guard.file
        BY <3>2, <3>3, <4>1 DEF Snaps, Leases
      <4> QED BY <3>3, <4>1, <4>2
    <3>7. SnapshotsSuffice'
      BY <1>2, <2>3, <3>1, <3>4, <3>5 DEF LayoutInv, SnapshotsSuffice
    <3>8. layout' # "user" => Snaps' # {}
      <4>1. Cardinality(Snaps') = 0 <=> Snaps' = {}
        BY <3>5, FS_EmptySet
      <4> QED BY <2>1, <3>1, <3>4, <3>5, <4>1
    <3> QED BY <2>2, <3>6, <3>7, <3>8 DEF LayoutInv
  <2> QED BY <2>4, <2>5
<1>7. CASE Check
  <2>1. guard'.pc \in {"none", "save"} /\ guard'.answer = "none"
    BY <1>2, <1>7 DEF Check, PCs
  <2>2. Owed' = Owed
    BY <1>7, <2>1 DEF Check, Owed, Enabled1
  <2> QED BY <1>2, <1>3, <1>7, <2>1, <2>2 DEF Check
<1>8. CASE Save
  <2>1. /\ guard.pc = "save" /\ guard.lease = used /\ used \in Leases
        /\ snapshot[used] = "none" /\ UNCHANGED <<device, layout, workers>>
        /\ snapshot' = [snapshot EXCEPT ![used] = IF device THEN "virtual" ELSE layout]
    BY <1>1, <1>8 DEF Save, FilesOrdered
  <2>2. guard'.pc = "enable"
    <3>1. Goto("enable") \in Guards /\ Goto("enable").pc = "enable"
      BY <1>2 DEF PCs
    <3> QED BY <1>8, <3>1 DEF Save, Guards
  <2>3. /\ used \notin Snaps /\ Snaps' = Snaps \cup {used}
        /\ \A n \in Snaps : snapshot'[n] = snapshot[n]
        /\ snapshot'[used] = (IF device THEN "virtual" ELSE layout)
    <3>1. DOMAIN snapshot = Leases /\ layout \in Layouts
      BY <1>1 DEF Typed
    <3>2. /\ \A n \in Leases : snapshot'[n] = IF n = used THEN (IF device THEN "virtual" ELSE layout)
                                          ELSE snapshot[n]
      BY <2>1, <3>1
    <3>3. snapshot'[used] # "none"
      BY <2>1, <3>1, <3>2 DEF Layouts
    <3> QED  BY <2>1, <3>2, <3>3 DEF Snaps
  <2>4. Cardinality(Snaps') = Cardinality(Snaps) + 1 /\ Cardinality(Snaps) \in Nat
    BY <1>1, <2>3, Countable, FS_AddElement
  <2>5. Owed = Enabled1 /\ Owed' = 1 + Enabled1 /\ Pending' = Pending
    BY <2>1, <2>2 DEF Owed, Enabled1, Pending
  <2>6. SnapshotsSuffice'
    BY <1>2, <2>4, <2>5 DEF LayoutInv, SnapshotsSuffice
  <2>7. OldestIsUsers'
    <3>1. CASE Snaps = {}
      <4>1. ~device /\ layout = "user"
        BY <1>1, <3>1, SnapshotsExist DEF LayoutInv
      <4> QED BY <2>3, <3>1, <4>1 DEF OldestIsUsers
    <3>2. CASE Snaps # {}
      <4>1. PICK j \in Snaps : snapshot[j] = "user"
        BY <3>2 DEF LayoutInv, OldestIsUsers
      <4>2. j < used
        BY <1>1, <2>1, <2>3, <4>1 DEF FilesOrdered, Leases
      <4> QED BY <2>3, <4>1, <4>2 DEF LayoutInv, OldestIsUsers
    <3> QED BY <3>1, <3>2
  <2> QED BY <2>1, <2>2, <2>3, <2>6, <2>7 DEF LayoutInv
<1>9. CASE Enable
  <2>1. Own = {} /\ UNCHANGED <<snapshot, layout, device>> /\ Owed = 1 + Enabled1
    BY <1>9, NoOwnWorker DEF Enable, Owed
  <2>2. CASE alive
    <3>1. /\ Launch("enable", guard.lease, StartMode)
          /\ guard'.pc = "enabling" /\ guard'.answer = "none" /\ guard'.lease = guard.lease
      BY <1>2, <1>9, <2>2 DEF Enable, PCs
    <3>2. Owed' <= Owed
      <4>1. Owed' \in {Enabled1, 1 + Enabled1}
        BY <2>1, <3>1 DEF Owed, Enabled1
      <4> QED BY <2>1, <4>1 DEF Enabled1
    <3> QED BY <1>4, <2>1, <3>1, <3>2
  <2>3. CASE ~alive
    <3>1. guard'.pc = "cleanup" /\ guard'.answer = "none" /\ workers' = workers
      BY <1>2, <1>9, <2>3 DEF Enable, PCs
    <3>2. Owed' <= Owed
      <4>1. Owed' = 1
        BY <3>1 DEF Owed
      <4> QED BY <2>1, <4>1 DEF Enabled1
    <3> QED BY <1>3, <2>1, <3>1, <3>2
  <2> QED BY <2>2, <2>3
<1>10. CASE Enabled \/ Reenabled \/ Release
  <2>1. /\ UNCHANGED <<snapshot, layout, workers, device>>
        /\ guard'.pc \in {"serve", "cleanup"} /\ guard'.answer = "none"
    BY <1>2, <1>10 DEF Enabled, Reenabled, Release, PCs
  <2>2. Owed = 1 /\ Owed' = 1
    BY <1>10, <2>1 DEF Enabled, Reenabled, Release, Owed
  <2> QED BY <1>3, <2>1, <2>2
<1>11. CASE ServeDpi
  <2>1. UNCHANGED <<snapshot, layout, workers, device, guard>> /\ guard.pc = "serve"
    BY <1>11 DEF ServeDpi
  <2>2. Owed' = Owed /\ Pending' = Pending
    BY <2>1 DEF Owed, Pending
  <2> QED BY <1>1, <1>2, <2>1, <2>2, GuardStepKeepsLayout
<1>12. CASE ServeResize
  <2>1. Own = {} /\ UNCHANGED <<snapshot, layout, device>> /\ Owed = 1
    BY <1>12, NoOwnWorker DEF ServeResize, Owed
  <2>2. CASE Launch("resize", guard.lease, channel.target) /\ guard' = Goto("resizing")
    <3>1. guard'.pc = "resizing" /\ guard'.answer = "none" /\ guard'.lease = guard.lease
      BY <1>2, <2>2 DEF PCs
    <3>2. Owed' = 1
      BY <3>1 DEF Owed
    <3> QED BY <1>4, <2>1, <2>2, <3>1, <3>2
  <2>3. CASE UNCHANGED workers /\ guard' = Goto("cleanup")
    <3>1. guard'.pc = "cleanup" /\ guard'.answer = "none"
      BY <1>2, <2>3 DEF PCs
    <3>2. Owed' = 1
      BY <3>1 DEF Owed
    <3> QED BY <1>3, <2>1, <2>3, <3>1, <3>2
  <2> QED BY <1>12, <2>2, <2>3 DEF ServeResize
<1>13. CASE Resized
  <2>1. Own = {} /\ UNCHANGED <<snapshot, layout, device>>
    BY <1>13, NoOwnWorker DEF Resized
  <2>2. CASE guard.answer = "ok" /\ alive
    <3>1. /\ Launch("enable", guard.lease, StartMode)
          /\ guard'.pc = "reenabling" /\ guard'.answer = "none" /\ guard'.lease = guard.lease
      BY <1>2, <1>13, <2>2 DEF Resized, PCs
    <3>2. Owed = 1 + Enabled1
      BY <1>13, <2>2 DEF Resized, Owed
    <3>3. Owed' <= Owed
      <4>1. Owed' \in {Enabled1, 1 + Enabled1}
        BY <2>1, <3>1 DEF Owed, Enabled1
      <4> QED BY <3>2, <4>1 DEF Enabled1
    <3> QED BY <1>4, <2>1, <3>1, <3>3
  <2>3. CASE ~(guard.answer = "ok" /\ alive)
    <3>1. guard'.pc = "cleanup" /\ guard'.answer = "none" /\ workers' = workers
      BY <1>2, <1>13, <2>3 DEF Resized, PCs
    <3>2. Owed' <= Owed
      BY <1>13, <3>1 DEF Resized, Owed, Enabled1
    <3> QED BY <1>3, <2>1, <3>1, <3>2
  <2> QED BY <2>2, <2>3
<1>14. CASE Cleanup
  <2>1. Own = {} /\ UNCHANGED <<snapshot, layout, device>> /\ Owed = 1
    BY <1>14, NoOwnWorker DEF Cleanup, Owed
  <2>2. guard'.pc = "recovering" /\ guard'.answer = "none" /\ guard'.lease = guard.lease
    <3>1. Goto("recovering") \in Guards /\ Goto("recovering").pc = "recovering"
          /\ Goto("recovering").lease = guard.lease /\ Goto("recovering").answer = "none"
      BY <1>2 DEF PCs
    <3> QED BY <1>14, <3>1 DEF Cleanup, Guards
  <2>3. (\A w \in Own' : w.stage \in {"check", "disable"}) => Owed' = 1
    BY <2>2 DEF Owed
  <2> QED BY <1>4, <1>14, <2>1, <2>2, <2>3 DEF Cleanup
<1> QED BY <1>5, <1>6, <1>7, <1>8, <1>9, <1>10, <1>11, <1>12, <1>13, <1>14 DEF Guardian

\* A worker that the guardian does not wait for leaves what the guardian owes,
\* but for the display.
LEMMA OwedBystander ==
    ASSUME Typed, Typed', guard' = guard, Own' = Own
    PROVE  /\ device' = device => Owed' = Owed
           /\ Owed' \in Nat /\ Owed' <= Owed + 1
           /\ ~device' => Owed' <= Owed
<1>1. guard.pc \in PCs
  BY DEF Typed, Guards
<1>2. Enabled1 \in {0, 1} /\ Enabled1' \in {0, 1}
      /\ (device' = device => Enabled1' = Enabled1) /\ (~device' => Enabled1' = 0)
  BY DEF Enabled1
<1> HIDE DEF Enabled1
<1>3. \/ Owed = 1 /\ Owed' = 1
      \/ Owed = Enabled1 /\ Owed' = Enabled1'
      \/ Owed = 1 + Enabled1 /\ Owed' = 1 + Enabled1'
  BY <1>1 DEF Owed, PCs
<1> QED BY <1>2, <1>3

\* What the guardian owes while its worker runs, and with its answer.
LEMMA OwedWorker ==
    ASSUME FileInv, NEW w \in Own
    PROVE  /\ w.kind = "enable" =>
                 Owed = IF w.stage = "act" THEN Enabled1 ELSE 1 + Enabled1
           /\ w.kind = "resize" => Owed = 1
           /\ w.kind = "recover" => Owed = IF w.stage = "layout" THEN 1 + Enabled1 ELSE 1
           /\ Own = {w} /\ guard.answer = "none" /\ w.kind = OwnKind(guard.pc)
<1>1. Own = {w} /\ guard.answer = "none" /\ w.kind = OwnKind(guard.pc)
  BY DEF Own, FileInv, WorkersKnown
<1>2. w.kind \in {"enable", "resize", "recover"}
  BY DEF Own, FileInv, Typed, Workers
<1>3. /\ w.kind = "enable" => guard.pc \in {"enabling", "reenabling"}
      /\ w.kind = "resize" => guard.pc = "resizing"
      /\ w.kind = "recover" => guard.pc \in {"orphan", "recovering"}
  BY <1>1, <1>2 DEF OwnKind
<1>4. \A stage : (\E x \in Own : x.stage = stage) <=> w.stage = stage
  BY <1>1
<1> QED BY <1>1, <1>3, <1>4 DEF Owed

LEMMA OwedAnswered ==
    ASSUME FileInv, NEW w \in Own, Exit(w, guard'.answer), guard'.answer \in {"ok", "failed"}
    PROVE  /\ w.kind = "enable" \/ guard'.answer = "failed" => Owed' = 1
           /\ Owed' \in {1, 1 + Enabled1'}
           /\ guard'.pc = guard.pc
<1>1. w.kind = OwnKind(guard.pc) /\ guard.answer = "none" /\ Own = {w}
  BY OwedWorker
<1>2. guard'.pc = guard.pc /\ guard'.lease = guard.lease /\ w.lease = guard.lease
  BY DEF Own, Exit, FileInv, Typed, Guards
<1>3. w.kind \in {"enable", "resize", "recover"}
  BY DEF Own, FileInv, Typed, Workers
<1>4. Own' = {}
  BY <1>1, <1>2 DEF Own, Exit
<1>5. guard.pc \in {"enabling", "reenabling", "resizing", "orphan", "recovering"}
      /\ (w.kind = "enable" => guard.pc \in {"enabling", "reenabling"})
  BY <1>1, <1>3 DEF OwnKind
<1> QED BY <1>2, <1>4, <1>5 DEF Owed

\* A worker leaves or goes on: the snapshots still suffice.
LEMMA WorkerKeepsSnapshots ==
    ASSUME FileInv, SnapshotsSuffice, NEW w \in workers, Worker(w)
    PROVE  SnapshotsSuffice'
<1> USE DEF rest, fileVars, windowsVars, recordVars
<1>1. /\ Typed /\ Typed' /\ WorkersKnown /\ w \in Workers /\ Snaps' = Snaps
      /\ Owed' \in Nat
  <2>1. Typed'
    BY WorkerTyped
  <2>2. Owed' \in Nat
    BY <2>1 DEF Typed, Guards, PCs, Owed, Enabled1
  <2>3. snapshot' = snapshot
    BY DEF Worker, WorkerChecks, WorkerEnables, WorkerResizes, WorkerDisables,
           WorkerRestores, WorkerFails
  <2> QED BY <2>1, <2>2, <2>3 DEF FileInv, Typed, Snaps
<1>2. /\ IsFiniteSet(Pending) /\ Cardinality(Pending) \in Nat /\ Cardinality(Snaps) \in Nat
      /\ Owed \in Nat /\ Enabled1 \in {0, 1} /\ Owed >= Enabled1
      /\ Enabled1' \in {0, 1} /\ (~device' => Enabled1' = 0) /\ (device' = device => Enabled1' = Enabled1)
  BY <1>1, Countable, OwedBounds DEF Enabled1
<1> HIDE DEF Enabled1
<1>3. SUFFICES Cardinality(Pending') + Owed' <= Cardinality(Pending) + Owed
               /\ Cardinality(Pending') \in Nat
  BY <1>1, <1>2 DEF SnapshotsSuffice
\* It leaves.
<1>4. ASSUME NEW answer \in {"ok", "failed"}, Exit(w, answer)
      PROVE  /\ Pending' = Pending \ {w}
             /\ Cardinality(Pending') = Cardinality(Pending) - (IF w \in Pending THEN 1 ELSE 0)
             /\ Cardinality(Pending') \in Nat
             /\ w \notin Own => guard' = guard /\ Own' = Own
             /\ w \in Own => guard'.answer = answer
  <2>1. Pending' = Pending \ {w}
    BY <1>4 DEF Exit, Pending
  <2>2. IsFiniteSet(Pending') /\ Cardinality(Pending') =
            Cardinality(Pending) - (IF w \in Pending THEN 1 ELSE 0)
    BY <1>2, <2>1, FS_RemoveElement
  <2>3. Cardinality(Pending') \in Nat
    BY <2>2, FS_CardinalityType
  <2>4. w \notin Own => guard' = guard /\ Own' = Own
    BY <1>4 DEF Exit, Own
  <2>5. w \in Own => guard'.answer = answer
    BY <1>1, <1>4 DEF Exit, Own, Typed, Guards
  <2> QED BY <2>1, <2>2, <2>3, <2>4, <2>5
\* It goes on.
<1>5. ASSUME NEW stage \in {"act", "layout"}, Proceed(w, stage), w.stage \in {"check", "disable"},
             stage = "act" <=> w.stage = "check"
      PROVE  /\ Cardinality(Pending') = Cardinality(Pending) +
                   (IF w.kind = "enable" THEN 1 ELSE 0)
             /\ w \notin Own => Own' = Own
             /\ w \in Own => Own' = {[w EXCEPT !.stage = stage]}
             /\ [w EXCEPT !.stage = stage].stage = stage
             /\ guard' = guard
  <2> DEFINE v == [w EXCEPT !.stage = stage]
  <2>1. v.lease = w.lease /\ v.kind = w.kind /\ v.stage = stage
    BY <1>1 DEF Workers
  <2>2. workers' = (workers \ {w}) \cup {v} /\ guard' = guard
    BY <1>5 DEF Proceed
  <2> HIDE DEF v
  <2>3. w \notin Pending /\ (v \in Pending => v = w)
    BY <1>1, <1>5, <2>1 DEF Pending, WorkersKnown
  <2>4. w.kind = "enable" => w.stage = "check"
    BY <1>1, <1>5 DEF WorkersKnown
  <2>5. Pending' = IF w.kind = "enable" THEN Pending \cup {v} ELSE Pending
    BY <1>1, <1>5, <2>1, <2>2, <2>3, <2>4 DEF Pending, WorkersKnown
  <2>6. v \notin Pending
    BY <2>3
  <2>7. Cardinality(Pending') = Cardinality(Pending) + (IF w.kind = "enable" THEN 1 ELSE 0)
    <3>1. Cardinality(Pending \cup {v}) = Cardinality(Pending) + 1
      BY <1>2, <2>6, FS_AddElement
    <3> QED BY <1>2, <2>5, <3>1
  <2>8. w \notin Own => Own' = Own
    BY <2>1, <2>2 DEF Own
  <2>9. w \in Own => Own' = {v}
    <3>1. w \in Own => Own = {w}
      BY OwedWorker
    <3> QED BY <2>1, <2>2, <3>1 DEF Own
  <2> QED BY <2>1, <2>2, <2>7, <2>8, <2>9 DEF v
<1> DEFINE Goal == /\ Cardinality(Pending') + Owed' <= Cardinality(Pending) + Owed
                   /\ Cardinality(Pending') \in Nat
\* A failure.
<1>6. ASSUME Exit(w, "failed"), UNCHANGED device PROVE Goal
  <2>1. CASE w \in Own
    <3>1. Owed' = 1
      BY <1>4, <1>6, <2>1, OwedAnswered
    <3>2. Owed >= 1 \/ (w \in Pending /\ Owed >= 0)
      BY <1>1, <1>2, <2>1, OwedWorker DEF Pending, Workers
    <3> QED BY <1>2, <1>4, <1>6, <3>1, <3>2
  <2>2. CASE w \notin Own
    BY <1>1, <1>2, <1>4, <1>6, <2>2, OwedBystander
  <2> QED BY <2>1, <2>2
<1>7. CASE WorkerChecks(w)
  <2>1. CASE Exit(w, "failed")
    BY <1>6, <1>7, <2>1 DEF WorkerChecks
  <2>2. CASE Proceed(w, "act") /\ guard.lease = w.lease
    <3>1. /\ w.stage = "check" /\ device' = device /\ w \in Own
          /\ w.kind \in {"enable", "resize"}
      BY <1>1, <1>7, <2>2 DEF WorkerChecks, Own, WorkersKnown, Workers
    <3>2. Owed = IF w.kind = "enable" THEN 1 + Enabled1 ELSE 1
      BY <3>1, OwedWorker
    <3>3. Own' = {[w EXCEPT !.stage = "act"]} /\ [w EXCEPT !.stage = "act"].stage = "act"
          /\ guard' = guard
          /\ Cardinality(Pending') = Cardinality(Pending) + (IF w.kind = "enable" THEN 1 ELSE 0)
      BY <1>5, <2>2, <3>1
    <3>4. w.kind = OwnKind(guard.pc) /\ guard.answer = "none"
      BY <3>1, OwedWorker
    <3>5. guard.pc \in (IF w.kind = "enable" THEN {"enabling", "reenabling"} ELSE {"resizing"})
      BY <3>1, <3>4 DEF OwnKind
    <3>6. Owed' = IF w.kind = "enable" THEN Enabled1' ELSE 1
      BY <3>1, <3>3, <3>4, <3>5 DEF Owed
    <3> QED BY <1>2, <3>1, <3>2, <3>3, <3>6
  <2> QED BY <1>7, <2>1, <2>2 DEF WorkerChecks
<1>8. CASE WorkerEnables(w)
  <2>1. PICK answer \in {"ok", "failed"} : Exit(w, answer)
    BY <1>8 DEF WorkerEnables, Answers
  <2>2. w \in Pending /\ w.kind = "enable" /\ w.stage = "act"
    BY <1>8 DEF WorkerEnables, Pending
  <2>3. CASE w \in Own
    <3>1. Owed' = 1 /\ Owed = Enabled1
      BY <1>4, <2>1, <2>2, <2>3, OwedAnswered, OwedWorker
    <3> QED BY <1>2, <1>4, <2>1, <2>2, <3>1
  <2>4. CASE w \notin Own
    BY <1>1, <1>2, <1>4, <2>1, <2>2, <2>4, OwedBystander
  <2> QED BY <2>3, <2>4
<1>9. CASE WorkerResizes(w)
  <2>1. PICK answer \in {"ok", "failed"} : Exit(w, answer)
    BY <1>9 DEF WorkerResizes, Answers
  <2>2. w \notin Pending /\ w.kind = "resize" /\ ~device'
    BY <1>1, <1>9 DEF WorkerResizes, Pending, Typed
  <2>3. CASE w \in Own
    <3>1. Owed' = 1 /\ Owed = 1
      BY <1>2, <1>4, <2>1, <2>2, <2>3, OwedAnswered, OwedWorker
    <3> QED BY <1>2, <1>4, <2>1, <2>2, <3>1
  <2>4. CASE w \notin Own
    BY <1>1, <1>2, <1>4, <2>1, <2>2, <2>4, OwedBystander
  <2> QED BY <2>3, <2>4
<1>10. CASE WorkerDisables(w)
  <2>1. Proceed(w, "layout") /\ w.stage = "disable" /\ w.kind = "recover" /\ ~device'
    BY <1>1, <1>10 DEF WorkerDisables, Typed
  <2>2. Cardinality(Pending') = Cardinality(Pending) /\ guard' = guard
    BY <1>2, <1>5, <2>1
  <2>3. CASE w \in Own
    <3>1. Owed = 1 /\ w.kind = OwnKind(guard.pc) /\ guard.answer = "none"
      BY <2>1, <2>3, OwedWorker
    <3>2. guard.pc \in {"orphan", "recovering"}
      BY <2>1, <3>1 DEF OwnKind
    <3>3. Owed' \in {1, 1 + Enabled1'}
      BY <2>2, <3>2 DEF Owed
    <3> QED BY <1>2, <2>1, <2>2, <3>1, <3>3
  <2>4. CASE w \notin Own
    BY <1>1, <1>2, <1>5, <2>1, <2>2, <2>4, OwedBystander
  <2> QED BY <2>3, <2>4
<1>11. CASE WorkerRestores(w)
  <2>1. PICK answer \in {"ok", "failed"} : Exit(w, answer)
    BY <1>11 DEF WorkerRestores
  <2>2. w \notin Pending /\ w.kind = "recover" /\ w.stage = "layout" /\ device' = device
    BY <1>11 DEF WorkerRestores, Pending
  <2>3. CASE w \in Own
    <3>1. Owed' \in {1, 1 + Enabled1} /\ Owed = 1 + Enabled1
      BY <1>2, <1>4, <2>1, <2>2, <2>3, OwedAnswered, OwedWorker
    <3> QED BY <1>2, <1>4, <2>1, <2>2, <3>1
  <2>4. CASE w \notin Own
    BY <1>1, <1>2, <1>4, <2>1, <2>2, <2>4, OwedBystander
  <2> QED BY <2>3, <2>4
<1>12. CASE WorkerFails(w)
  BY <1>6, <1>12 DEF WorkerFails
<1> QED BY <1>7, <1>8, <1>9, <1>10, <1>11, <1>12 DEF Worker

\* The layout that a worker leaves: the user's, or one of which a snapshot remains.
LEMMA WorkerKeepsLayout ==
    ASSUME FileInv, LayoutInv, NEW w \in workers, Worker(w)
    PROVE  LayoutInv'
<1> USE DEF rest, fileVars, windowsVars, recordVars
<1>1. Typed /\ WorkersKnown /\ w \in Workers /\ guard \in Guards
  BY DEF FileInv, Typed
<1>2. snapshot' = snapshot /\ Snaps' = Snaps /\ OldestIsUsers'
  <2>1. snapshot' = snapshot
    BY DEF Worker, WorkerChecks, WorkerEnables, WorkerResizes, WorkerDisables,
           WorkerRestores, WorkerFails
  <2> QED BY <2>1 DEF Snaps, OldestIsUsers, LayoutInv
<1>3. SnapshotsSuffice'
  BY WorkerKeepsSnapshots DEF LayoutInv
<1>4. guard' = guard \/ \E answer \in {"ok", "failed"} : Exit(w, answer)
  BY DEF Worker, WorkerChecks, WorkerEnables, WorkerResizes, WorkerDisables, WorkerRestores,
         WorkerFails, Proceed, Answers
\* What the guardian waits for.
<1> DEFINE Ending == guard.pc \in {"orphan", "recovering"} /\ guard.answer = "ok"
<1>5. Ending' => Ending \/ (w \in Own /\ w.kind = "recover" /\ WorkerRestores(w) /\ Exit(w, "ok"))
  <2>1. CASE guard' = guard
    BY <2>1
  <2>2. CASE guard' # guard /\ \E answer \in {"ok", "failed"} : Exit(w, answer)
    <3>1. PICK answer \in {"ok", "failed"} : Exit(w, answer)
      BY <2>2
    <3>2. w \in Own /\ guard'.answer = answer /\ guard'.pc = guard.pc
      BY <1>1, <2>2, <3>1 DEF Exit, Own, Guards
    <3>3. guard.pc \in {"orphan", "recovering"} => w.kind = "recover"
      BY <3>2, OwedWorker DEF OwnKind
    <3>4. answer = "ok" /\ w.kind = "recover" => WorkerRestores(w)
      <4>1. w.kind = "recover" => w.stage \in {"disable", "layout"}
        BY <1>1 DEF WorkersKnown
      <4>2. Exit(w, "failed") => guard'.answer = "failed"
        BY <1>1, <3>2 DEF Exit, Own, Guards
      <4>3. guard' # guard => ~Proceed(w, "act") /\ ~Proceed(w, "layout")
        BY DEF Proceed
      <4> QED BY <2>2, <3>2, <4>1, <4>2, <4>3
              DEF Worker, WorkerChecks, WorkerEnables, WorkerResizes, WorkerDisables, WorkerFails
    <3> QED BY <3>1, <3>2, <3>3, <3>4
  <2> QED BY <1>4, <2>1, <2>2
<1>6. CASE layout' = layout /\ ~WorkerRestores(w)
  BY <1>2, <1>3, <1>5, <1>6 DEF LayoutInv
\* The display comes or goes.
<1>7. CASE layout' # layout /\ ~WorkerRestores(w)
  <2>1. device \/ Pending # {}
    BY <1>7 DEF Worker, WorkerChecks, WorkerEnables, WorkerResizes, WorkerDisables,
                WorkerFails, Pending
  <2>2. Snaps # {} /\ (Ending => Cardinality(Snaps) >= 2)
    BY <1>1, <2>1, SnapshotsExist DEF LayoutInv
  <2> QED BY <1>2, <1>3, <1>5, <1>7, <2>2 DEF LayoutInv
\* A snapshot is restored.
<1>8. CASE WorkerRestores(w)
  <2>1. CASE snapshot[w.file] \in Layouts /\ ~device
    <3>1. layout' = snapshot[w.file] /\ w.file \in Snaps
      BY <1>1, <1>8, <2>1 DEF WorkerRestores, Snaps, Layouts, Workers
    <3>2. layout' = "user" \/ Cardinality(Snaps) >= 2
      BY <1>1, <3>1, SnapshotIsUsers DEF LayoutInv
    <3> QED BY <1>2, <1>3, <3>1, <3>2 DEF LayoutInv
  <2>2. CASE ~(snapshot[w.file] \in Layouts /\ ~device)
    <3>1. layout' = layout /\ Exit(w, "failed")
      BY <1>8, <2>2 DEF WorkerRestores
    <3>2. Ending' => Ending
      BY <1>1, <3>1 DEF Exit, Guards
    <3> QED BY <1>2, <1>3, <3>1, <3>2 DEF LayoutInv
  <2> QED BY <2>1, <2>2
<1> QED BY <1>6, <1>7, <1>8

LEMMA LayoutInvKept ==
    ASSUME FileInv, LayoutInv, [Next]_vars
    PROVE  LayoutInv'
<1> USE DEF vars, windowsVars, fileVars, recordVars
<1>1. /\ Typed /\ NoGuard.pc = "none" /\ Owed \in Nat /\ Owed >= Enabled1
      /\ Cardinality(Pending) \in Nat /\ Enabled1 \in {0, 1} /\ IsFiniteSet(Pending)
  BY OwedBounds, Countable DEF FileInv, NoGuard
<1>2. CASE Acquire \/ Killed
  <2>1. guard'.pc \in {"none", "inspect"} /\ UNCHANGED <<snapshot, layout, device>>
    <3>1. [NoGuard EXCEPT !.lease = used + 1, !.pc = "inspect"].pc = "inspect"
      BY DEF NoGuard
    <3> QED BY <1>1, <1>2, <3>1 DEF Acquire, Killed
  <2>2. Owed' = Enabled1
    BY <2>1 DEF Owed, Enabled1
  <2>3. Pending' \subseteq Pending
    BY <1>2 DEF Acquire, Killed, Pending
  <2>4. IsFiniteSet(Pending') /\ Cardinality(Pending') <= Cardinality(Pending)
    BY <1>1, <2>3, FS_Subset
  <2>5. Cardinality(Pending') \in Nat
    BY <2>4, FS_CardinalityType
  <2>6. Owed' \in Nat /\ Cardinality(Pending') + Owed' <= Cardinality(Pending) + Owed
    BY <1>1, <2>2, <2>4, <2>5
  <2> QED BY <2>1, <2>5, <2>6, GuardStepKeepsLayout
<1>3. CASE Request \/ InputEnds \/ HelperActs \/ Command \/ Answered \/ TimedOut \/ HelperDies
           \/ UNCHANGED vars
  <2>1. UNCHANGED <<device, layout, snapshot, guard, workers>>
    BY <1>3 DEF Request, InputEnds, HelperActs, Command, Answered, TimedOut, HelperDies
  <2>2. Snaps' = Snaps /\ Pending' = Pending /\ Owed' = Owed
    BY <2>1 DEF Snaps, Pending, Owed, Own, Enabled1
  <2> QED BY <2>1, <2>2 DEF LayoutInv, OldestIsUsers, SnapshotsSuffice
<1> QED BY <1>2, <1>3, GuardianKeepsLayout, WorkerKeepsLayout DEF Next

-----------------------------------------------------------------------------
(* Theorems                                                                *)

LEMMA FileInvInit == Init => FileInv
<1> SUFFICES ASSUME Init PROVE FileInv
  OBVIOUS
<1>1. Typed
  <2>1. NoGuard \in Guards
    BY DEF NoGuard, Guards, PCs
  <2>2. NoHelper \in Helpers /\ NoHelper.phase = "none"
    BY DEF NoHelper, Helpers
  <2>3. Quiet \in Channels /\ ~Quiet.request
    BY DEF Quiet, Channels
  <2>4. IsFiniteSet({})
    BY FS_EmptySet
  <2>5. journal \in [Leases -> [step : Int, percent : Int]]
    BY DEF Init, NoJournal
  <2>6. /\ used \in 0..LeaseCount /\ kills \in 0..MaxKills /\ workers = {}
        /\ guard = NoGuard /\ helper = NoHelper /\ channel = Quiet /\ accepted \subseteq Int
    BY DEF Init
  <2>7. /\ device \in BOOLEAN /\ layout \in Layouts
        /\ mode \in Modes /\ offered \in Modes /\ step \in Int
        /\ snapshot \in [Leases -> Layouts \cup {"none", "virtual"}]
    BY DEF Init, Layouts
  <2> QED BY ONLY <2>1, <2>2, <2>3, <2>4, <2>5, <2>6, <2>7 DEF Typed
<1>2. FilesOrdered
  BY DEF Init, FilesOrdered, NoGuard, Snaps, Owning
<1>3. WorkersKnown
  BY DEF Init, WorkersKnown, Own
<1> QED BY <1>1, <1>2, <1>3 DEF FileInv

\* What the invariant says of the guardian and the workers gives TypeOK.
LEMMA FileInvTypes == FileInv => TypeOK
<1> SUFFICES ASSUME FileInv PROVE TypeOK
  OBVIOUS
<1>1. guard.lease \in 0..used /\ (guard.lease = 0 <=> guard = NoGuard)
  <2>1. NoGuard.lease = 0 /\ NoGuard.pc = "none" /\ used \in Nat
    BY DEF NoGuard, FileInv, Typed
  <2> QED BY <2>1, HolderKnown DEF FileInv, FilesOrdered, Leases
<1>2. \A w \in workers : w.lease \in 1..used /\ w.file \in 1..used /\ w.target \in Modes
  BY DEF FileInv, Typed, Workers, WorkersKnown, Leases
<1>3. Cardinality({w \in workers : w.lease = guard.lease}) <= 1
  <2>1. CASE Own = {}
    <3>1. Cardinality(Own) = 0
      BY <2>1, FS_EmptySet
    <3> QED BY <3>1 DEF Own
  <2>2. CASE Own # {}
    <3>1. PICK w \in Own : TRUE
      BY <2>2
    <3>2. Own = {w}
      BY <3>1 DEF Own, FileInv, WorkersKnown
    <3>3. Cardinality(Own) = 1
      BY <3>2, FS_Singleton
    <3> QED BY <3>3 DEF Own
  <2> QED BY <2>1, <2>2
<1> QED BY <1>1, <1>2, <1>3 DEF FileInv, Typed, TypeOK, Helpers

\* The state of the lease is well-typed, for any modes and any number of leases:
\* guardians, workers, files and the shared record of the Windows helper.
THEOREM LeaseTyped == Spec => []TypeOK
<1>1. FileInv /\ [Next]_vars => FileInv'
  BY FileInvKept
<1> QED BY <1>1, FileInvInit, FileInvTypes, PTL DEF Spec

\* The user's DPI step is on disk whenever it is not in force, whatever fails or is
\* terminated and whatever Windows recommends for each mode; a step that RestoreDpi
\* has put in its place for the sake of the percentage counts as his.
THEOREM PreferenceSurvives == Spec => []PreferenceIsKept
<1> DEFINE Inv == FileInv /\ PreferenceInv
<1>1. Init => Inv
  <2>1. Init => PreferenceInv
    BY DEF Init, PreferenceInv, JournalInv, JournalFiles, Journals, NoGuard
  <2> QED BY <2>1, FileInvInit
<1>2. Inv /\ [Next]_vars => Inv'
  BY FileInvKept, PreferenceKept
<1>3. Inv => PreferenceIsKept
  BY DEF PreferenceInv, JournalInv, Journals, PreferenceIsKept
<1> HIDE DEF Inv
<1> QED BY <1>1, <1>2, <1>3, PTL DEF Spec

\* What a new lease takes for the user's own layout and step is just that, up to
\* the first recovery that fails and the first guardian that is terminated while it
\* waits for a worker or recovers, whatever Windows recommends for each mode; a step
\* that RestoreDpi has put in the place of his counts as his.
THEOREM BaselineIsTaken == Spec => []BaselineIsUsers
<1> DEFINE Inv == FileInv /\ PreferenceInv /\ BaselineInv
<1>1. Init => Inv
  <2>1. Init => PreferenceInv
    BY DEF Init, PreferenceInv, JournalInv, JournalFiles, Journals, NoGuard
  <2>2. Init => BaselineInv
    BY DEF Init, BaselineInv, Traceable, Snaps, Home, NoGuard, Owning
  <2> QED BY <2>1, <2>2, FileInvInit
<1>2. Inv /\ [Next]_vars => Inv'
  BY FileInvKept, PreferenceKept, BaselineInvKept
<1>3. Inv => BaselineIsUsers
  BY DEF BaselineInv, Traceable, Home, BaselineIsUsers
<1> HIDE DEF Inv
<1> QED BY <1>1, <1>2, <1>3, PTL DEF Spec

\* The user's layout is on disk whenever it is not that of the displays or the
\* virtual display is on: also with workers that outlive any number of guardians
\* terminated at any step, and whatever fails.
THEOREM LayoutSurvives == Spec => []LayoutIsKept
<1> DEFINE Inv == FileInv /\ LayoutInv
<1>1. Init => Inv
  <2> SUFFICES ASSUME Init, FileInv PROVE LayoutInv
    BY FileInvInit
  <2>1. Snaps = {} /\ Pending = {} /\ Owed = 0 /\ guard.pc = "none" /\ layout = "user"
    BY DEF Init, Snaps, Pending, Owed, Enabled1, NoGuard
  <2>2. Cardinality(Snaps) = 0 /\ Cardinality(Pending) = 0
    BY <2>1, FS_EmptySet
  <2> QED BY <2>1, <2>2 DEF LayoutInv, OldestIsUsers, SnapshotsSuffice
<1>2. Inv /\ [Next]_vars => Inv'
  BY FileInvKept, LayoutInvKept
<1>3. Inv => LayoutIsKept
  <2> SUFFICES ASSUME Inv, device \/ layout # "user"
               PROVE  \E n \in Leases : snapshot[n] = "user"
    BY DEF LayoutIsKept
  <2>1. Snaps # {}
    BY SnapshotsExist DEF LayoutInv, FileInv
  <2> QED BY <2>1 DEF LayoutInv, OldestIsUsers, Snaps
<1> HIDE DEF Inv
<1> QED BY <1>1, <1>2, <1>3, PTL DEF Spec
=============================================================================

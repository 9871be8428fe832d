---------------------------- MODULE ValveProofs ----------------------------
(* Theorems about Valve, for every number of sites, queue capacity, retry   *)
(* count, set of openings and set of readings.                              *)
EXTENDS Valve, TLAPS

(* The writers are the sites and one more, the operator.                    *)
LEMMA WriterFacts ==
  /\ UI \in Writers /\ UI \notin Sites
  /\ Sites \subseteq Writers
  /\ \A w \in Writers : w # UI => w \in Sites /\ w + 1 \in Writers
  /\ 1 \in Writers
BY ValveAssumption DEF ValveAssumption, Writers, Sites, UI

(* The start of up_main goes past every site twice.                         *)
LEMMA StartFacts ==
  /\ 0 \in 0..UpRuns /\ 1 \in 0..UpRuns
  /\ \A u \in Sites : u + 1 \in 0..UpRuns
  /\ \A u \in 0..UpRuns : u - NSites \in Sites => u + 1 \in 0..UpRuns
BY ValveAssumption DEF ValveAssumption, Sites, UpRuns

(* Every opening that can be stored, asked for or read is a byte.           *)
LEMMA ByteFacts ==
  /\ Commands \subseteq Byte /\ Stored \subseteq Byte /\ Readings \subseteq Byte
  /\ 0 \in Byte /\ Fault \in Byte
  /\ \A c \in Byte : c % 256 \in Byte
  /\ \A c \in Byte : (IF c <= 100 - Step THEN c + Step ELSE 100) \in Byte
  /\ \A c \in Byte : (IF c >= Step THEN c - Step ELSE 0) \in Byte
<1>. USE ValveAssumption DEF ValveAssumption, Byte, Fault
<1>1. Commands \subseteq Byte /\ Stored \subseteq Byte /\ Readings \subseteq Byte
  OBVIOUS
<1>2. 0 \in Byte /\ Fault \in Byte /\ \A c \in Byte : c % 256 \in Byte
  OBVIOUS
<1>3. \A c \in Byte : (IF c <= 100 - Step THEN c + Step ELSE 100) \in Byte
  OBVIOUS
<1>4. \A c \in Byte : (IF c >= Step THEN c - Step ELSE 0) \in Byte
  OBVIOUS
<1>. QED  BY <1>1, <1>2, <1>3, <1>4

(* Every variable keeps its range: the queues never exceed their capacity,  *)
(* the retries their bound, the openings a byte.                            *)
THEOREM TypeCorrect == Spec => []TypeOK
<1>. USE WriterFacts, ByteFacts DEF TypeOK, vars, shm, para, uvar, ctl, wvar, hist
<1>1. Init => TypeOK
  <2>. SUFFICES ASSUME Init PROVE TypeOK
    OBVIOUS
  <2>1. /\ per \in Byte /\ per_measure \in Byte /\ per_last \in Byte
        /\ per_alarm \in Byte /\ driven \in Byte /\ target \in Byte
    BY DEF Init
  <2>2. /\ queue \in [Writers -> 0..QCap]
        /\ tries \in [Writers -> 0..(Retries - 1)]
    BY ValveAssumption DEF Init, ValveAssumption
  <2>3. cmd \in [Writers -> Byte]
    BY DEF Init
  <2>4. scan \in Writers /\ wpc \in [Writers -> {"idle", "accepted", "send", "sent", "unsent"}]
    BY DEF Init
  <2>5. opening \in BOOLEAN /\ lost \in BOOLEAN /\ setter \in Writers
    BY DEF Init
  <2>6. Mode \in 0..1 /\ ServerOpen \in [Sites -> BOOLEAN] /\ vpc = "down"
    BY DEF Init
  <2>7. /\ up \in 0..UpRuns
        /\ sendq \subseteq Sites /\ listening \subseteq Sites /\ recvq \subseteq Sites
    BY StartFacts DEF Init
  <2>. QED  BY <2>1, <2>2, <2>3, <2>4, <2>5, <2>6, <2>7, Zenon
<1>2. TypeOK /\ [Next]_vars => TypeOK'
  <2>. SUFFICES ASSUME TypeOK, [Next]_vars PROVE TypeOK'
    OBVIOUS
  <2>1. ASSUME NEW s \in Sites, NEW v \in Commands, Accept(s, v) PROVE TypeOK'
    BY <2>1 DEF Accept
  <2>2. ASSUME NEW s \in Sites, SetPer(s) PROVE TypeOK'
    BY <2>2 DEF SetPer, Store
  <2>3. ASSUME NEW s \in Sites, Answer(s) PROVE TypeOK'
    BY <2>3 DEF Answer
  <2>0. ASSUME UpMainEnds PROVE TypeOK'
    BY <2>0, StartFacts, ValveAssumption DEF UpMainEnds, ValveAssumption
  <2>4. ASSUME NEW w \in Writers, Send(w) PROVE TypeOK'
    <3>. USE ValveAssumption DEF ValveAssumption
    <3>1. CASE Enqueue(w)
      <4>1. queue' \in [Writers -> 0..QCap] /\ tries' \in [Writers -> 0..(Retries - 1)]
        BY <3>1 DEF Enqueue
      <4>2. wpc' \in [Writers -> {"idle", "accepted", "send", "sent", "unsent"}]
        BY <3>1 DEF Enqueue, AfterSend
      <4>. QED  BY <3>1, <4>1, <4>2 DEF Enqueue
    <3>2. CASE RetrySend(w)
      BY <3>2 DEF RetrySend
    <3>3. CASE GiveUp(w)
      BY <3>3 DEF GiveUp, AfterSend
    <3>4. CASE NullSend(w)
      BY <2>0, <3>4 DEF NullSend
    <3>. QED  BY <2>4, <3>1, <3>2, <3>3, <3>4 DEF Send
  <2>5. CASE Operator \/ Settings
    <3>1. CASE SwitchMode
      BY <3>1 DEF SwitchMode
    <3>2. CASE FollowPer \/ StepUp \/ StepDown
      <4>1. cmd' \in [Writers -> Byte]
        BY <3>2 DEF FollowPer, StepUp, StepDown, SetValue
      <4>2. UNCHANGED <<shm, para, queue, wpc, tries, uvar, ctl, hist>>
        BY <3>2, Zenon DEF FollowPer, StepUp, StepDown, SetValue
      <4>. QED  BY <4>1, <4>2, Zenon
    <3>3. CASE Confirm
      <4>1. per' \in Byte
        BY <3>3 DEF Confirm, Store
      <4>2. wpc' \in [Writers -> {"idle", "accepted", "send", "sent", "unsent"}]
        BY <3>3 DEF Confirm, Store
      <4>3. setter' \in Writers /\ lost' \in BOOLEAN
        BY <3>3 DEF Confirm, Store
      <4>4. UNCHANGED <<per_measure, per_last, per_alarm, para, queue, tries, cmd,
                        uvar, ctl>>
        BY <3>3, Zenon DEF Confirm, Store
      <4>. QED  BY <4>1, <4>2, <4>3, <4>4, Zenon
    <3>4. ASSUME NEW s \in Sites, SaveSite(s) PROVE TypeOK'
      BY <3>4 DEF SaveSite
    <3>. QED  BY <2>5, <3>1, <3>2, <3>3, <3>4 DEF Operator, Settings
  <2>6. CASE Control
    <3>1. CASE BootCheck \/ Adopt \/ BootLast \/ Sample
      BY <3>1 DEF BootCheck, Adopt, BootLast, Sample, At
    <3>2. CASE PollEmpty \/ StoreLast \/ SkipClosed
      BY <3>2 DEF PollEmpty, StoreLast, SkipClosed, NextQueue
    <3>3. CASE Take
      BY <3>3, ValveAssumption DEF Take, At, ValveAssumption
    <3>4. CASE Compare
      BY <3>4 DEF Compare, At
    <3>5. CASE Aim
      BY <3>5 DEF Aim, At
    <3>6. CASE Move
      BY <3>6 DEF Move, At
    <3>7. CASE Prepare
      BY <3>7 DEF Prepare, IfOpen
    <3>8. CASE Prepared \/ Visit
      BY <3>8 DEF Prepared, Visit, At
    <3>9. CASE NullQueue
      BY <3>9 DEF NullQueue, ControlEnds
    <3>. QED
      BY <2>6, <3>1, <3>2, <3>3, <3>4, <3>5, <3>6, <3>7, <3>8, <3>9 DEF Control
  <2>7. CASE Report
    BY <2>7 DEF Report, StatePer
  <2>10. CASE UpMain
    <3>1. CASE UpWait
      BY <3>1, StartFacts DEF UpWait
    <3>2. CASE UpQueue
      BY <3>2, StartFacts DEF UpQueue, IfOpen
    <3>3. CASE UpOpen
      BY <3>3, StartFacts DEF UpOpen, IfOpen
    <3>4. CASE NullCall
      BY <2>0, <3>4 DEF NullCall
    <3>. QED  BY <2>10, <3>1, <3>2, <3>3, <3>4 DEF UpMain
  <2>11. CASE Start
    BY <2>11 DEF Start, At
  <2>8. CASE Deaths
    <3>1. CASE ControlDies
      BY <3>1 DEF ControlDies, ControlEnds
    <3>2. CASE UpMainDies
      BY <2>0, <3>2 DEF UpMainDies
    <3>3. CASE InterfaceDies
      BY <3>3, ValveAssumption DEF InterfaceDies, ValveAssumption
    <3>. QED  BY <2>8, <3>1, <3>2, <3>3 DEF Deaths
  <2>9. CASE UNCHANGED vars
    BY <2>9
  <2>. QED
    BY <2>1, <2>2, <2>3, <2>4, <2>5, <2>6, <2>7, <2>8, <2>9, <2>10, <2>11
    DEF Next, Operate, Requests, Finish
<1>. QED  BY <1>1, <1>2, PTL DEF Spec

-----------------------------------------------------------------------------
(* NoCommandForgotten is not inductive: a drive to an opening that is no     *)
(* longer wanted may end with per = driven before it and per # driven after. *)
(* What saves it is that whoever stored per since the second read has its    *)
(* wake-up still to be read.                                                 *)
StaleDriveFollowed ==
  vpc = "move" /\ target # per /\ ~lost => WakeUpComing(setter)

(* The difference that blocks the reports has a cause that is still there,   *)
(* be the site of the last store open or not.                                *)
DifferenceHasCause ==
  per # per_last /\ ~lost =>
    \/ WakeUpComing(setter)
    \/ vpc \in {"down", "init", "boot", "adopt", "boot_last",
                "taken", "aim", "move", "store"}

Kept == NoCommandForgotten /\ DifferenceHasCause /\ StaleDriveFollowed

(* What the invariants look at beside the wake-up of the last store; a step  *)
(* that leaves all of it alone and keeps the wake-up keeps them.             *)
watched == <<per, per_last, per_measure, driven, setter, lost, vpc, opening, target>>

LEMMA QuietStep ==
  ASSUME TypeOK, TypeOK', Kept, UNCHANGED watched,
         queue[setter] > 0 => queue'[setter] > 0,
         wpc[setter] = "send" => wpc'[setter] = "send" \/ queue'[setter] > 0
  PROVE  Kept'
<1>1. WakeUpComing(setter) => WakeUpComing(setter)'
  BY DEF WakeUpComing, watched
<1>2. ServingPer' = ServingPer
  BY DEF ServingPer, RightWay, watched
<1>. QED
  BY <1>1, <1>2
  DEF Kept, NoCommandForgotten, DifferenceHasCause, StaleDriveFollowed, watched

(* A step after which the last store has its wake-up still to be read, or is *)
(* known to have lost it, keeps them.                                        *)
LEMMA WokenStep == ASSUME WakeUpComing(setter)' \/ lost' PROVE Kept'
BY DEF Kept, NoCommandForgotten, DifferenceHasCause, StaleDriveFollowed

(* ValveControl: only Take uses a wake-up, and what it starts ends with the  *)
(* opening wanted then driven and per_last caught up.                        *)
LEMMA ControlKeeps ==
  ASSUME TypeOK, TypeOK', Kept, Control \/ Start PROVE Kept'
<1>. USE DEF Kept, NoCommandForgotten, DifferenceHasCause, StaleDriveFollowed,
             shm, wvar, ctl, hist
<1>1. CASE Take
  BY <1>1 DEF Take, At, ServingPer
<1>2. ASSUME UNCHANGED <<queue, wpc, setter>>
      PROVE  WakeUpComing(setter)' = WakeUpComing(setter)
  BY <1>2 DEF WakeUpComing
<1>3. CASE PollEmpty \/ StoreLast \/ SkipClosed
  <2>1. WakeUpComing(setter)' = WakeUpComing(setter)
    BY <1>2, <1>3 DEF PollEmpty, StoreLast, SkipClosed
  <2>. QED  BY <1>3, <2>1 DEF PollEmpty, StoreLast, SkipClosed, NextQueue, ServingPer
<1>4. CASE BootCheck \/ Adopt \/ BootLast \/ Sample
  <2>1. WakeUpComing(setter)' = WakeUpComing(setter)
    BY <1>2, <1>4 DEF BootCheck, Adopt, BootLast, Sample
  <2>. QED  BY <1>4, <2>1 DEF BootCheck, Adopt, BootLast, Sample, At, ServingPer
<1>5. CASE Compare
  <2>1. WakeUpComing(setter)' = WakeUpComing(setter)
    BY <1>2, <1>5 DEF Compare
  <2>2. ServingPer'
    BY <1>5, Zenon DEF Compare, At, ServingPer, RightWay
  <2>. QED  BY <1>5, <2>1, <2>2 DEF Compare, At
<1>6. CASE Aim
  <2>1. WakeUpComing(setter)' = WakeUpComing(setter)
    BY <1>2, <1>6 DEF Aim
  <2>2. ServingPer => ServingPer'
    BY <1>6 DEF Aim, At, ServingPer, RightWay
  <2>. QED  BY <1>6, <2>1, <2>2 DEF Aim, At
<1>7. CASE Move
  <2>1. WakeUpComing(setter)' = WakeUpComing(setter)
    BY <1>2, <1>7 DEF Move
  <2>2. /\ vpc = "move" /\ vpc' = "store"
        /\ UNCHANGED <<per, per_last, lost>>
        /\ driven' = IF RightWay(target) THEN target ELSE driven
    BY <1>7 DEF Move, At
  <2>. QED  BY <2>1, <2>2 DEF ServingPer
<1>8. CASE Start \/ Prepare \/ Prepared \/ Visit
  <2>1. WakeUpComing(setter)' = WakeUpComing(setter)
    BY <1>2, <1>8 DEF Start, Prepare, Prepared, Visit
  <2>. QED  BY <1>8, <2>1 DEF Start, Prepare, Prepared, Visit, At, ServingPer
<1>9. CASE NullQueue
  <2>1. WakeUpComing(setter)' = WakeUpComing(setter)
    BY <1>2, <1>9 DEF NullQueue, ControlEnds
  <2>. QED  BY <1>9, <2>1 DEF NullQueue, ControlEnds, ServingPer
<1>. QED
  BY <1>1, <1>3, <1>4, <1>5, <1>6, <1>7, <1>8, <1>9 DEF Control

(* The end of up_main, killed or crashed, takes the wake-up of the last      *)
(* store away only by losing it.                                             *)
LEMMA UpMainEndKeeps ==
  ASSUME TypeOK, TypeOK', Kept, UpMainEnds PROVE Kept'
<1>1. CASE lost'
  BY <1>1, WokenStep
<1>2. CASE ~lost'
  <2>1. UNCHANGED watched /\ UNCHANGED queue
    BY <1>2 DEF UpMainEnds, watched, TypeOK, shm, ctl
  <2>2. \A s \in Sites : ~Drops(s)
    BY <1>2 DEF UpMainEnds
  <2>3. setter \in Writers /\ queue[setter] \in Nat
    BY ValveAssumption DEF TypeOK, ValveAssumption
  <2>4. wpc[setter] = "send" => wpc'[setter] = "send" \/ queue'[setter] > 0
    <3>1. CASE setter = UI
      BY <2>3, <3>1 DEF UpMainEnds
    <3>2. CASE setter # UI
      BY <2>1, <2>2, <2>3, <3>2, WriterFacts DEF Drops
    <3>. QED  BY <3>1, <3>2
  <2>. QED  BY <2>1, <2>4, QuietStep
<1>. QED  BY <1>1, <1>2

LEMMA DeathsKeep ==
  ASSUME TypeOK, TypeOK', Kept, Deaths PROVE Kept'
<1>1. CASE ControlDies
  <2>1. WakeUpComing(setter)' = WakeUpComing(setter)
    BY <1>1 DEF ControlDies, ControlEnds, WakeUpComing, wvar
  <2>. QED
    BY <1>1, <2>1
    DEF ControlDies, ControlEnds, Kept, NoCommandForgotten, DifferenceHasCause,
        StaleDriveFollowed, ServingPer, shm
<1>2. CASE UpMainDies
  BY <1>2, UpMainEndKeeps DEF UpMainDies
<1>3. CASE InterfaceDies
  <2>1. CASE lost'
    BY <2>1, WokenStep
  <2>2. CASE ~lost'
    <3>1. UNCHANGED watched /\ UNCHANGED queue
      BY <1>3, <2>2 DEF InterfaceDies, watched, TypeOK, shm, ctl
    <3>2. ~Drops(UI)
      BY <1>3, <2>2 DEF InterfaceDies
    <3>3. setter \in Writers /\ queue[setter] \in Nat
      BY ValveAssumption DEF TypeOK, ValveAssumption
    <3>4. wpc[setter] = "send" => wpc'[setter] = "send" \/ queue'[setter] > 0
      BY <1>3, <3>1, <3>2, <3>3, WriterFacts DEF InterfaceDies, Drops, TypeOK
    <3>. QED  BY <3>1, <3>4, QuietStep
  <2>. QED  BY <2>1, <2>2
<1>. QED  BY <1>1, <1>2, <1>3 DEF Deaths

(* The writers and the start of up_main: a store is followed by MsgSend, and *)
(* MsgSend leaves a message in the queue even when it gives up.              *)
LEMMA WritersKeep ==
  ASSUME TypeOK, TypeOK', Kept,
         \/ Requests \/ Operator \/ Settings \/ Report \/ UpMain
         \/ \E w \in Writers : Send(w)
         \/ \E s \in Sites : Finish(s)
  PROVE  Kept'
<1>. USE WriterFacts DEF shm, para, wvar, uvar, ctl, hist
<1>0. ASSUME UNCHANGED watched, UNCHANGED queue,
             \A w \in Writers : wpc[w] = "send" => wpc'[w] = "send"
      PROVE  Kept'
  BY <1>0, QuietStep DEF TypeOK
<1>2. ASSUME NEW s \in Sites, NEW v \in Commands, Accept(s, v) PROVE Kept'
  <2>1. UNCHANGED watched /\ UNCHANGED queue
    BY <1>2 DEF Accept, watched
  <2>2. \A w \in Writers : wpc[w] = "send" => wpc'[w] = "send"
    BY <1>2 DEF Accept, TypeOK
  <2>. QED  BY <1>0, <2>1, <2>2
<1>3. ASSUME NEW s \in Sites, SetPer(s) PROVE Kept'
  <2>1. wpc'[setter'] = "send"
    BY <1>3 DEF SetPer, Store, TypeOK
  <2>. QED  BY <2>1, WokenStep DEF WakeUpComing
<1>4. ASSUME NEW s \in Sites, Answer(s) PROVE Kept'
  <2>1. UNCHANGED watched /\ UNCHANGED queue
    BY <1>4 DEF Answer, watched
  <2>2. \A w \in Writers : wpc[w] = "send" => wpc'[w] = "send"
    BY <1>4 DEF Answer, TypeOK
  <2>. QED  BY <1>0, <2>1, <2>2
<1>5. ASSUME NEW w \in Writers, Enqueue(w) PROVE Kept'
  <2>1. UNCHANGED watched
    BY <1>5 DEF Enqueue, watched
  <2>2. queue'[w] > 0 /\ \A x \in Writers : x # w => queue'[x] = queue[x] /\ wpc'[x] = wpc[x]
    BY <1>5, ValveAssumption DEF Enqueue, TypeOK, ValveAssumption
  <2>. QED  BY <2>1, <2>2, QuietStep DEF TypeOK
<1>6. ASSUME NEW w \in Writers, RetrySend(w) PROVE Kept'
  <2>1. UNCHANGED watched /\ UNCHANGED queue /\ UNCHANGED wpc
    BY <1>6 DEF RetrySend, watched
  <2>. QED  BY <1>0, <2>1
<1>7. ASSUME NEW w \in Writers, GiveUp(w) PROVE Kept'
  <2>1. UNCHANGED watched /\ UNCHANGED queue
    BY <1>7 DEF GiveUp, watched
  <2>2. queue'[w] > 0 /\ \A x \in Writers : x # w => wpc'[x] = wpc[x]
    BY <1>7, ValveAssumption DEF GiveUp, TypeOK, ValveAssumption
  <2>. QED  BY <2>1, <2>2, QuietStep DEF TypeOK
<1>8. CASE Confirm
  <2>1. wpc'[setter'] = "send"
    BY <1>8 DEF Confirm, Store, TypeOK
  <2>. QED  BY <2>1, WokenStep DEF WakeUpComing
<1>9. CASE SwitchMode \/ FollowPer \/ StepUp \/ StepDown
  <2>1. UNCHANGED watched /\ UNCHANGED queue /\ UNCHANGED wpc
    BY <1>9 DEF SwitchMode, FollowPer, StepUp, StepDown, SetValue, watched
  <2>. QED  BY <1>0, <2>1
<1>10. CASE Report \/ Settings
  <2>1. UNCHANGED watched /\ UNCHANGED queue /\ UNCHANGED wpc
    BY <1>10 DEF Report, Settings, SaveSite, watched
  <2>. QED  BY <1>0, <2>1
<1>11. CASE UpWait \/ UpQueue \/ UpOpen
  <2>1. UNCHANGED watched /\ UNCHANGED queue /\ UNCHANGED wpc
    BY <1>11 DEF UpWait, UpQueue, UpOpen, watched
  <2>. QED  BY <1>0, <2>1
<1>12. ASSUME UpMainEnds PROVE Kept'
  BY <1>12, UpMainEndKeeps
<1>. QED
  BY <1>2, <1>3, <1>4, <1>5, <1>6, <1>7, <1>8, <1>9, <1>10, <1>11, <1>12
  DEF Requests, Operator, UpMain, NullCall, Send, NullSend, Finish

(* The strengthened invariant, which the two theorems below and the          *)
(* refinement read.                                                          *)
THEOREM KeptAlways == Spec => [](TypeOK /\ Kept)
<1>1. Init => Kept
  BY DEF Init, Kept, NoCommandForgotten, DifferenceHasCause, StaleDriveFollowed
<1>2. TypeOK /\ TypeOK' /\ Kept /\ [Next]_vars => Kept'
  <2>. SUFFICES ASSUME TypeOK, TypeOK', Kept, [Next]_vars PROVE Kept'
    OBVIOUS
  <2>1. CASE Control \/ Start
    BY <2>1, ControlKeeps
  <2>2. CASE Deaths
    BY <2>2, DeathsKeep
  <2>3. CASE UNCHANGED vars
    BY <2>3
    DEF vars, shm, ctl, wvar, hist, Kept, NoCommandForgotten, DifferenceHasCause,
        StaleDriveFollowed, WakeUpComing, ServingPer, RightWay
  <2>. QED  BY <2>1, <2>2, <2>3, WritersKeep DEF Next, Operate
<1>. QED  BY <1>1, <1>2, TypeCorrect, PTL DEF Spec

(* No accepted command is forgotten, however the receiving threads, the      *)
(* operator, ValveControl, the switches of the sites and the deaths          *)
(* interleave, and although MsgSend may give up (NoCommandForgotten).        *)
THEOREM NeverForgotten == Spec => []NoCommandForgotten
<1>1. TypeOK /\ Kept => NoCommandForgotten
  BY DEF Kept
<1>. QED  BY <1>1, KeptAlways, PTL

(* The report condition per = per_last is never left false with nothing to   *)
(* make it true again, while the site that stored per is open                *)
(* (ReportingNotWedged).                                                     *)
THEOREM NeverWedged == Spec => []ReportingNotWedged
<1>1. TypeOK /\ Kept => ReportingNotWedged
  BY DEF Kept, DifferenceHasCause, ReportingNotWedged
<1>. QED  BY <1>1, KeptAlways, PTL

-----------------------------------------------------------------------------
(* The opening the service is driving to, as the instance of ValveService    *)
(* sees it.                                                                  *)
Heading == IF vpc = "move" /\ RightWay(target) THEN target ELSE NoGoal

(* Away from a drive the service has no goal, whatever the locals of         *)
(* ValveControl hold.                                                        *)
LEMMA NotHeading == vpc # "move" => Heading = NoGoal
BY DEF Heading

(* A step of the command path that touches no drive is a step of the service *)
(* or none: a new opening wanted, or the excuse given or withdrawn.          *)
LEMMA OutsideStep ==
  ASSUME TypeOK, TypeOK', UNCHANGED <<driven, vpc, opening, target, per_measure>>
  PROVE  [Service!Next]_(Service!vars)
<1>1. Heading' = Heading
  BY DEF Heading, RightWay
<1>2. per' \in Byte /\ Excused' \in BOOLEAN
  BY DEF TypeOK, Excused, Heard
<1>3. Service!Command
  BY <1>1, <1>2 DEF Service!Command, Heading
<1>. QED  BY <1>3 DEF Service!Next

(* Away from a drive ValveControl, and its start, changes at most the excuse. *)
LEMMA IdleStep ==
  ASSUME TypeOK, TypeOK', vpc # "move", vpc' # "move", UNCHANGED <<per, driven>>
  PROVE  [Service!Next]_(Service!vars)
<1>1. Heading = NoGoal /\ Heading' = NoGoal
  BY DEF Heading
<1>2. Excused' \in BOOLEAN
  BY DEF TypeOK, Excused, Heard
<1>3. Service!Excuse
  BY <1>1, <1>2 DEF Service!Excuse, Heading
<1>. QED  BY <1>3 DEF Service!Next

(* ValveControl implements the service: the second read of per picks the     *)
(* goal, the end of the drive delivers it.                                   *)
LEMMA ControlServes ==
  ASSUME TypeOK, TypeOK', Control \/ Start PROVE [Service!Next]_(Service!vars)
<1>. USE DEF shm, para, hist, At
<1>1. CASE \/ Take \/ PollEmpty \/ StoreLast \/ BootCheck \/ BootLast \/ Sample
           \/ Compare \/ SkipClosed \/ Visit \/ Prepare \/ Prepared \/ NullQueue
           \/ Start
  <2>1. vpc # "move" /\ vpc' # "move" /\ UNCHANGED <<per, driven>>
    BY <1>1
    DEF Take, PollEmpty, StoreLast, BootCheck, BootLast, Sample, Compare, SkipClosed,
        Visit, Prepare, Prepared, NullQueue, ControlEnds, Start, NextQueue
  <2>. QED  BY <2>1, IdleStep
<1>2. CASE Adopt
  <2>1. /\ Heading = NoGoal /\ Heading' = NoGoal
        /\ per' = per_measure /\ driven' = per_measure
    BY <1>2 DEF Adopt, Heading
  <2>2. per_measure \in Byte
    BY DEF TypeOK
  <2>3. Excused' = Excused
    BY <1>2 DEF Adopt, Excused, Heard
  <2>4. Service!Adopt
    BY <2>1, <2>2, <2>3 DEF Service!Adopt, Heading
  <2>. QED  BY <2>4 DEF Service!Next
<1>3. CASE Aim
  <2>1. Heading = NoGoal /\ UNCHANGED <<per, driven>>
    BY <1>3 DEF Aim, Heading
  <2>2. vpc' = "move" /\ target' = per /\ UNCHANGED <<opening, per_measure>>
    BY <1>3 DEF Aim
  <2>3. Heading' = IF RightWay(per) THEN per ELSE NoGoal
    BY <2>2 DEF Heading, RightWay
  <2>4. Excused' = Excused
    BY <1>3 DEF Aim, Excused, Heard
  <2>5. CASE RightWay(per)
    <3>1. Service!Pick
      BY <2>1, <2>3, <2>4, <2>5 DEF Service!Pick, Heading
    <3>. QED  BY <3>1 DEF Service!Next
  <2>6. CASE ~RightWay(per)
    BY <2>1, <2>3, <2>4, <2>6 DEF Service!vars, Heading
  <2>. QED  BY <2>5, <2>6
<1>4. CASE Move
  <2>1. /\ vpc = "move" /\ Heading' = NoGoal /\ UNCHANGED per
        /\ driven' = IF RightWay(target) THEN target ELSE driven
    BY <1>4 DEF Move, Heading
  <2>4. Excused' = Excused
    BY <1>4 DEF Move, Excused, Heard
  <2>2. CASE RightWay(target)
    <3>1. Heading = target /\ Heading # NoGoal
      BY <2>1, <2>2 DEF Heading, TypeOK, Byte, NoGoal
    <3>2. Service!Deliver
      BY <2>1, <2>2, <2>4, <3>1 DEF Service!Deliver, Heading
    <3>. QED  BY <3>2 DEF Service!Next
  <2>3. CASE ~RightWay(target)
    <3>1. Heading = NoGoal
      BY <2>3 DEF Heading
    <3>. QED  BY <2>1, <2>3, <2>4, <3>1 DEF Service!vars, Heading
  <2>. QED  BY <2>2, <2>3
<1>. QED  BY <1>1, <1>2, <1>3, <1>4 DEF Control

(* A death of ValveControl during a drive is one the service is excused for; *)
(* the other deaths do not touch the drive.                                  *)
LEMMA DeathsServe ==
  ASSUME TypeOK, TypeOK', Deaths PROVE [Service!Next]_(Service!vars)
<1>. USE DEF shm, para, wvar, ctl
<1>1. CASE ControlDies
  <2>1. vpc' = "down" /\ UNCHANGED <<per, driven>>
    BY <1>1 DEF ControlDies, ControlEnds
  <2>2. Heading' = NoGoal /\ Excused'
    BY <2>1 DEF Heading, Excused
  <2>3. Service!Die
    BY <2>1, <2>2 DEF Service!Die, Heading
  <2>. QED  BY <2>3 DEF Service!Next
<1>2. CASE UpMainDies \/ InterfaceDies
  BY <1>2, OutsideStep DEF UpMainDies, UpMainEnds, InterfaceDies
<1>. QED  BY <1>1, <1>2 DEF Deaths

(* The command path implements the steps of ValveService, under every death  *)
(* of a process (ServiceStepsKept).                                          *)
THEOREM ServiceImplemented == Spec => ServiceStepsKept
<1>1. Init => Service!Init
  <2>. SUFFICES ASSUME Init PROVE Service!Init
    OBVIOUS
  <2>1. per \in Byte
    BY ByteFacts DEF Init
  <2>2. Excused = TRUE
    BY DEF Init, Excused
  <2>. QED  BY <2>1, <2>2 DEF Init, Service!Init
<1>2. TypeOK /\ TypeOK' /\ [Next]_vars => [Service!Next]_(Service!vars)
  <2>. SUFFICES ASSUME TypeOK, TypeOK', [Next]_vars
                PROVE  [Service!Next]_(Service!vars)
    OBVIOUS
  <2>. USE DEF shm, wvar, ctl
  <2>1. ASSUME NEW s \in Sites, NEW v \in Commands, Accept(s, v)
        PROVE  [Service!Next]_(Service!vars)
    BY <2>1, OutsideStep DEF Accept
  <2>2. ASSUME NEW s \in Sites, Finish(s) PROVE [Service!Next]_(Service!vars)
    BY <2>2, OutsideStep DEF Finish, SetPer, Store, Answer
  <2>3. ASSUME NEW w \in Writers, Send(w) PROVE [Service!Next]_(Service!vars)
    BY <2>3, OutsideStep DEF Send, Enqueue, RetrySend, GiveUp, NullSend, UpMainEnds
  <2>4. CASE Operator \/ Settings
    BY <2>4, OutsideStep
    DEF Operator, SwitchMode, FollowPer, StepUp, StepDown, SetValue, Confirm, Store,
        Settings, SaveSite
  <2>5. CASE Report
    BY <2>5, OutsideStep DEF Report
  <2>7. CASE UpMain
    BY <2>7, OutsideStep DEF UpMain, UpWait, UpQueue, UpOpen, NullCall, UpMainEnds
  <2>6. CASE UNCHANGED vars
    BY <2>6, OutsideStep DEF vars
  <2>. QED
    BY <2>1, <2>2, <2>3, <2>4, <2>5, <2>6, <2>7, ControlServes, DeathsServe
    DEF Next, Operate, Requests
<1>. QED  BY <1>1, <1>2, TypeCorrect, PTL DEF Spec, ServiceStepsKept, Service!Safety
-----------------------------------------------------------------------------
(* What SendersComeBack rests on beside the fairness of the writer's thread: *)
(* how many steps of its own a handler has left at most.                     *)
StepsToAnswer(p, t) ==
  CASE p = "idle"                -> 0
    [] p \in {"sent", "unsent"}  -> 1
    [] p = "send"                -> 1 + Retries - t
    [] p = "accepted"            -> 2 + Retries
HandlerLeft(w)  == StepsToAnswer(wpc[w], tries[w])
HandlerSteps(w) == Send(w) \/ (w \in Sites /\ Finish(w))

(* What a step may do to a writer in its handler.                            *)
Advance(w) ==
  \/ wpc'[w] = wpc[w] /\ tries'[w] = tries[w]
  \/ wpc'[w] = "idle"
  \/ wpc[w] = "send" /\ wpc'[w] \in {"sent", "unsent"}
  \/ wpc[w] = "send" /\ wpc'[w] = "send" /\ tries'[w] = tries[w] + 1
  \/ wpc[w] = "accepted" /\ wpc'[w] = "send"

LEMMA StepsToAnswerFacts ==
  ASSUME NEW t \in 0..(Retries - 1)
  PROVE  /\ Retries \in Nat \ {0}
         /\ StepsToAnswer("idle", t) = 0
         /\ StepsToAnswer("sent", t) = 1
         /\ StepsToAnswer("unsent", t) = 1
         /\ StepsToAnswer("send", t) = 1 + Retries - t
         /\ StepsToAnswer("accepted", t) = 2 + Retries
BY ValveAssumption DEF StepsToAnswer, ValveAssumption

LEMMA StepsToAnswerRange ==
  ASSUME NEW p \in {"idle", "accepted", "send", "sent", "unsent"},
         NEW t \in 0..(Retries - 1)
  PROVE  /\ StepsToAnswer(p, t) \in 0..(Retries + 2)
         /\ (StepsToAnswer(p, t) = 0 <=> p = "idle")
<1>1. /\ 1 + Retries - t \in 1..(Retries + 2) /\ 2 + Retries \in 1..(Retries + 2)
      /\ 1 \in 1..(Retries + 2) /\ 0 \in 0..(Retries + 2)
      /\ \A j \in 1..(Retries + 2) : j \in 0..(Retries + 2) /\ j # 0
  BY StepsToAnswerFacts
<1>2. \/ p = "idle" /\ StepsToAnswer(p, t) = 0
      \/ p # "idle" /\ StepsToAnswer(p, t) \in 1..(Retries + 2)
  BY <1>1, StepsToAnswerFacts
<1>. QED  BY <1>1, <1>2

(* A handler that was entered is left within Retries + 2 steps of its own    *)
(* (gb212 966-1003, tinz_pub_message 62-69, valvewidget 185-186), and nobody *)
(* else can take it further from its end: not a full queue, not ValveControl *)
(* that never reads, not the other writers.                                  *)
THEOREM HandlerCountsDown ==
  Spec => \A w \in Writers :
    /\ [](HandlerLeft(w) \in 0..(Retries + 2) /\ (HandlerLeft(w) = 0 <=> wpc[w] = "idle"))
    /\ [][wpc[w] # "idle" => /\ HandlerLeft(w)' <= HandlerLeft(w)
                             /\ HandlerSteps(w) => HandlerLeft(w)' < HandlerLeft(w)]_vars
<1>. SUFFICES ASSUME NEW w \in Writers
              PROVE  Spec =>
                /\ [](HandlerLeft(w) \in 0..(Retries + 2) /\ (HandlerLeft(w) = 0 <=> wpc[w] = "idle"))
                /\ [][wpc[w] # "idle" => /\ HandlerLeft(w)' <= HandlerLeft(w)
                                         /\ HandlerSteps(w) => HandlerLeft(w)' < HandlerLeft(w)]_vars
  OBVIOUS
<1>1. TypeOK => HandlerLeft(w) \in 0..(Retries + 2) /\ (HandlerLeft(w) = 0 <=> wpc[w] = "idle")
  BY StepsToAnswerRange DEF HandlerLeft, TypeOK
<1>2. TypeOK /\ TypeOK' /\ [Next]_vars =>
        [wpc[w] # "idle" => /\ HandlerLeft(w)' <= HandlerLeft(w)
                            /\ HandlerSteps(w) => HandlerLeft(w)' < HandlerLeft(w)]_vars
  <2>. SUFFICES ASSUME TypeOK, TypeOK', Next, wpc[w] # "idle"
                PROVE  /\ HandlerLeft(w)' <= HandlerLeft(w)
                       /\ HandlerSteps(w) => HandlerLeft(w)' < HandlerLeft(w)
    OBVIOUS
  <2>. DEFINE p == wpc[w]
              t == tries[w]
              p1 == wpc'[w]
              t1 == tries'[w]
  <2>0. /\ HandlerLeft(w) = StepsToAnswer(p, t) /\ HandlerLeft(w)' = StepsToAnswer(p1, t1)
        /\ p \in {"accepted", "send", "sent", "unsent"} /\ t \in 0..(Retries - 1)
        /\ p1 \in {"idle", "accepted", "send", "sent", "unsent"} /\ t1 \in 0..(Retries - 1)
    BY DEF HandlerLeft, TypeOK
  <2>1. Advance(w)
    <3>. USE WriterFacts DEF Advance, TypeOK, shm, para, ctl, wvar, uvar
    <3>0. ASSUME UpMainEnds PROVE Advance(w)
      BY <3>0 DEF UpMainEnds
    <3>1. ASSUME NEW x \in Writers, Enqueue(x) \/ RetrySend(x) \/ GiveUp(x)
          PROVE  Advance(w)
      BY <3>1 DEF Enqueue, RetrySend, GiveUp, AfterSend
    <3>2. ASSUME NEW s \in Sites, NEW v \in Commands, Accept(s, v) PROVE Advance(w)
      BY <3>2 DEF Accept
    <3>3. ASSUME NEW s \in Sites, Finish(s) PROVE Advance(w)
      BY <3>3 DEF Finish, SetPer, Store, Answer
    <3>4. CASE Operator \/ Settings
      BY <3>4 DEF Operator, SwitchMode, FollowPer, StepUp, StepDown, Confirm, Store,
                  SetValue, GuiFree, Settings, SaveSite
    <3>5. CASE Control \/ Start \/ Report \/ ControlDies
      BY <3>5 DEF Control, Start, Prepare, Prepared, BootCheck, Adopt, BootLast, Sample,
                  SkipClosed, Visit, PollEmpty, Take, NullQueue, ControlEnds,
                  Compare, Aim, Move, StoreLast, Report, ControlDies
    <3>6. CASE InterfaceDies
      BY <3>6 DEF InterfaceDies
    <3>7. CASE UpWait \/ UpQueue \/ UpOpen
      BY <3>7 DEF UpWait, UpQueue, UpOpen
    <3>. QED
      BY <3>0, <3>1, <3>2, <3>3, <3>4, <3>5, <3>6, <3>7
      DEF Next, Operate, Requests, Deaths, UpMainDies, UpMain, NullCall, Send, NullSend
  <2>2. HandlerSteps(w) => p1 # p \/ t1 = t + 1
    <3>1. CASE NullSend(w)
      <4>1. w # UI /\ p = "send"
        BY <3>1 DEF NullSend
      <4>2. p1 = "idle"
        BY <3>1, <4>1 DEF NullSend, UpMainEnds
      <4>. QED  BY <4>1, <4>2
    <3>2. CASE HandlerSteps(w) /\ ~NullSend(w)
      BY <2>0, <3>2, WriterFacts
      DEF HandlerSteps, Send, Enqueue, RetrySend, GiveUp, AfterSend, Finish, SetPer,
          Store, Answer, TypeOK
    <3>. QED  BY <3>1, <3>2
  <2>. HIDE DEF p, t, p1, t1
  <2>4. /\ StepsToAnswer(p1, t1) <= StepsToAnswer(p, t)
        /\ p1 # p \/ t1 = t + 1 => StepsToAnswer(p1, t1) < StepsToAnswer(p, t)
    <3>. USE StepsToAnswerFacts
    <3>1. CASE p1 = p /\ t1 = t
      <4>1. StepsToAnswer(p, t) \in 0..(Retries + 2)
        BY <2>0, StepsToAnswerRange
      <4>2. t # t + 1 /\ \A j \in 0..(Retries + 2) : j <= j
        BY <2>0
      <4>. QED  BY <3>1, <4>1, <4>2
    <3>2. CASE p1 = "idle"
      BY <2>0, <3>2
    <3>3. CASE p = "send" /\ p1 \in {"sent", "unsent"}
      BY <2>0, <3>3
    <3>4. CASE p = "send" /\ p1 = "send" /\ t1 = t + 1
      <4>1. 1 + Retries - (t + 1) < 1 + Retries - t
        BY <2>0
      <4>. QED  BY <2>0, <3>4, <4>1
    <3>5. CASE p = "accepted" /\ p1 = "send"
      <4>1. 1 + Retries - t1 < 2 + Retries
        BY <2>0
      <4>. QED  BY <2>0, <3>5, <4>1
    <3>. QED  BY <2>1, <3>1, <3>2, <3>3, <3>4, <3>5 DEF Advance, p, t, p1, t1
  <2>. QED  BY <2>0, <2>2, <2>4
<1>. QED  BY <1>1, <1>2, TypeCorrect, PTL DEF Spec
=============================================================================

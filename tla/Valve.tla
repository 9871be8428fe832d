------------------------------- MODULE Valve -------------------------------
(***************************************************************************)
(* The valve command path.  Platform commands (one receiving thread per    *)
(* site in up_main) and the operator's page (the single GUI thread of      *)
(* interface) write the opening they want into the shared segment          *)
(* stValveControl and put a wake-up message on a System V queue of their   *)
(* own.  ValveControl polls the queues in turn, ignores the payload, and   *)
(* reads the wanted opening from the segment again, three times, while it  *)
(* serves one message.  The sending thread of up_main reads the same       *)
(* segment once a minute and decides whether to report the opening.        *)
(*                                                                         *)
(* The operator opens and closes sites while the programs run.  Each       *)
(* program prepares the queues of the sites it finds open when it starts   *)
(* and tests ServerOpen again later: ValveControl skips the queue of a     *)
(* closed site and crashes on the queue of a site opened since; up_main    *)
(* keeps the receiving thread of a closed site, and crashes on a site      *)
(* opened since.                                                           *)
(*                                                                         *)
(* No lock protects the segment: every action below touches it only        *)
(* between two points where the code can be interleaved with another       *)
(* process.  syncValveParaShm reads the segment and writes a file, so it   *)
(* leaves every variable of this module alone; the file is modelled in     *)
(* ShmStore.  The movement itself is one step here, with any reading as    *)
(* its result; ValveDrive opens it.                                        *)
(***************************************************************************)
EXTENDS Naturals

CONSTANTS
  NSites,     \* sites the settings page knows
  QCap,       \* messages one queue holds
  Retries,    \* MSG_RTYCNT: attempts of MsgSend on a full queue
  Commands,   \* openings a platform asks for
  Stored,     \* per and per_alarm at start: from the file, or 255 (fresh)
  Readings,   \* what GetPerValue may return: a percentage, or 255 on a fault
  Step        \* the increment of the operator's + and - buttons

Byte == 0..255
Fault == 255

ASSUME ValveAssumption ==
  /\ NSites \in Nat
  /\ QCap \in Nat \ {0}
  /\ Retries \in Nat \ {0}
  /\ Commands \subseteq 0..100
  /\ Stored \subseteq (0..100) \cup {Fault}
  /\ Readings \subseteq (0..100) \cup {Fault}
  /\ Readings # {}
  /\ Step \in Byte \ {0}

Sites   == 1..NSites
UI      == NSites + 1
Writers == 1..UI        \* one queue per writer, polled in this order

VARIABLES
  per, per_measure, per_last, per_alarm,   \* stValveControl
  Mode,          \* stPara.Mode: 0 remote, 1 maintenance
  ServerOpen,    \* stPara.SitePara[s].ServerOpen
  queue,         \* messages waiting in the queue of each writer
  wpc,           \* where each writer is in its handler
  cmd,           \* url_args.per of each site's request; valve_set_value of UI
  tries,         \* attempts MsgSend has made
  up,            \* where main of up_main is in its start
  sendq,         \* sites whose control queue up_main has prepared
  listening,     \* sites whose receiving thread runs
  vpc,           \* where ValveControl is
  scan,          \* the queue MessageInit or MessageRecv looks at
  recvq,         \* sites whose control queue ValveControl has prepared
  opening,       \* the direction chosen at the comparison: TRUE is "open"
  target,        \* the argument per of Valve_control_xx_mode
  driven,        \* history: the last target driven in the right direction
  setter,        \* history: the writer that stored per last
  lost           \* history: a death took the wake-up of that store

shm  == <<per, per_measure, per_last, per_alarm>>
para == <<Mode, ServerOpen>>
wvar == <<wpc, cmd, tries>>
uvar == <<up, sendq, listening>>
ctl  == <<vpc, scan, recvq, opening, target, driven>>
hist == <<setter, lost>>
vars == <<shm, para, queue, wvar, uvar, ctl, hist>>

AbsDiff(a, b) == IF a > b THEN a - b ELSE b - a

-----------------------------------------------------------------------------
(* Initial states: the segment comes from the file or from initValveParaShm *)
(* and no process has done anything yet.                                    *)

Init ==
  /\ per \in Stored
  /\ per_measure = 0
  /\ per_last \in {per, Fault}
  /\ per_alarm \in Stored
  /\ Mode = 0
  /\ ServerOpen \in [Sites -> BOOLEAN]
  /\ queue = [w \in Writers |-> 0]
  /\ wpc = [w \in Writers |-> "idle"]
  /\ cmd = [w \in Writers |-> IF w = UI THEN per ELSE 0]
  /\ tries = [w \in Writers |-> 0]
  /\ up = 0
  /\ sendq = {} /\ listening = {}
  /\ vpc = "down"
  /\ scan = 1
  /\ recvq = {}
  /\ opening = FALSE
  /\ target = 0
  /\ driven = per
  /\ setter = UI
  /\ lost = FALSE

-----------------------------------------------------------------------------
(* up_main.  It waits for an open site, prepares the control queue of every *)
(* site it finds open, then starts a receiving thread for every site it     *)
(* finds open at a second look, and the sending thread at last.             *)

UpRuns == 2 * NSites + 1
IfOpen(s, set) == IF ServerOpen[s] THEN set \cup {s} ELSE set

UpWait ==
  /\ up = 0 /\ \E s \in Sites : ServerOpen[s]
  /\ up' = 1
  /\ UNCHANGED <<shm, para, queue, wvar, sendq, listening, ctl, hist>>

UpQueue ==
  /\ up \in Sites
  /\ sendq' = IfOpen(up, sendq)
  /\ up' = up + 1
  /\ UNCHANGED <<shm, para, queue, wvar, listening, ctl, hist>>

UpOpen ==
  /\ up - NSites \in Sites
  /\ listening' = IfOpen(up - NSites, listening)
  /\ up' = up + 1
  /\ UNCHANGED <<shm, para, queue, wvar, sendq, ctl, hist>>

(* The death of a writer that has stored per and not yet queued its wake-up *)
(* loses it, unless an earlier one waits in the same queue.                 *)
Drops(w) == setter = w /\ wpc[w] = "send" /\ queue[w] = 0

UpMainEnds ==
  /\ up' = 0 /\ sendq' = {} /\ listening' = {}
  /\ wpc' = [w \in Writers |-> IF w = UI THEN wpc[w] ELSE "idle"]
  /\ tries' = [w \in Writers |-> IF w = UI THEN tries[w] ELSE 0]
  /\ cmd' = [w \in Writers |-> IF w = UI THEN cmd[w] ELSE 0]
  /\ lost' = (lost \/ \E s \in Sites : Drops(s))
  /\ UNCHANGED <<shm, para, queue, ctl, setter>>

(* The sending thread calls the packet_send_handle of every open site: null *)
(* when the site has been opened since the start.                           *)
NullCall ==
  /\ up = UpRuns
  /\ \E s \in Sites : ServerOpen[s] /\ s \notin listening
  /\ UpMainEnds

-----------------------------------------------------------------------------
(* The platform side: messageProc, case CN_ValveControl, in the receiving   *)
(* thread of site s, which never tests ServerOpen again.  A request in      *)
(* maintenance mode, one out of range and one for the opening already       *)
(* wanted are answered and change nothing, so only the accepted request is  *)
(* a step.  RequestRespond sits between the checks and the write and may    *)
(* wait seconds for the connection.                                         *)

Accept(s, v) ==
  /\ s \in listening
  /\ wpc[s] = "idle"
  /\ Mode = 0
  /\ v <= 100
  /\ per # v
  /\ wpc' = [wpc EXCEPT ![s] = "accepted"]
  /\ cmd' = [cmd EXCEPT ![s] = v]
  /\ UNCHANGED <<shm, para, queue, tries, uvar, ctl, hist>>

Store(w, v) ==
  /\ per' = v
  /\ wpc' = [wpc EXCEPT ![w] = "send"]
  /\ setter' = w /\ lost' = FALSE
  /\ UNCHANGED <<per_measure, per_last, per_alarm, para, queue, tries, uvar, ctl>>

SetPer(s) ==
  /\ wpc[s] = "accepted"
  /\ Store(s, cmd[s])
  /\ cmd' = [cmd EXCEPT ![s] = 0]

(* ExecuteRespond(RESULT_SUCCESS), whatever MsgSend returned.               *)
Answer(s) ==
  /\ wpc[s] \in {"sent", "unsent"}
  /\ wpc' = [wpc EXCEPT ![s] = "idle"]
  /\ UNCHANGED <<shm, para, queue, cmd, tries, uvar, ctl, hist>>

-----------------------------------------------------------------------------
(* MsgSend: a non-blocking msgsnd tried Retries times, a second apart.  The *)
(* GUI thread returns to its event loop, a site goes on to its answer.      *)

AfterSend(w, result) == IF w = UI THEN "idle" ELSE result

Enqueue(w) ==
  /\ wpc[w] = "send"
  /\ w \in sendq \cup {UI}
  /\ queue[w] < QCap
  /\ queue' = [queue EXCEPT ![w] = @ + 1]
  /\ tries' = [tries EXCEPT ![w] = 0]
  /\ wpc' = [wpc EXCEPT ![w] = AfterSend(w, "sent")]
  /\ UNCHANGED <<shm, para, cmd, uvar, ctl, hist>>

(* Mutant of RetrySend: the attempts are not counted.                       *)
RetryUncounted(w) ==
  wpc[w] = "send" /\ queue[w] = QCap /\ UNCHANGED vars

RetrySend(w) ==
  /\ wpc[w] = "send"
  /\ w \in sendq \cup {UI}
  /\ queue[w] = QCap
  /\ tries[w] + 1 < Retries
  /\ tries' = [tries EXCEPT ![w] = @ + 1]
  /\ UNCHANGED <<shm, para, queue, wpc, cmd, uvar, ctl, hist>>

GiveUp(w) ==
  /\ wpc[w] = "send"
  /\ w \in sendq \cup {UI}
  /\ queue[w] = QCap
  /\ tries[w] + 1 = Retries
  /\ tries' = [tries EXCEPT ![w] = 0]
  /\ wpc' = [wpc EXCEPT ![w] = AfterSend(w, "unsent")]
  /\ UNCHANGED <<shm, para, queue, cmd, uvar, ctl, hist>>

(* The site was opened between the two looks of up_main: the thread runs    *)
(* and its queue was never prepared.                                        *)
NullSend(w) == wpc[w] = "send" /\ w \notin sendq \cup {UI} /\ UpMainEnds

-----------------------------------------------------------------------------
(* The operator side.  All of it runs on the GUI thread, so none of it      *)
(* happens while the thread is inside MsgSend.                              *)

GuiFree == wpc[UI] = "idle"

(* on_pbn_operation_clicked, by a logged-in user.                           *)
SwitchMode ==
  /\ GuiFree
  /\ Mode' = 1 - Mode
  /\ UNCHANGED <<shm, ServerOpen, queue, wvar, uvar, ctl, hist>>

(* on_btn_SaveSite_clicked writes the switches one by one.                  *)
SaveSite(s) ==
  /\ GuiFree
  /\ ServerOpen' = [ServerOpen EXCEPT ![s] = ~@]
  /\ UNCHANGED <<shm, Mode, queue, wvar, uvar, ctl, hist>>

SetValue(v) ==
  /\ cmd' = [cmd EXCEPT ![UI] = v]
  /\ UNCHANGED <<shm, para, queue, wpc, tries, uvar, ctl, hist>>

(* slotUpdataValveValue, every second.                                      *)
FollowPer == GuiFree /\ Mode = 0 /\ SetValue(per)

StepUp ==
  /\ GuiFree /\ Mode = 1
  /\ SetValue(IF cmd[UI] <= 100 - Step THEN cmd[UI] + Step ELSE 100)

StepDown ==
  /\ GuiFree /\ Mode = 1
  /\ SetValue(IF cmd[UI] >= Step THEN cmd[UI] - Step ELSE 0)

Confirm ==
  /\ GuiFree /\ Mode = 1
  /\ Store(UI, cmd[UI] % 256)
  /\ UNCHANGED cmd

-----------------------------------------------------------------------------
(* ValveControl.  The watchdog starts it, the first time and again; then    *)
(* it prepares the queues of the sites that are open.                       *)

At(here, there) == vpc = here /\ vpc' = there

Start ==
  /\ At("down", "init")
  /\ UNCHANGED <<shm, para, queue, wvar, uvar, scan, recvq, opening, target,
                 driven, hist>>

Prepare ==
  /\ vpc = "init" /\ scan \in Sites
  /\ recvq' = IfOpen(scan, recvq)
  /\ scan' = scan + 1
  /\ UNCHANGED <<shm, para, queue, wvar, uvar, vpc, opening, target, driven, hist>>

Prepared ==
  /\ At("init", "boot") /\ scan = UI
  /\ scan' = 1
  /\ UNCHANGED <<shm, para, queue, wvar, uvar, recvq, opening, target, driven, hist>>

(* A setpoint above 100 is replaced by a fresh measurement: the test and    *)
(* the store are separated by an AD conversion.                             *)
BootCheck ==
  /\ \/ At("boot", "boot_last") /\ per <= 100 /\ UNCHANGED per_measure
     \/ At("boot", "adopt") /\ per > 100 /\ per_measure' \in Readings
  /\ UNCHANGED <<per, per_last, per_alarm, para, queue, wvar, uvar, scan, recvq,
                 opening, target, driven, hist>>

Adopt ==
  /\ At("adopt", "boot_last")
  /\ per' = per_measure
  /\ driven' = per_measure
  /\ UNCHANGED <<per_measure, per_last, per_alarm, para, queue, wvar, uvar, scan,
                 recvq, opening, target, hist>>

(* Mutant of BootLast: the messages found at the start are thrown away.     *)
BootDrains ==
  /\ At("boot_last", "sample")
  /\ per_last' = per
  /\ queue' = [w \in Writers |-> 0]
  /\ UNCHANGED <<per, per_measure, per_alarm, para, wvar, uvar, scan, recvq,
                 opening, target, driven, hist>>

BootLast ==
  /\ At("boot_last", "sample")
  /\ per_last' = per
  /\ IF per_alarm > 100
       THEN per_measure' \in Readings /\ per_alarm' = per_measure'
       ELSE UNCHANGED <<per_measure, per_alarm>>
  /\ UNCHANGED <<per, para, queue, wvar, uvar, scan, recvq, opening, target,
                 driven, hist>>

(* One round of the main loop: sample, then one message of every queue.     *)
Sample ==
  /\ At("sample", "poll")
  /\ per_measure' \in Readings
  /\ UNCHANGED <<per, per_last, per_alarm, para, queue, wvar, uvar, scan, recvq,
                 opening, target, driven, hist>>

(* Mutant of NextQueue: the loop over the queues ends one short.            *)
NextSiteQueue ==
  IF scan = NSites THEN vpc' = "sample" /\ scan' = 1
                   ELSE vpc' = "poll" /\ scan' = scan + 1

NextQueue ==
  IF scan = UI THEN vpc' = "sample" /\ scan' = 1
               ELSE vpc' = "poll" /\ scan' = scan + 1

(* Whose queue is read: ServerOpen is tested just before each one.          *)
Heard(w) == w \in {s \in Sites : ServerOpen[s]} \cup {UI}

SkipClosed ==
  /\ vpc = "poll" /\ ~Heard(scan)
  /\ NextQueue
  /\ UNCHANGED <<shm, para, queue, wvar, uvar, recvq, opening, target, driven, hist>>

Visit ==
  /\ At("poll", "recv") /\ Heard(scan)
  /\ UNCHANGED <<shm, para, queue, wvar, uvar, scan, recvq, opening, target,
                 driven, hist>>

PollEmpty ==
  /\ vpc = "recv"
  /\ scan \in recvq \cup {UI}
  /\ queue[scan] = 0
  /\ NextQueue
  /\ UNCHANGED <<shm, para, queue, wvar, uvar, recvq, opening, target, driven, hist>>

(* Mutant of Take: a message is dropped when per has not changed since the  *)
(* last drive, as far as per_last tells.                                    *)
TakeUnlessLast ==
  /\ vpc = "recv"
  /\ scan \in recvq \cup {UI}
  /\ queue[scan] > 0
  /\ queue' = [queue EXCEPT ![scan] = @ - 1]
  /\ IF per = per_last THEN NextQueue ELSE vpc' = "taken" /\ scan' = scan
  /\ UNCHANGED <<shm, para, wvar, uvar, recvq, opening, target, driven, hist>>

Take ==
  /\ At("recv", "taken")
  /\ scan \in recvq \cup {UI}
  /\ queue[scan] > 0
  /\ queue' = [queue EXCEPT ![scan] = @ - 1]
  /\ UNCHANGED <<shm, para, wvar, uvar, scan, recvq, opening, target, driven, hist>>

ControlEnds ==
  /\ vpc' = "down"
  /\ scan' = 1 /\ recvq' = {} /\ opening' = FALSE /\ target' = 0
  /\ UNCHANGED <<shm, para, queue, wvar, uvar, driven, setter>>

(* MsgRcv of a site opened since the start: a null queue.                   *)
NullQueue ==
  /\ vpc = "recv" /\ scan \notin recvq \cup {UI}
  /\ ControlEnds
  /\ UNCHANGED lost

(* Valve_control: the first read of per chooses the direction, the second   *)
(* is the target, the third becomes per_last.                               *)
Compare ==
  /\ At("taken", "aim")
  /\ opening' = (per > per_measure)
  /\ UNCHANGED <<shm, para, queue, wvar, uvar, scan, recvq, target, driven, hist>>

(* Mutant of Aim: the neighbouring field of the segment is read.            *)
AimAtLast ==
  /\ At("aim", "move")
  /\ target' = per_last
  /\ UNCHANGED <<shm, para, queue, wvar, uvar, scan, recvq, opening, driven, hist>>

Aim ==
  /\ At("aim", "move")
  /\ target' = per
  /\ UNCHANGED <<shm, para, queue, wvar, uvar, scan, recvq, opening, driven, hist>>

(* A drive in the wrong direction ends at its first zero-crossing test.     *)
RightWay(goal) == opening <=> goal > per_measure

(* The drive loop, to its end: in place, crossed, stalled, timed out or     *)
(* faulted.  The analog drive leaves per_measure alone on a fault.          *)
Move ==
  /\ At("move", "store")
  /\ driven' = IF RightWay(target) THEN target ELSE driven
  /\ per_measure' \in Readings \cup {per_measure}
  /\ opening' = FALSE /\ target' = 0         \* the locals go out of scope
  /\ UNCHANGED <<per, per_last, per_alarm, para, queue, wvar, uvar, scan, recvq, hist>>

(* Mutant of StoreLast: per_last is not stored.                             *)
StoreNothing ==
  /\ vpc = "store"
  /\ NextQueue
  /\ UNCHANGED <<shm, para, queue, wvar, uvar, recvq, opening, target, driven, hist>>

StoreLast ==
  /\ vpc = "store"
  /\ per_last' = per
  /\ NextQueue
  /\ UNCHANGED <<per, per_measure, per_alarm, para, queue, wvar, uvar, recvq,
                 opening, target, driven, hist>>

-----------------------------------------------------------------------------
(* The report decision of tcpclient_thread_send.  The message it inserts    *)
(* travels in UpReport; here only per_alarm moves.                          *)

StatePer == IF AbsDiff(per, per_measure) > 5 THEN per_measure ELSE per

(* Mutant of Report: the opening wanted is taken for the one reported.      *)
ReportWanted ==
  /\ up = UpRuns
  /\ per = per_last
  /\ per <= 100
  /\ AbsDiff(per_alarm, StatePer) > 5
  /\ per_alarm' = per
  /\ UNCHANGED <<per, per_measure, per_last, para, queue, wvar, uvar, ctl, hist>>

Report ==
  /\ up = UpRuns
  /\ per = per_last
  /\ per <= 100
  /\ AbsDiff(per_alarm, StatePer) > 5
  /\ per_alarm' = StatePer
  /\ UNCHANGED <<per, per_measure, per_last, para, queue, wvar, uvar, ctl, hist>>

-----------------------------------------------------------------------------
(* A process dies and the watchdog starts it again; segment and queues      *)
(* survive in the kernel.                                                   *)

ControlDies ==
  /\ vpc # "down"
  /\ ControlEnds
  /\ lost' = (lost \/ vpc \in {"taken", "aim", "move"})

UpMainDies == UpMainEnds

InterfaceDies ==
  /\ wpc' = [wpc EXCEPT ![UI] = "idle"]
  /\ tries' = [tries EXCEPT ![UI] = 0]
  /\ cmd' = [cmd EXCEPT ![UI] = per]     \* ValveWidget::init, on restart
  /\ lost' = (lost \/ Drops(UI))
  /\ UNCHANGED <<shm, para, queue, uvar, ctl, setter>>

-----------------------------------------------------------------------------
Requests == \E s \in Sites, v \in Commands : Accept(s, v)
Operator == SwitchMode \/ FollowPer \/ StepUp \/ StepDown \/ Confirm
Settings == \E s \in Sites : SaveSite(s)
Send(w)  == Enqueue(w) \/ RetrySend(w) \/ GiveUp(w) \/ NullSend(w)
Finish(s) == SetPer(s) \/ Answer(s)
UpMain   == UpWait \/ UpQueue \/ UpOpen \/ NullCall
Control  == \/ Prepare \/ Prepared \/ BootCheck \/ Adopt \/ BootLast \/ Sample
            \/ SkipClosed \/ Visit \/ PollEmpty \/ Take \/ NullQueue
            \/ Compare \/ Aim \/ Move \/ StoreLast
Deaths   == ControlDies \/ UpMainDies \/ InterfaceDies

Operate == \/ Requests
           \/ Operator
           \/ Settings
           \/ \E w \in Writers : Send(w)
           \/ \E s \in Sites : Finish(s)
           \/ UpMain
           \/ Start
           \/ Control
           \/ Report

Next == Operate \/ Deaths
Spec == Init /\ [][Next]_vars

(* The threads are ordinary loops with bounded waits: each keeps taking     *)
(* steps.  Nobody has to send commands, to touch the buttons or to start    *)
(* ValveControl, the first time or again.                                   *)
Fairness ==
  /\ \A w \in Writers : WF_vars(Send(w))
  /\ \A s \in Sites : WF_vars(Finish(s))
  /\ WF_vars(UpMain) /\ WF_vars(Control) /\ WF_vars(Report)

(* No process is killed, though some crash of themselves, and in the end    *)
(* nobody opens or closes sites.                                            *)
CalmSpec == Init /\ [][Operate]_vars /\ Fairness /\ <>[][~Settings]_vars

-----------------------------------------------------------------------------
(* The values and program points every variable ranges over.                *)
TypeOK ==
  /\ per \in Byte
  /\ per_measure \in Byte
  /\ per_last \in Byte
  /\ per_alarm \in Byte
  /\ Mode \in 0..1
  /\ ServerOpen \in [Sites -> BOOLEAN]
  /\ queue \in [Writers -> 0..QCap]
  /\ wpc \in [Writers -> {"idle", "accepted", "send", "sent", "unsent"}]
  /\ cmd \in [Writers -> Byte]
  /\ tries \in [Writers -> 0..(Retries - 1)]
  /\ up \in 0..UpRuns
  /\ sendq \subseteq Sites /\ listening \subseteq Sites /\ recvq \subseteq Sites
  /\ vpc \in {"down", "init", "boot", "adopt", "boot_last", "sample", "poll",
              "recv", "taken", "aim", "move", "store"}
  /\ scan \in Writers
  /\ opening \in BOOLEAN
  /\ target \in Byte
  /\ driven \in Byte
  /\ setter \in Writers
  /\ lost \in BOOLEAN

(* The wake-up of writer w is still to be read: in its queue, or in the     *)
(* hands of w, which has stored the opening and not yet left MsgSend.       *)
WakeUpComing(w) == queue[w] > 0 \/ wpc[w] = "send"

(* ValveControl holds a message and what it has read so far will take the   *)
(* valve to the opening that is wanted now.                                 *)
ServingPer ==
  \/ vpc = "taken"
  \/ vpc = "aim" /\ RightWay(per)
  \/ vpc = "move" /\ target = per /\ RightWay(target)

(* No command is forgotten (gb212 967-968, valvewidget 185-186,             *)
(* ValveControl 265-274): although ValveControl ignores the payload, reads  *)
(* the segment three times and races with every writer, and MsgSend may     *)
(* give up, an opening that is wanted and not yet driven is being served,   *)
(* or the writer that stored it has a wake-up still to be read, unless a    *)
(* death took it.  The queue of a closed site is not read (ValveControl     *)
(* 311): there the wake-up waits until the operator opens the site again.   *)
NoCommandForgotten ==
  per # driven /\ ~lost => ServingPer \/ WakeUpComing(setter)

(* Reporting is not wedged (tcp_client 164, ValveControl 272, 311 and 360): *)
(* the sending thread reports only while per = per_last, so whenever they   *)
(* differ, and the site that stored per has not been closed since,          *)
(* ValveControl, once started, must still be going to make them equal.      *)
ReportingNotWedged ==
  per # per_last /\ ~lost /\ Heard(setter) =>
    \/ WakeUpComing(setter)
    \/ vpc \in {"down", "init", "boot", "adopt", "boot_last",
                "taken", "aim", "move", "store"}

(* A queue that refuses messages cannot hold a receiving thread or the GUI  *)
(* for ever (tinz_pub_message 62-69), even when ValveControl never runs or  *)
(* is not started again after a crash.                                      *)
SendersComeBack == \A w \in Writers : wpc[w] # "idle" ~> wpc[w] = "idle"

(* The service owes nothing for an opening whose wake-up a death took, nor  *)
(* for one stored for a site that is closed, nor while nobody starts it.    *)
Excused == lost \/ ~Heard(setter) \/ vpc = "down"

(* Last writer wins: an opening that stays wanted, of a site that stays     *)
(* open or of the operator, is eventually the one the valve was last driven *)
(* to, in the right direction (ValveControl 265-274 and 311), even after    *)
(* the restarts that reading an unprepared queue costs.                     *)
LastCommandDriven ==
  \A v \in Commands : <>[](per = v /\ ~Excused) => <>[](driven = v)

(* End to end: when the wanted opening and the measurement settle and some  *)
(* site is open, the platform value settles within 5 of the opening         *)
(* (tcp_client 164-171, up_main 64-75).                                     *)
StatusSettles ==
  \A v \in Commands, m \in Readings :
    <>[](/\ per = v /\ per_measure = m /\ ~Excused
         /\ \E s \in Sites : ServerOpen[s])
      => <>[](AbsDiff(per_alarm, StatePer) <= 5)

(* The command path implements ValveService: the drive under way is a move  *)
(* in the right direction.  Checked whole under CalmSpec (steps and         *)
(* fairness), and for its steps under every death of a process.             *)
NoGoal == 256
Service == INSTANCE ValveService WITH
  Values <- Byte, Lasting <- Commands, None <- NoGoal,
  want <- per, have <- driven, excused <- Excused,
  goal <- IF vpc = "move" /\ RightWay(target) THEN target ELSE NoGoal

ServiceKept      == Service!Spec
ServiceStepsKept == Service!Safety

-----------------------------------------------------------------------------
(* What a comment of the code says, and the code does not do.               *)

(* protocl_gb212 75: the answer carries the result of the operation, so a   *)
(* success is answered only for a command that was handed over.             *)
SuccessOnlyIfSent == [][\A s \in Sites : Answer(s) => wpc[s] = "sent"]_vars
=============================================================================

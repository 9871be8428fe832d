# A TLA+ model of the drain-valve controller

This directory holds TLA+ modules that model the programs under `src/`, the
TLC configurations that check them on small instances, and proofs that TLAPS
checks for every value of the constants. `PROJECT.json` lists the runs, the
theorems and, for every definition, the source lines it stands for.

The device controls the drain valve of a waste-water plant. Platforms (up to
four TCP servers, GB 212 text protocol) ask for an opening in percent; an
operator can do the same on the touch screen in maintenance mode. A control
process drives the valve over an analog or a switch output and measures the
opening; another process reports the opening to the platforms.

## 1. Inventory

| Component | Sources | State it keeps | Operations |
|---|---|---|---|
| Valve command path | `protocl_gb212.c`, `up_main.c`, `tinz_pub_message.c`, `ValveControl.c`, `valvewidget.cpp`, `modelchoosewidget.cpp`, `frmconfig.cpp` | the segment `stValveControl` (`per`, `per_measure`, `per_last`, `per_alarm`), `Mode`, `ServerOpen`, one wake-up queue per writer, the queues each process has prepared, `valve_set_value` of the screen | start, open and close a site, accept a command, + / - / confirm, switch mode, poll the queues, serve a command, adopt a measurement at the first start |
| Valve drive | `ValveControl.c`, `AD7705.c`, `TLC5615.c` | GPIO and DAC outputs, the loop's locals | the two drive loops, the AD and DA conversions |
| Report buffer, sending thread | `tcp_client.c`, `protocl_gb212.c` | `pgmsgbuff` (128 messages), `state_per`, `per_alarm` | clear, decide, insert, send, once a minute |
| TCP link | `tcp_client.c` | `dev_fd`, `isConnected` per site | connect, receive, notice a failure, reconnect |
| Platform protocol | `protocl_gb212.c`, `nginx_helper.c` | the parsed request | parse, check password, MN and range, dispatch, answer |
| Shared memory and files | `tinz_pub_shm.c` | six segments, five with a file | attach or create, initialise, snapshot to the file |
| Message queues | `tinz_pub_message.c` | System V queues | non-blocking send with 30 attempts, non-blocking receive |
| Data processing | `dataproc.c`, `tinz_common_db_helper.c` | SQLite tables, `History` segment | store, answer a history request |
| Watchdog | `watchdog.c` | process table with restart counters | check, kill, restart, feed the hardware watchdog, reboot |
| Dialling | `autodial.c` | none | watch the VPN client and the PPP link |
| Operator interface | `interface/src` | login level, widgets' values | settings, history page, login, calibration |

The processes are `up_main`, `ValveControl`, `dataproc`, `interface`,
`watchdog` and `autodial`. They share memory segments without any lock and
wake each other through System V queues; the payload of a wake-up is ignored.

What is hard in it:

* **Interleaving without locks.** `ValveControl` reads `per` three times while
  it serves one message; up to four receiving threads and the operator store
  into it at any moment.
* **Two-step hand-over.** A command is a store and then a message; the queue
  may be full, the process may die in between, the result is ignored.
* **State that outlives its owner.** Segments and queues survive a process;
  its heap, its place in a loop and the message it holds do not.
* **Settings changed under running threads.** `ServerOpen` is read in every
  loop and stored by the settings page at any time; queues and threads are
  made at a start only, for the sites that are open then. Each save of the page
  writes the whole parameter segment, whatever another process is doing to it.
* **Best-effort delivery.** A report is sent once, and `per_alarm` says it was.

What makes each component correct:

* command path: no command is forgotten, the last opening wanted is the one
  driven, senders cannot hang, reporting is not wedged;
* sending thread: a report always finds room, leaves in order, the cycle ends,
  the buffer stays bounded, a reachable platform ends up informed;
* drive: outputs are off when nothing is driven, a drive ends near its target
  or says why not;
* files and segments: what is read after a restart is something that was
  written; history: an answer belongs to the request being shown; watchdog:
  a dead process is restarted or the device reboots.

## 2. Plan

| | Modules | Contents | State |
|---|---|---|---|
| 1 | `Valve`, `ValveService`, `ValveProofs` | command path, the service it implements | done |
| 2 | `UpReport`, `ReportService`, `UpReportProofs` | message buffer and sending thread, the reports it promises | done |
| 3 | `ValveDrive`, `ValveMath`, `ValveDriveProofs` | the two drive loops, the converters' arithmetic | done |
| 4 | `History`, `HistoryProofs` | history page, request flag, `dataproc`'s answer | done |
| 5 | `ShmStore`, `ShmStoreProofs` | segment creation, saved files, power loss | done |
| 6 | `TcpLink`, `TcpLinkProofs` | sockets, descriptors, reconnection | done |
| 7 | `Gb212`, `Gb212Proofs` | the requests that pass through shared records, and `dataproc`'s queues | done |
| 8 | `Watchdog`, `WatchdogProofs` | restarts, the alarm handler, feeding, reboot | done |
| 9 | `DataProc` | which rows a record replaces in the tables of days to years | left |
| 10 | refinement of the links of `UpReport` by `TcpLink` | with a second platform's data on a link | left |
| 11 | `Autodial`, login and mode | the remaining small state machines | left |

Theorems: every safety property of the runs is one. What is left is "eventually",
which the prover cannot do; variants (section 5) prove the finite part of it where
one process is enough.

The project keeps to twelve runs with forty properties between them and to
eight modules of proofs, so each component has one run for its safety and its
liveness together, and a type invariant that is proved is not checked again
by a run unless a theorem names the run's property.

## 3. Modules

### `Valve`

One writer per site (a receiving thread of `up_main`) and one more, the GUI
thread. A writer's program counter `wpc` runs through `messageProc`, case
`CN_ValveControl` (`Accept`, `SetPer`, `MsgSend`, `Answer`) or through
`on_tbn_valve_ok_clicked` (`Confirm`, `MsgSend`). `MsgSend` is `Enqueue`,
`RetrySend` and `GiveUp`. `ValveControl`'s program counter `vpc` runs through
its start (`Start`, `Prepare`, `Prepared`, `BootCheck`, `Adopt`, `BootLast`),
its loop (`Sample`, then for each queue `SkipClosed`, or `Visit` and
`PollEmpty` or `Take`) and `Valve_control` (`Compare`, `Aim`, `Move`,
`StoreLast`): an action ends wherever another process can see or change the
segment. `Report` is the report decision of the sending thread. `ControlDies`,
`UpMainDies` and `InterfaceDies` are deaths.

The operator opens and closes sites at any time (`SaveSite`, one switch a
step). A process looks at the switches when it starts: `up_main` waits for an
open site (`UpWait`), prepares the control queue of each open site (`UpQueue`,
`sendq`), and then, at a second look, starts a receiving thread for each
(`UpOpen`, `listening`); `ValveControl` prepares the queues it will read
(`Prepare`, `recvq`). Later, `ValveControl` tests the switch before it reads a
queue (`Heard`). So a closed site's thread goes on accepting commands whose
wake-ups nobody reads, and a site opened since a start ends `ValveControl`
(`NullQueue`) and `up_main` (`NullCall`, or `NullSend` for a site opened
between the two looks) through a null pointer.

Three history variables: `driven`, the target of the last drive whose direction
matched its target (a drive in the wrong direction ends at its first sample);
`setter`, the writer that stored `per` last; and `lost`, raised when a death
takes the wake-up of that store (of `ValveControl`, which held it, or of the
writer before it was queued) and lowered by the next store. A wake-up that
`MsgSend` gives up on is not lost: the queue that refused it holds an older one,
and the payload does not matter. While the site of `setter` is closed its
wake-up waits; that is what the properties say of it, and what `Excused` excuses.

Abstractions: the movement is one step with any reading as its result; the
answers and the file snapshots change none of these variables and are left
out; requests that are refused are not steps; the buttons' increment is the
constant `Step`.

### `ValveService`

What the command path promises, seen from outside: the opening wanted changes
at will, the service picks the one wanted at that moment and later has driven
to it, and keeps picking until it has what is wanted, unless it is excused.
`Valve` implements it with `want <- per`, `have <- driven`,
`excused <- Excused` (a death took the wake-up, the site that asked is closed,
or `ValveControl` is not running) and as `goal` the target of the drive under
way, if its direction is right.

### `UpReport`

One cycle of `tcpclient_thread_send`: `ClearBeat`, `ClearStatus` (with
`MsgSend` to `dataproc`: `Log`, `RetryLog`, `GiveUpLog`), `Cleared`, `Decide`,
`InsertBeat`, `NextSlot`, `SkipSite`, `SendTo`. Every test of `ServerOpen` is
a step of its own, because the settings page may change it between two; the
page stores site by site (`SaveSite`), so the thread may see part of a save. `NullCall` is the call through the null `packet_send_handle` of a
site that was opened after the receiving threads were started. `Die` loses the
buffer and keeps the segment. A link is up, stale (`isConnected` is set, the
peer is gone) or down.

The history variable `known` is what each platform was last told. The opening
(`state_per`) and the guard `per = per_last /\ per <= 100` (`quiet`) move
freely; in `Valve` they are what the command path makes of them.

Every live call passes flag 0 to `Insert_Message_Data`, so a message is sent
once and cleared in the next cycle; the resend branch for flag 1 is dead code
and not modelled, nor are `PowerState` and `ValvePowerState`, whose calls are
commented out.

### `ReportService`

What the sending thread promises, seen from outside: one report at a time, made
of an opening at rest more than 5 away from the last one reported; `per_alarm`
is stored for a report and for nothing else (but a first start of
`ValveControl`); a report goes to a platform once at most and may be lost, and a
platform is told nothing but the report under way. `UpReport` implements it
(`OneReportAtATime`): the report under way is the status in the first slot, and
it ends when it is cleared or `up_main` dies.

### `ValveDrive`

What `Valve` takes as one step: `Valve_control_DA_mode` and
`Valve_control_IO_mode`, with the valve beside them. `pc` is where
`ValveControl` stands: between two drives (`idle`), writing the three GPIO
outputs (`set`, `stop`), in the loop (`sample`), after it (`measure`), or
leaving the analog drive with a faulty reading (`faulted`). `Begin` is the
call, `Sample` the top of an iteration, and `Arrive`, `GoOn`, `NoProgress`,
`Progress` and `Faulted` are the ways through its body; `TimeOut` is `cnt` at
0. A GPIO write is a step of its own (`WritePin`), because the process may die
between two. `Die` keeps coils and DAC, for `InitGPIO` enables the pins without
writing them; the loop's locals are reset.

The valve is external: an energised coil or a DAC count pulls it one way, how
far it gets between two samples is chosen from `Moves`, and it may stand still.
A DAC count pulls it towards the opening that the AD converter would measure
for it. Between two drives it may be anywhere (`Drift`). A reading is the
opening or the fault value; the three conversions are `ValveMath`'s.

A drive may be of either kind and of either direction: the operator switches
`OutMode` at any time, and the direction comes from a comparison made before
the target was read (`Compare` and `Aim` of `Valve`). The switch drive's test
`2 == ValveState` is left out: the state is only ever set to 1 (a finding, and
`TypeOK` says so). A drive is in place within 3 of its target; the comments
beside the test say 5. The failure of a GPIO or SPI write is not modelled: the
code does not look at the results.

History variables: `why` the loop ended, the opening at the `start`, whether a
reading was `faulty`, the `recent` seven readings, and in `cut` the kinds of
drive that were cut short with their outputs on.

### `ValveMath`

The conversions as integer arithmetic, used by `ValveDrive` for the DAC and by
`ValveDriveProofs`. The code computes in `float`. On the AD side
every intermediate is exact in 24 bits; on the DA side no exact result lies
within the rounding error of an integer, except those that are integers and
exact. The integer divisions agree with the C code for all 65536 counts and all
256 percentages. `DacWord` keeps ten bits, which is what the DAC latches of the
16 that are sent.

### `TcpLink`

The links that `UpReport` only sees as up, stale or down. Each receiving thread
(`tcpclient_thread_recv`, `tcplink_connect`) is a program counter: `Socket`,
`Connect`, `Raise` or `GiveUp` and `Drop`, then `RecvFails`, `Close`, and again.
`inner` tells whether it has ever been connected, because a failure leads to
`recv` in the inner loop and to `socket` before it. The sending thread tests
`isConnected`, reads `dev_fd` and calls `send`: three steps. The kernel's side
is external: a table of descriptors, each with the state of its connection. A
socket takes any free number. `recv` fails on an error, on an end of file and
when it fills its buffer; in the last case `connect` is called on a connected
socket, fails, and the connection is made anew. A peer that vanished without a
word ("gone") is found out because something is sent ("doomed") and the kernel
gives up. `Die` closes everything but leaves `isConnected` up. Up to ten packets
per `recv` and how bytes are cut into them are left out: received data change
nothing here. A descriptor 0 before the first socket is standard input.

The history variable `shut` says that the descriptor the sending thread read had
been closed by its owner and not replaced yet, or was closed since: the only case
in which a message may go to another platform, and it can.

### `History`

The statistics page and `dataproc` share the segment `History`. The page's
handler is `Click`, `Fill` (one field at a time), `Clear`, `Raise`, and then
`Check`, `Wait`, `Waited` and `Show`; the terms are tested only after the flag is up,
and a refused or timed-out request is not withdrawn. The table is filled row by
row, and the test of `cnt`, the time of a row and its value are steps of their
own (`TestRow`, `ReadTime`, `ReadValue`): a `dataproc` that starts in between
zeroes the row, which is then shown without a value, as the last one. `dataproc` polls
(`TestFlag`), reads the fields one at a time (`Read`), selects (`Select`), writes the
rows (`WriteRow`) and raises the flag (`Done`), with `Store` between two
rounds. A process that starts zeroes the segment. Real-time data are in one
table a month; only the month of the start is looked at. `late` marks a click
that finds a former request open: about that the code does nothing, and the two
safety properties exclude it.

### `Gb212`

Where the requests of two platforms meet: `messageProc` copies data to store
into the one `RtdData`, and builds its message from there; tolerances go through
the parameter segment into its file. A record is copied in two halves, which is
enough to tell a whole one from a mixed one. The settings page saves the same
segment, tolerances included, whatever it was asked to store (`SaveSite`,
`SaveOther`, then `Copy1`, `Copy2`, `Write`): a save in the middle of
`CN_SetTolerances` puts a half-new record into the file, and so does any save
after a death of `up_main` in that place. `met` collects the requests that were
served together with another of their kind, whose tolerances such a save copied
half, or that `up_main` died over. `dataproc` reads one message of each open site a
round, ends on the null queue of a site that was opened after it started
(`NullQueue`), and starts again. The valve command is in `Valve`; the request
that sets the clock changes no state of these programs. Requests that are
refused change nothing.

### `Watchdog`

The main loop (`KillProgs`, `Start`, `Reap`, `OpenProc`, `CheckZombieProc`,
`Sleep`) and the alarm handler `Second`, which interrupts it anywhere, feeds the
hardware watchdog while fewer than 100 starts were made in all, and closes
descriptor 0 each time. Once standard input is closed, `opendir` gets number 0
and the handler closes the directory under the scan (`broken`): the scan then
finds any part of the zombies. `Reset` is the hardware's reset and the command
`reboot`, which is trusted.

### `ShmStore`

One segment and its file, by the code that all six go through: `NotFound`, `Make` or `Late`
(another was faster; the caller crashes on the null pointer), `Load` or
`Default`, `Attach`; a `Change` is always followed by a save (`Copy`, `Open`,
`Truncate` of a new file, `Write`). The content is a number that grows with each
change. `Flush` writes the file to the disk when the kernel likes, for nothing
calls `fsync`; a `PowerLoss` leaves what is on the disk. `stage` is `raw` when
somebody attached before the segment was filled. `alone` holds the savers whose save no
other overlapped, `kept` the newest content such a save wrote.

### MC modules

Values for TLC only. The mutants named in `PROJECT.json` are operators of the
modules ("Mutant of ..."), used by no action.

## 4. Runs

| Run | Instance | Shows |
|---|---|---|
| `valve` | 1 site and the operator, who opens and closes it, queue of 1, 2 attempts, command 100, sensor 0, fresh segment, deaths | `NoCommandForgotten`, `ReportingNotWedged`, `ServiceStepsKept` |
| `valve_live` | the same from 100 stored, nobody killed, the sites left alone in the end | `LastCommandDriven`, `StatusSettles`, `SendersComeBack`, `ServiceKept` |
| `valve_success_unsent` | 1 site | finding: `SuccessOnlyIfSent` is violated |
| `drive` | openings 0, 3, 5, 12, targets 7 and 20, movements of 2 to 4 and 9, 7 samples; fair | `Interlock`, `OutputsOffAtRest`, `NoOvershoot`, `StallIsReal`, `StuckNoticed`, `SetpointHeld`, `DriveEnds` |
| `drive_fault` | the same, 3 samples | finding: `FaultStopsDrive` is violated |
| `upreport_safety` | 2 sites, 5 slots, 3 changes of a site, openings 0 and fault, deaths | `AlwaysRoomForReport`, `ReportsInOrder`, `BufferBound`, `OneReportAtATime` |
| `upreport_live` | 2 sites, 3 slots, 1 change, no deaths, `dataproc` not fair | `CycleEnds`, `PlatformFollows` |
| `tcplink` | 2 sites, 3 descriptors, deaths | `SocketsOwned`, `FlagEarned`, `StraysOnlyIfShut`, `LinkComesBack` |
| `history` | 3 rows, 5 requests, 1 row per answer, two months, deaths | `TypeOK`, `OnlyAsked`, `NoneMissing`, `PageComesBack`, `AlwaysAnswered` |
| `watchdog` | 2 programs, 4 starts, small counts | `SingleInstance`, `DeadComesBack`, `CrashLoopResets`, `ZombiesReset` |
| `gb212` | 2 sites, one of them switched, queue of 1 and one message left in it, 2 attempts, 1 request each, deaths, the settings page | `TypeOK`, `MixedOnlyIfMet`, `SuccessKept`, `QueueRead` |
| `shm` | 3 processes, 2 changes, 2 deaths or power losses | `SaveHolds`, `NeverBack`, `EverybodyAttached` |

The ranges (`TypeOK`) of `Valve`, `UpReport`, `ValveDrive`, `TcpLink`, `Watchdog` and
`ShmStore` are in no run: they are proved.

### Bounds

* **Sites.** One site and the operator are two writers on two queues: every
  race of `Valve` is between `ValveControl` and at most two writers, and a site
  that is closed, or opened since a start, and then opened or closed again needs
  no second one. The theorems hold for any number. Two sites in the other
  modules: what one thread does to another takes two.
* **Queues.** One message instead of about eight (16 KiB of 2 KiB messages):
  a queue that is full after one message makes `GiveUp` reachable in a few
  steps; a longer queue only delays it. Two attempts instead of 30: an attempt
  that fails only waits.
* **Openings.** 0 and 100 are apart by more than every threshold (5); 255 is
  the fault value. A platform asks for 100 in these runs; a fresh segment and
  the `+` and `-` buttons, which step by 255, put `per` at 255, 0 and 100.
* **Slots and changes.** `BufferBound` is reached: with three changes (close, open,
  close) two messages are left behind, and four of the five slots are used.
* **Drives.** Openings and movements are chosen so that the valve can stop inside
  the tolerance of 3, jump over it in both directions, start on the wrong side,
  and creep by 2 or 3, the two sides of the stall test. A stall takes six still
  samples after the last progress, so seven let it happen after progress; 300
  samples would only repeat them.
* **Descriptors.** Three for two sites: a number that was closed can be taken by
  the other site while one is to spare, and `socket` fails on no path that a
  fourth would open.
* **History.** Times 0 and 1 of one month and 2 of the next: a request that fits,
  one over the turn of the month, one for a table that does not exist, one too
  long of the real-time rows and one of the days. The answer holds one row, so the limit is met; the page waits once.
* **Watchdog.** The limits 100, 2, 9, 20 and 10 become 4, 2, 2, 1 and 2; each is
  reached, and passing it twice shows nothing new.
* **Requests.** One per platform in `gb212` is enough for two to meet, to be
  mixed, to fill a queue (with the message a former `up_main` left in the first,
  `Former`) and to be lost. That a later request of the same platform undoes
  nothing is proved. The operator switches one of the two sites (`Switched`):
  `dataproc` and the save treat each site by itself.
* **Segments.** Three processes, because a third attaches between two that race.
  Changes and faults are bounded, so the run of `shm` may stop with all processes
  idle; this is the one run that does not check for deadlock.

### Fairness

Every thread is a loop whose waits are bounded (`sleep`, `IPC_NOWAIT`, the
retry counter), so weak fairness of its own steps is what the scheduler gives.
Nobody has to send a command, press a button, change the settings, keep a link
up or drain a queue. In `valve_live` nobody has to start `ValveControl`, the
first time or after a crash, so `SendersComeBack` holds with nobody reading the
queues; `upreport_live` leaves everybody but the sending thread without
fairness, `drive` the valve, `gb212` everybody but `dataproc`. The `CalmSpec` of
`Valve` and `UpReport` leaves out the deaths, not the crashes of `Valve` on a
site opened since: no "eventually" of the command path or of the reports would
hold with a death at the wrong place. It assumes that the operator in the end
leaves the sites alone (`<>[][~Settings]_vars`), for who toggles a switch just
before each test of it keeps a queue unread for ever. `LinkComesBack` and
`QueueRead` assume that deaths end, `QueueRead` also that the sites are left
alone; `EverybodyAttached` has a bounded number of deaths; `PageComesBack` and
`AlwaysAnswered` hold with any number. `TcpLink`
trusts the kernel to end its retransmissions, `Watchdog` trusts the reset and
the alarm's clock, and that a fork succeeds in the end is not assumed: enough
failures reset the device.

## 5. Proofs

All proofs hold for every value of the constants under the named assumptions of
the modules: any number of sites, slots, attempts, descriptors, programs,
processes, requests, any set of openings and movements, all 16-bit counts.

* `ValveProofs`. `NoCommandForgotten` is not inductive. A
  drive to an opening that is no longer wanted may end with `per = driven`
  before it and `per # driven` after. The strengthening `StaleDriveFollowed`
  says that whoever changed `per` since `Aim` has a wake-up coming. A step that
  leaves the watched variables alone keeps all three (`QuietStep`), a step that
  queues or loses a wake-up re-establishes them (`WokenStep`), and the steps of
  `ValveControl` are done one by one (`ControlKeeps`). `NoCommandForgotten`
  speaks of the queue of the writer that stored `per` last (`setter`): a message
  leaves it only when `ValveControl` serves it, whether its site is open or not. `ServiceImplemented` is
  the refinement: steps that touch no drive are `Command`, `Excuse` or a
  stutter of `ValveService` (`OutsideStep`); `Aim` is `Pick`, `Move` is
  `Deliver`, a death is `Die` (`ControlServes`, `DeathsServe`).
* `UpReportProofs`. The two properties
  are not inductive. `Rounds` adds where the loops stand: in a sending round
  the first slot is looked at first, with `ServerOpenflag` still down, so it
  leaves the round as waiting, whatever the settings page does; clearing frees
  it before the next decision; the lowest free slot is then the first.
  `BufferBound` is a counting argument (`Counted`). A round leaves messages unsent
  only from some slot on, and only if a site it had seen open was closed since; for
  the next round to leave more, a site must be opened again. So twice the unsent
  messages never exceed the changes made, less one while a site is open
  (`Settled`); inside a round `Debt` adds what the messages of this cycle still
  owe, and says which sites would pay for the slot in hand.
  `ReportsImplemented` is the refinement: `Decide` is `Report` because the first
  slot is free and lowest (`InsertServes`), freeing the status is `End`
  (`ClearServes`), a send to a site the message was not sent to is `Send`
  (`SendServes`), and all else is `Move`, `Adopt` or a stutter (`OthersServe`).
* `ValveDriveProofs`. `IInv` adds to the ranges
  `Ongoing` (which kind of drive stands where), `Outputs` and `Setting` (which
  coils are on after which of the three writes: the other coil is released
  first, so `Interlock` needs no knowledge of what was left on before),
  `ShortOfTarget` (while the loop goes on with good readings the opening is on
  the near side of the tolerance or of the start) and `Stalling` (the last
  `per_stop` readings lie within 2 of `per_current_last`, and at most five of
  them while the loop goes on). `SetpointsHeld` is arithmetic on two truncations,
  `OneBadConversion` says that `Mid` lies between any two of its arguments and that
  `AdValueToPer` is monotone between the fault thresholds.
* `TcpLinkProofs`. `Held` says of every socket a thread holds that it is fresh and on its way
  or was connected to the thread's own platform, `Standing` where a thread must
  have a descriptor, `Sent` that a descriptor nobody shut is still held by the
  site it was read for. With them each open socket has one holder: `socket`
  takes a number nobody holds, `close` gives up the only claim, and `recv`
  forgets a descriptor only when there is none.
* `Gb212Proofs`. `Meeting` says that two requests of one kind in service have
  met, in `met`; `Copying` says of each half of a record, at each step of the
  copy, that it is the request's own or that both it and the request have met
  others. A mixed record then has a half that has met; a record of a request
  that met nobody is whole, in the segment, in the thread and in the queue.
  `Saving` says the same of the tolerances whenever no thread is between their
  halves, and of the settings page's copy: its first half goes with the second
  half of the segment, or one of the two has met.
* `WatchdogProofs`. `Cleared`: what a predecessor left running is gone before
  anything is started. `Rebooting`: the counter stops once a reboot is wanted.
* `ShmStoreProofs`. `Filling`: one process fills the segment, and nobody is at
  work in one that is not filled unless it is raw. `Order`: a save that no other
  has overlapped is the only one under way, and what is being written is as new
  as the last such save and no newer than the segment.
* `HistoryProofs`. `IInv` follows one request through the page's fields, the fields
  `dataproc` has read, the rows selected and the rows written, as long as no former
  request was open (`late`). The row count cannot pass the limit because the newest
  rows are chosen one at a time up to it (`NewestFacts`, by a least natural number),
  and a row that is due is either among those chosen or older than all of them.

Variants. "Eventually" is beyond the prover, but it rests on two things: fairness,
and a count that goes down. The second is proved where one process does the work:
`HandlerCountsDown` (a writer leaves its handler within `Retries` + 2 of its steps,
for `SendersComeBack`), `CycleCountsDown` (the sending thread comes nearer to its
sleep with each step, for `CycleEnds`: the stage of the cycle, what the stage has
left to do, and the attempts or sites left for the slot in hand, compared in this
order), `DriveCountsDown` (a drive ends within `Samples` + 8 of its steps, for
`DriveEnds`), `AnswerComesNearer` (`dataproc` answers within `Limit` + 6 of its
steps, for `AlwaysAnswered`), `HomeComesNearer` (the page's handler returns within
3 * `Limit` + `Waits` + 10 of its steps, for `PageComesBack`). In each, no step of anybody
else takes the end further away. That such a step is possible, and so is taken,
stays with TLC.

Only model-checked: the properties with "eventually" (`SendersComeBack`,
`LastCommandDriven`, `StatusSettles`, `ServiceKept` with its fairness, `CycleEnds`,
`PlatformFollows`, `DriveEnds`, `LinkComesBack`, `PageComesBack`, `AlwaysAnswered`,
`DeadComesBack`, `CrashLoopResets`, `ZombiesReset`, `QueueRead`,
`EverybodyAttached`), because the prover knows neither `ENABLED` nor fairness.

## 6. Findings

* `SuccessOnlyIfSent`: a platform is told of a success when the wake-up could
  not be queued.
* `FaultStopsDrive`: the switch drive tests for a fault state that is never
  stored, and goes on with a coil energised through faulty readings.

Two more comments do not say what the code does, and have no run: a comment at
the report decision says that nothing is reported during a control operation,
where the code only compares `per` with `per_last`; and `per_alarm` is documented
as the opening last uploaded, and is stored before anything is sent.
`PlatformFollows` states when a platform is informed all the same.

Met while modelling, and promised by no line of the source: a message can go to
another site's platform if the link is remade between the test and the send
(`StraysOnlyIfShut` bounds it); two platforms' data can be mixed
(`MixedOnlyIfMet`); a history request that times out is answered later, into the
next one, and a row without a value is shown when `dataproc` restarts while the
table is filled (`OnlyAsked` allows that one row); a process that attaches too early may save zeros over the file
(`SaveHolds` excludes that stage); a `pppd` that was once found dead counts on
after it is gone; a site opened while the programs run ends `up_main`,
`ValveControl` and `dataproc` through a null pointer, and they are started
again. A site closed while they run keeps its connection and its commands are
accepted and answered with success, but not driven until it is opened again, and
until then, or until another command is served, nothing is reported to anybody,
because `per` and `per_last` differ
(`NoCommandForgotten` and `ReportingNotWedged` say so; `Excused` names the
case). A full queue never costs a command, because the older wake-ups in it
serve the newer opening. Saving any page of the settings while a platform sets
tolerances, or after `up_main` died over them, may put a half-new record into
the file (`MixedOnlyIfMet`).

## 7. Not modelled

Formatting, logging and the layout of messages; `parse_url`, the text scanner of
the platform protocol; the CRC, whose comparison is commented out; how a TCP
stream is cut into packets; the set-time request; SQL and the tables of days
to years (a record brings its own totals, and the last one replaces the row; the
models tell records apart only by where they came from); login and the settings pages other than the sites'; the
4G and VPN dialling and the watchdog's ping timer (polling loops around external
programs); the watchdog's own death, which nothing but the hardware sees; torn
writes of the longer parameter files; GPIO, SPI and serial drivers (I/O only);
the configuration tool (sequential, runs once); the calibration pages (the
values they store are read by no program). `Valve_and_pump_control` is never
called. `UpReport` takes a report for delivered on the link of its own site; the
stray deliveries that `TcpLink` shows are not in it.

Of about 46,550 lines under `src/`, some 33,600 are three vendored files
(`qcustomplot.cpp`, `qcustomplot.h`, `sqlite3.h`), and most of the rest lays out
widgets, formats messages, builds SQL or drives hardware. The models stand for the lines with
control between processes, threads and files, which are a small share of the
whole; there is no more state shared between two actors than the plan names.

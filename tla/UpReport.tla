------------------------------ MODULE UpReport ------------------------------
(***************************************************************************)
(* The sending thread of up_main.  Once a minute it clears the message      *)
(* buffer (handing valve states to dataproc for the event table), decides   *)
(* whether the opening must be reported, inserts a heartbeat, and sends     *)
(* what is in the buffer to every site that is open.                        *)
(*                                                                          *)
(* Only this thread touches the buffer.  What moves under it: the settings  *)
(* page changes ServerOpen at any time, the receiving threads change        *)
(* isConnected, ValveControl changes the opening, dataproc drains or does   *)
(* not drain its queue, and up_main may die with its buffer, which is plain *)
(* heap memory, while per_alarm survives in the segment.                    *)
(*                                                                          *)
(* Every live call of Insert_Message_Data passes flag 0 (no answer wanted): *)
(* such a message is sent once and cleared in the next cycle, so the resend *)
(* branch of message_buf_clear_func (lines 84-103) never runs and SendTimes *)
(* is the set of sites the message went to.                                 *)
(***************************************************************************)
EXTENDS Naturals, FiniteSets

CONSTANTS
  NSites,    \* SITE_CNT
  Slots,     \* MESSAGECNT
  LogCap,    \* messages the queue to dataproc holds
  Retries,   \* MSG_RTYCNT: attempts of MsgSend on a full queue
  Openings,  \* openings to report: a percentage, or 255 for "E01"
  MaxChanges \* bound on the changes of the site settings

ASSUME UpReportAssumption ==
  /\ NSites \in Nat \ {0}
  /\ Slots \in Nat \ {0}
  /\ LogCap \in Nat
  /\ Retries \in Nat \ {0}
  /\ Openings \subseteq 0..255 /\ Openings # {}
  /\ MaxChanges \in Nat

Sites   == 1..NSites
Places  == 1..Slots
Beat    == 256                   \* the content of a heartbeat
Content == Openings \cup {Beat}  \* a status carries the opening it reports
Free    == [IsUse |-> "null"]
Message == [IsUse : {"sending", "waiting"}, content : Content,
            SendTimes : SUBSET Sites]

VARIABLES
  buf,             \* pgmsgbuff->Data
  spc,             \* where the thread is; "wait" is wait_for_serveropen_set
  iLoop, jLoop,    \* the slot and the site it works on
  ServerOpenflag,  \* a site was seen open in this sending round
  tries,           \* attempts MsgSend has made
  logq,            \* messages waiting in the queue to dataproc
  ServerOpen,      \* the sites the settings page has open
  started,         \* the sites whose receiving thread was started
  link,            \* "up"; "stale": isConnected is set but nobody listens; "down"
  state_per,       \* the opening to report now
  quiet,           \* per = per_last and per <= 100
  per_alarm,       \* stValveControl.per_alarm
  known,           \* history: the opening each platform was last told
  changes          \* sites opened or closed so far, up to MaxChanges

own  == <<buf, spc, iLoop, jLoop, ServerOpenflag, tries, started>>
env  == <<ServerOpen, link, state_per, quiet, changes>>
vars == <<own, env, logq, per_alarm, known>>

AbsDiff(a, b) == IF a > b THEN a - b ELSE b - a
In(use)      == {k \in Places : buf[k].IsUse = use}
Lowest(k, S) == k \in S /\ \A l \in S : k <= l   \* loops find this one first

Init ==
  /\ buf = [k \in Places |-> Free]
  /\ spc = "wait"
  /\ iLoop = 1 /\ jLoop = 1
  /\ ServerOpenflag = FALSE
  /\ tries = 0
  /\ logq = 0
  /\ ServerOpen \in [Sites -> BOOLEAN]
  /\ started = [s \in Sites |-> FALSE]
  /\ link = [s \in Sites |-> "down"]
  /\ state_per \in Openings
  /\ quiet \in BOOLEAN
  /\ per_alarm \in Openings
  /\ known = [s \in Sites |-> per_alarm]
  /\ changes = 0

-----------------------------------------------------------------------------
(* main waits for an open site, starts one receiving thread for every site  *)
(* open at that moment, and then the sending thread, which sleeps first.    *)
Start ==
  /\ spc = "wait"
  /\ \E s \in Sites : ServerOpen[s]
  /\ started' = ServerOpen
  /\ spc' = "sleep"
  /\ UNCHANGED <<buf, iLoop, jLoop, ServerOpenflag, tries, env, logq,
                 per_alarm, known>>

Wake ==
  /\ spc = "sleep"
  /\ spc' = "clear"
  /\ UNCHANGED <<buf, iLoop, jLoop, ServerOpenflag, tries, started, env, logq,
                 per_alarm, known>>

(* message_buf_clear_func: slots in order; a heartbeat (issql = 1) is freed *)
(* at once, a status goes to dataproc first.                                *)
ClearBeat ==
  /\ spc = "clear"
  /\ \E k \in Places :
       /\ Lowest(k, In("waiting"))
       /\ buf[k].content = Beat
       /\ buf' = [buf EXCEPT ![k] = Free]
  /\ UNCHANGED <<spc, iLoop, jLoop, ServerOpenflag, tries, started, env, logq,
                 per_alarm, known>>

ClearStatus ==
  /\ spc = "clear"
  /\ \E k \in Places :
       /\ Lowest(k, In("waiting"))
       /\ buf[k].content # Beat
       /\ iLoop' = k
  /\ spc' = "log"
  /\ UNCHANGED <<buf, jLoop, ServerOpenflag, tries, started, env, logq,
                 per_alarm, known>>

(* MsgSend to dataproc; the slot is freed whatever comes of it.             *)
Log ==
  /\ spc = "log" /\ logq < LogCap
  /\ logq' = logq + 1
  /\ tries' = 0
  /\ buf' = [buf EXCEPT ![iLoop] = Free]
  /\ spc' = "clear"
  /\ UNCHANGED <<iLoop, jLoop, ServerOpenflag, started, env, per_alarm, known>>

(* Mutant of RetryLog: the attempts are not counted.                        *)
RetryLogUncounted == spc = "log" /\ logq = LogCap /\ UNCHANGED vars

RetryLog ==
  /\ spc = "log" /\ logq = LogCap /\ tries + 1 < Retries
  /\ tries' = tries + 1
  /\ UNCHANGED <<buf, spc, iLoop, jLoop, ServerOpenflag, started, env, logq,
                 per_alarm, known>>

GiveUpLog ==
  /\ spc = "log" /\ logq = LogCap /\ tries + 1 = Retries
  /\ tries' = 0
  /\ buf' = [buf EXCEPT ![iLoop] = Free]
  /\ spc' = "clear"
  /\ UNCHANGED <<iLoop, jLoop, ServerOpenflag, started, env, logq, per_alarm,
                 known>>

Cleared ==
  /\ spc = "clear" /\ In("waiting") = {}
  /\ spc' = "decide"
  /\ UNCHANGED <<buf, iLoop, jLoop, ServerOpenflag, tries, started, env, logq,
                 per_alarm, known>>

(* Insert_Message_Data: the first free slot, or TINZ_BUSY, which no caller  *)
(* looks at.                                                                *)
Insert(c) ==
  IF In("null") = {}
    THEN UNCHANGED buf
    ELSE \E k \in Places :
           /\ Lowest(k, In("null"))
           /\ buf' = [buf EXCEPT ![k] = [IsUse |-> "sending", content |-> c,
                                        SendTimes |-> {}]]

MustReport == quiet /\ AbsDiff(per_alarm, state_per) > 5

(* Mutant of Decide: per_alarm follows the opening, reported or not.        *)
DecideStoresAlways ==
  /\ spc = "decide"
  /\ IF MustReport THEN Insert(state_per) ELSE UNCHANGED buf
  /\ per_alarm' = state_per
  /\ spc' = "beat"
  /\ UNCHANGED <<iLoop, jLoop, ServerOpenflag, tries, started, env, logq, known>>

Decide ==
  /\ spc = "decide"
  /\ IF MustReport
       THEN Insert(state_per) /\ per_alarm' = state_per
       ELSE UNCHANGED <<buf, per_alarm>>
  /\ spc' = "beat"
  /\ UNCHANGED <<iLoop, jLoop, ServerOpenflag, tries, started, env, logq, known>>

InsertBeat ==
  /\ spc = "beat"
  /\ Insert(Beat)
  /\ spc' = "next"
  /\ iLoop' = 0
  /\ ServerOpenflag' = FALSE
  /\ UNCHANGED <<jLoop, tries, started, env, logq, per_alarm, known>>

(* send_message_to_server_func: slots in order, sites in order.             *)
Later == {k \in In("sending") : k > iLoop}

NextSlot ==
  /\ spc = "next"
  /\ \/ Later = {} /\ spc' = "sleep" /\ UNCHANGED <<iLoop, jLoop>>
     \/ \E k \in Places :
          Lowest(k, Later) /\ iLoop' = k /\ jLoop' = 1 /\ spc' = "send"
  /\ UNCHANGED <<buf, ServerOpenflag, tries, started, env, logq, per_alarm,
                 known>>

(* Mutant of SiteDone: a message no site was open for keeps waiting to be   *)
(* sent.                                                                    *)
SiteDoneKeeps(b, opened) ==
  /\ IF jLoop < NSites THEN jLoop' = jLoop + 1 /\ UNCHANGED spc
                       ELSE spc' = "next" /\ UNCHANGED jLoop
  /\ buf' = b

(* After the last site the slot is done; with no open site seen so far it   *)
(* is moved on by hand, so that the next clearing takes it.                 *)
SiteDone(b, opened) ==
  IF jLoop < NSites
    THEN jLoop' = jLoop + 1 /\ buf' = b /\ UNCHANGED spc
    ELSE /\ spc' = "next"
         /\ buf' = IF opened THEN b ELSE [b EXCEPT ![iLoop].IsUse = "waiting"]
         /\ UNCHANGED jLoop

SkipSite ==
  /\ spc = "send"
  /\ ~ServerOpen[jLoop]
  /\ SiteDone(buf, ServerOpenflag)
  /\ UNCHANGED <<iLoop, ServerOpenflag, tries, started, env, logq, per_alarm,
                 known>>

(* A message goes to a site once (flag 0), and counts as sent whether or    *)
(* not it reached anybody: packet_send_handle returns nothing.              *)
(* Mutant of SendTo: a message that reached nobody stays to be sent again.  *)
SendToChecked ==
  /\ spc = "send"
  /\ ServerOpen[jLoop] /\ started[jLoop]
  /\ jLoop \notin buf[iLoop].SendTimes
  /\ ServerOpenflag' = TRUE
  /\ SiteDone(IF link[jLoop] = "up"
                THEN [buf EXCEPT ![iLoop].IsUse = "waiting",
                                 ![iLoop].SendTimes = @ \cup {jLoop}]
                ELSE buf, TRUE)
  /\ UNCHANGED <<iLoop, tries, started, env, logq, per_alarm, known>>

SendTo ==
  /\ spc = "send"
  /\ ServerOpen[jLoop] /\ started[jLoop]
  /\ jLoop \notin buf[iLoop].SendTimes
  /\ ServerOpenflag' = TRUE
  /\ SiteDone([buf EXCEPT ![iLoop].IsUse = "waiting",
                          ![iLoop].SendTimes = @ \cup {jLoop}], TRUE)
  /\ known' = IF link[jLoop] = "up" /\ buf[iLoop].content # Beat
                THEN [known EXCEPT ![jLoop] = buf[iLoop].content] ELSE known
  /\ UNCHANGED <<iLoop, tries, started, env, logq, per_alarm>>

-----------------------------------------------------------------------------
(* up_main dies: its heap is gone, isConnected keeps its value in the       *)
(* segment, and the watchdog starts it again.                               *)
Restart ==
  /\ buf' = [k \in Places |-> Free]
  /\ spc' = "wait"
  /\ iLoop' = 1 /\ jLoop' = 1 /\ ServerOpenflag' = FALSE /\ tries' = 0
  /\ started' = [s \in Sites |-> FALSE]
  /\ link' = [s \in Sites |-> IF link[s] = "up" THEN "stale" ELSE link[s]]
  /\ UNCHANGED <<ServerOpen, state_per, quiet, changes, logq, per_alarm, known>>

(* A site opened while up_main runs has no thread, and no                   *)
(* packet_send_handle: the sending thread calls a null pointer.             *)
NullCall ==
  /\ spc = "send"
  /\ ServerOpen[jLoop] /\ ~started[jLoop]
  /\ Restart

Die == spc # "wait" /\ Restart

-----------------------------------------------------------------------------
(* The others.  on_btn_SaveSite_clicked stores ServerOpen site by site, so   *)
(* that the sending thread may see some of a save and not the rest.         *)
SaveSite(s) ==
  /\ changes < MaxChanges
  /\ changes' = changes + 1
  /\ ServerOpen' = [ServerOpen EXCEPT ![s] = ~@]
  /\ UNCHANGED <<own, link, state_per, quiet, logq, per_alarm, known>>

(* A receiving thread takes the link of its site through any of the three   *)
(* states (TcpLink): a full buffer is taken for a failure, and a connection *)
(* may be lost before its flag is raised.                                   *)
SetLink(s, l) ==
  /\ started[s] /\ link[s] # l
  /\ link' = [link EXCEPT ![s] = l]
  /\ UNCHANGED <<own, ServerOpen, state_per, quiet, changes, logq, per_alarm,
                 known>>

Connect(s)   == SetLink(s, "up")
LinkFails(s) == SetLink(s, "stale")
Noticed(s)   == SetLink(s, "down")

(* The opening moves; a control operation begins or ends.                   *)
Drift(v, q) ==
  /\ <<v, q>> # <<state_per, quiet>>
  /\ state_per' = v /\ quiet' = q
  /\ UNCHANGED <<own, ServerOpen, link, changes, logq, per_alarm, known>>

(* ValveControl restarts and replaces a per_alarm above 100 by a            *)
(* measurement, without a report.                                           *)
ControlBoots(v) ==
  /\ per_alarm > 100
  /\ per_alarm' = v
  /\ UNCHANGED <<own, env, logq, known>>

DataprocReads ==
  /\ logq > 0
  /\ logq' = logq - 1
  /\ UNCHANGED <<own, env, per_alarm, known>>

-----------------------------------------------------------------------------
Thread == \/ Start \/ Wake \/ ClearBeat \/ ClearStatus \/ Log \/ RetryLog
          \/ GiveUpLog \/ Cleared \/ Decide \/ InsertBeat \/ NextSlot
          \/ SkipSite \/ SendTo \/ NullCall
Surroundings ==
  \/ \E s \in Sites : SaveSite(s)
  \/ \E s \in Sites : Connect(s) \/ LinkFails(s) \/ Noticed(s)
  \/ \E v \in Openings, q \in BOOLEAN : Drift(v, q)
  \/ DataprocReads

Next == Thread \/ Surroundings \/ Die \/ \E v \in Openings : ControlBoots(v)
Spec == Init /\ [][Next]_vars

(* No process dies or is restarted by hand, and the sending thread keeps    *)
(* running.  Nobody else has to, dataproc included.                         *)
CalmSpec == Init /\ [][Thread \/ Surroundings]_vars /\ WF_vars(Thread)

-----------------------------------------------------------------------------
(* The values and program points every variable ranges over.                *)
TypeOK ==
  /\ buf \in [Places -> Message \cup {Free}]
  /\ spc \in {"wait", "sleep", "clear", "log", "decide", "beat", "next", "send"}
  /\ iLoop \in 0..Slots
  /\ jLoop \in Sites
  /\ ServerOpenflag \in BOOLEAN
  /\ tries \in 0..(Retries - 1)
  /\ logq \in 0..LogCap
  /\ ServerOpen \in [Sites -> BOOLEAN]
  /\ started \in [Sites -> BOOLEAN]
  /\ link \in [Sites -> {"up", "stale", "down"}]
  /\ state_per \in Openings /\ quiet \in BOOLEAN
  /\ per_alarm \in Openings
  /\ known \in [Sites -> Openings]
  /\ changes \in 0..MaxChanges

IsStatus(k) == buf[k] # Free /\ buf[k].content # Beat

(* A report always finds room (tcp_client 164-171): the thread stores       *)
(* per_alarm without looking at what Insert_Message_Data returned, and that *)
(* is harmless only because the first slot is free whenever it decides,     *)
(* however the settings page opens and closes sites while it sends.         *)
AlwaysRoomForReport == spc = "decide" => buf[1] = Free

(* Reports leave in the order they were decided (tcp_client 120-155): slots *)
(* are reused lowest first, yet at most one status is in the buffer, in the *)
(* first slot, and none is left unsent by the cycle that inserted it.       *)
ReportsInOrder ==
  /\ \A k \in Places : IsStatus(k) => k = 1
  /\ spc \in {"sleep", "clear", "log", "decide"} => buf[1].IsUse # "sending"

(* The buffer fills only through the settings page (tcp_client 124, 149):   *)
(* ServerOpenflag is not reset between slots, so a round in which the last  *)
(* open site is closed leaves messages unsent.  A close and an open leave   *)
(* at most one more behind.                                                 *)
BufferBound == Cardinality(Places \ In("null")) <= 2 + (changes + 1) \div 2

(* A cycle ends (tcp_client 69-155, tinz_pub_message 62-69) although        *)
(* dataproc may be dead and its queue full, every link down, and sites come *)
(* and go.                                                                  *)
CycleEnds == spc = "clear" ~> spc \in {"sleep", "wait"}

(* A platform whose link is up whenever the thread sends ends up knowing    *)
(* the opening to within 5 of what it settles on (tcp_client 164-171), as   *)
(* long as nobody opens a site that has no thread: the null call that       *)
(* follows loses the report to every platform, and per_alarm says it was    *)
(* made.                                                                    *)
PlatformFollows ==
  \A s \in Sites, v \in Openings :
    /\ [](ServerOpen[s] /\ (spc = "send" => link[s] = "up"))
    /\ []\A t \in Sites : spc # "wait" /\ ServerOpen[t] => started[t]
    /\ <>[](quiet /\ state_per = v)
    => <>[](AbsDiff(known[s], v) <= 5)

(* The sending thread implements ReportService (tcp_client 69-171): the      *)
(* report under way is the status in the first slot, until it is cleared.    *)
NoReport == 256
Service == INSTANCE ReportService WITH
  Platforms <- Sites, Values <- Openings, None <- NoReport,
  report <- IF IsStatus(1) THEN buf[1].content ELSE NoReport,
  sent   <- IF IsStatus(1) THEN buf[1].SendTimes ELSE {}

OneReportAtATime == Service!Spec
=============================================================================

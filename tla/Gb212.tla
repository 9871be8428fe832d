------------------------------- MODULE Gb212 -------------------------------
(***************************************************************************)
(* messageProc: each open site's receiving thread serves the requests of    *)
(* its platform.  Data to store (CN_RecvRtdData) are copied into the one    *)
(* RtdData of the shared segment, and from there, not from the request,     *)
(* into the message for dataproc; the tolerances (CN_SetTolerances) are     *)
(* copied into the parameter segment, and the whole segment into the file.  *)
(* The threads share both without a lock, and so does the settings page,    *)
(* which saves the segment too.  A record is copied in two halves here,     *)
(* which is enough to tell a whole one from a mixed one.                    *)
(*                                                                          *)
(* dataproc reads one message from the queue of every site that is open,    *)
(* stores it, and goes round; a site opened while it runs has no queue for  *)
(* it, and reading that ends the process.  The valve command is in Valve.   *)
(***************************************************************************)
EXTENDS Naturals, Sequences

CONSTANTS
  NSites,      \* SITE_CNT
  Cap,         \* messages a queue to dataproc holds
  Retries,     \* MSG_RTYCNT
  Former,      \* messages a former up_main left in each queue
  Switched,    \* the sites the operator opens and closes
  MaxRequests  \* bound on the requests of each platform

Sites == 1..NSites

ASSUME Gb212Assumption ==
  /\ NSites \in Nat \ {0} /\ Cap \in Nat \ {0} /\ Retries \in Nat \ {0}
  /\ Former \in [Sites -> 0..Cap] /\ Switched \subseteq Sites
  /\ MaxRequests \in Nat

Ids   == Sites \X (1..MaxRequests)
None  == <<0, 0>>
Empty == <<None, None>>           \* a record by what its halves came from
Whole(id) == <<id, id>>
Records   == (Ids \cup {None}) \X (Ids \cup {None})

Store   == "RecvRtdData"
Setting == "SetTolerances"

VARIABLES
  ServerOpen,             \* the open sites
  got,                    \* requests of each site so far
  pc, cn, tries,          \* each receiving thread
  RtdData, Tolerances,    \* the two shared records
  out,                    \* what a thread copied out of them
  page, pageOut,          \* the settings page: step, its copy of Tolerances
  file,                   \* the tolerances in the parameter file
  queue,                  \* to dataproc, one for each site
  dpc, at, known, msg,    \* dataproc: step, site, sites with a queue, message
  stored,                 \* what reached the database
  success, dropped,       \* history: answered with success; given up, or
                          \* lost with dataproc
  met                     \* history: not served alone, see MixedOnlyIfMet

segment == <<RtdData, Tolerances>>
thread  == <<got, pc, cn, tries, out>>
setting == <<ServerOpen, page, pageOut>>
daemon  == <<dpc, at, known, msg, stored>>
history == <<success, dropped, met>>
vars    == <<thread, setting, segment, file, queue, daemon, history>>

Init ==
  /\ ServerOpen \in [Sites -> BOOLEAN]
  /\ got = [s \in Sites |-> 0] /\ pc = [s \in Sites |-> "idle"]
  /\ cn = [s \in Sites |-> "none"] /\ tries = [s \in Sites |-> 0]
  /\ RtdData = Empty /\ Tolerances = Empty /\ file = Empty
  /\ out = [s \in Sites |-> Empty]
  /\ page = "idle" /\ pageOut = Empty
  /\ queue = [s \in Sites |-> [i \in 1..Former[s] |-> Empty]]
  /\ dpc = "start" /\ at = 1 /\ known = {} /\ msg = Empty
  /\ stored = {Empty}                         \* rows from before, as one
  /\ success = {} /\ dropped = {} /\ met = {}

Id(s) == <<s, got[s]>>
Shared(c) == IF c = Store THEN RtdData ELSE Tolerances
Put(c, r) == IF c = Store THEN RtdData' = r /\ UNCHANGED Tolerances
                          ELSE Tolerances' = r /\ UNCHANGED RtdData
To(s, there) == pc' = [pc EXCEPT ![s] = there]

-----------------------------------------------------------------------------
(* A request comes in and is not refused: the operator's Mode, which may be *)
(* either, refuses CN_SetTolerances, and a refused request changes nothing. *)
Accept(s, c) ==
  /\ pc[s] = "idle" /\ got[s] < MaxRequests
  /\ got' = [got EXCEPT ![s] = @ + 1]
  /\ To(s, "put1") /\ cn' = [cn EXCEPT ![s] = c]
  /\ LET others == {t \in Sites \ {s} : pc[t] # "idle" /\ cn[t] = c}
     IN met' = met \cup {Id(t) : t \in others}
                   \cup {<<s, got[s] + 1>> : t \in others}
  /\ UNCHANGED <<setting, tries, out, segment, file, queue, daemon, success,
                 dropped>>

Put1(s) ==
  /\ pc[s] = "put1" /\ To(s, "put2")
  /\ Put(cn[s], <<Id(s), Shared(cn[s])[2]>>)
  /\ UNCHANGED <<setting, got, cn, tries, out, file, queue, daemon, history>>

(* Mutant of Put2: half of the record is not copied.                        *)
Put2Skipped(s) ==
  /\ pc[s] = "put2" /\ To(s, "take")
  /\ UNCHANGED <<setting, got, cn, tries, out, segment, file, queue, daemon,
                 history>>

Put2(s) ==
  /\ pc[s] = "put2" /\ To(s, "take")
  /\ Put(cn[s], <<Shared(cn[s])[1], Id(s)>>)
  /\ met' = IF cn[s] = Setting /\ page = "copy2" THEN met \cup {Id(s)} ELSE met
  /\ UNCHANGED <<setting, got, cn, tries, out, file, queue, daemon, success,
                 dropped>>

(* memcpy into the message, or into the copy that is saved; either is freed *)
(* when it has served.                                                      *)
Take(s) ==
  /\ pc[s] = "take" /\ To(s, IF cn[s] = Store THEN "send" ELSE "save")
  /\ out' = [out EXCEPT ![s] = Shared(cn[s])]
  /\ UNCHANGED <<setting, got, cn, tries, segment, file, queue, daemon,
                 history>>

Save(s) ==
  /\ pc[s] = "save" /\ To(s, "answer")
  /\ file' = out[s] /\ out' = [out EXCEPT ![s] = Empty]
  /\ UNCHANGED <<setting, got, cn, tries, segment, queue, daemon, history>>

(* MsgSend.                                                                 *)
SendEnds(s) ==
  /\ tries' = [tries EXCEPT ![s] = 0] /\ To(s, "answer")
  /\ out' = [out EXCEPT ![s] = Empty]

Enqueue(s) ==
  /\ pc[s] = "send" /\ Len(queue[s]) < Cap
  /\ queue' = [queue EXCEPT ![s] = Append(@, out[s])]
  /\ SendEnds(s)
  /\ UNCHANGED <<setting, got, cn, segment, file, daemon, history>>

(* Mutant of RetrySend: one attempt too many.                               *)
RetryOneMore(s) ==
  /\ pc[s] = "send" /\ Len(queue[s]) = Cap /\ tries[s] + 1 <= Retries
  /\ tries' = [tries EXCEPT ![s] = @ + 1]
  /\ UNCHANGED <<setting, got, pc, cn, out, segment, file, queue, daemon,
                 history>>

RetrySend(s) ==
  /\ pc[s] = "send" /\ Len(queue[s]) = Cap /\ tries[s] + 1 < Retries
  /\ tries' = [tries EXCEPT ![s] = @ + 1]
  /\ UNCHANGED <<setting, got, pc, cn, out, segment, file, queue, daemon,
                 history>>

GiveUp(s) ==
  /\ pc[s] = "send" /\ Len(queue[s]) = Cap /\ tries[s] + 1 = Retries
  /\ SendEnds(s)
  /\ dropped' = dropped \cup {Id(s)}
  /\ UNCHANGED <<setting, got, cn, segment, file, queue, daemon, success, met>>

(* ExecuteRespond(RESULT_SUCCESS), whatever happened.                       *)
Answer(s) ==
  /\ pc[s] = "answer"
  /\ To(s, "idle") /\ cn' = [cn EXCEPT ![s] = "none"]
  /\ success' = IF cn[s] = Store THEN success \cup {Id(s)} ELSE success
  /\ UNCHANGED <<setting, got, tries, out, segment, file, queue, daemon,
                 dropped, met>>

Handler(s) == \/ Put1(s) \/ Put2(s) \/ Take(s) \/ Save(s)
              \/ Enqueue(s) \/ RetrySend(s) \/ GiveUp(s) \/ Answer(s)

(* Requests that have put in half of their tolerances.                      *)
HalfPut == {Id(s) : s \in {t \in Sites : pc[t] = "put2" /\ cn[t] = Setting}}

UpMainDies ==
  /\ \E s \in Sites : pc[s] # "idle"
  /\ pc' = [s \in Sites |-> "idle"] /\ cn' = [s \in Sites |-> "none"]
  /\ tries' = [s \in Sites |-> 0] /\ out' = [s \in Sites |-> Empty]
  /\ met' = met \cup HalfPut
  /\ UNCHANGED <<setting, got, segment, file, queue, daemon, success, dropped>>

-----------------------------------------------------------------------------
(* dataproc.                                                                *)
(* Mutant of Start: the queues are made anew.                               *)
StartAfresh ==
  /\ dpc = "start"
  /\ known' = {s \in Sites : ServerOpen[s]}
  /\ queue' = [s \in Sites |-> <<>>]
  /\ dpc' = "read" /\ at' = 1
  /\ UNCHANGED <<setting, thread, segment, file, msg, stored, history>>

Start ==
  /\ dpc = "start"
  /\ known' = {s \in Sites : ServerOpen[s]}
  /\ dpc' = "read" /\ at' = 1
  /\ UNCHANGED <<setting, thread, segment, file, queue, msg, stored, history>>

NextSite == at' = IF at = NSites THEN 1 ELSE at + 1

(* Mutant of Skip: an empty queue is waited for, as if it were read blocking.*)
SkipClosed ==
  /\ dpc = "read" /\ ~ServerOpen[at]
  /\ NextSite
  /\ UNCHANGED <<setting, thread, segment, file, queue, dpc, known, msg,
                 stored, history>>

Skip ==
  /\ dpc = "read"
  /\ ~ServerOpen[at] \/ (at \in known /\ queue[at] = <<>>)
  /\ NextSite
  /\ UNCHANGED <<setting, thread, segment, file, queue, dpc, known, msg,
                 stored, history>>

Receive ==
  /\ dpc = "read" /\ ServerOpen[at] /\ at \in known /\ queue[at] # <<>>
  /\ msg' = Head(queue[at]) /\ queue' = [queue EXCEPT ![at] = Tail(@)]
  /\ dpc' = "store"
  /\ UNCHANGED <<setting, thread, segment, file, at, known, stored, history>>

Insert ==
  /\ dpc = "store"
  /\ stored' = stored \cup {msg} /\ msg' = Empty
  /\ NextSite /\ dpc' = "read"
  /\ UNCHANGED <<setting, thread, segment, file, queue, known, history>>

(* A null queue: the process ends, and the watchdog starts it again.        *)
NullQueue ==
  /\ dpc = "read" /\ ServerOpen[at] /\ at \notin known
  /\ dpc' = "start"
  /\ UNCHANGED <<setting, thread, segment, file, queue, at, known, msg, stored,
                 history>>

DataprocDies ==
  /\ dpc # "start"
  /\ dpc' = "start" /\ msg' = Empty
  /\ dropped' = dropped \cup (Ids \cap {msg[1], msg[2]})
  /\ UNCHANGED <<setting, thread, segment, file, queue, at, known, stored,
                 success, met>>

Dataproc == Start \/ Skip \/ Receive \/ Insert \/ NullQueue

-----------------------------------------------------------------------------
(* The settings page: the switches, and whatever else it holds, and then    *)
(* syncParaShm, which copies the whole segment and writes it.               *)
SaveSite(s) ==
  /\ page \in {"idle", "copy1"}
  /\ ServerOpen' = [ServerOpen EXCEPT ![s] = ~@]
  /\ page' = "copy1"
  /\ UNCHANGED <<thread, pageOut, segment, file, queue, daemon, history>>

SaveOther ==
  /\ page = "idle" /\ page' = "copy1"
  /\ UNCHANGED <<ServerOpen, thread, pageOut, segment, file, queue, daemon,
                 history>>

Copy1 ==
  /\ page = "copy1" /\ page' = "copy2"
  /\ pageOut' = <<Tolerances[1], None>>
  /\ met' = met \cup HalfPut
  /\ UNCHANGED <<ServerOpen, thread, segment, file, queue, daemon, success,
                 dropped>>

Copy2 ==
  /\ page = "copy2" /\ page' = "write"
  /\ pageOut' = <<pageOut[1], Tolerances[2]>>
  /\ UNCHANGED <<ServerOpen, thread, segment, file, queue, daemon, history>>

Write ==
  /\ page = "write" /\ page' = "idle"
  /\ file' = pageOut /\ pageOut' = Empty
  /\ UNCHANGED <<ServerOpen, thread, segment, queue, daemon, history>>

InterfaceDies ==
  /\ page # "idle"
  /\ page' = "idle" /\ pageOut' = Empty
  /\ UNCHANGED <<ServerOpen, thread, segment, file, queue, daemon, history>>

Settings == (\E s \in Switched : SaveSite(s)) \/ SaveOther \/ Copy1 \/ Copy2
            \/ Write \/ InterfaceDies

Next ==
  \/ \E s \in Sites, c \in {Store, Setting} : Accept(s, c)
  \/ (\E s \in Sites : Handler(s)) \/ UpMainDies
  \/ Dataproc \/ DataprocDies
  \/ Settings

Spec == Init /\ [][Next]_vars

(* dataproc runs.                                                           *)
FairSpec == Spec /\ WF_vars(Dataproc)

-----------------------------------------------------------------------------
TypeOK ==
  /\ ServerOpen \in [Sites -> BOOLEAN]
  /\ got \in [Sites -> 0..MaxRequests]
  /\ pc \in [Sites -> {"idle", "put1", "put2", "take", "save", "send",
                       "answer"}]
  /\ cn \in [Sites -> {"none", Store, Setting}]
  /\ tries \in [Sites -> 0..(Retries - 1)]
  /\ RtdData \in Records /\ Tolerances \in Records /\ file \in Records
  /\ out \in [Sites -> Records]
  /\ page \in {"idle", "copy1", "copy2", "write"} /\ pageOut \in Records
  /\ queue \in [Sites -> Seq(Records)] /\ \A s \in Sites : Len(queue[s]) <= Cap
  /\ dpc \in {"start", "read", "store"}
  /\ at \in Sites /\ known \subseteq Sites
  /\ msg \in Records /\ stored \subseteq Records
  /\ success \subseteq Ids /\ dropped \subseteq Ids /\ met \subseteq Ids

Waiting == UNION {{queue[s][i] : i \in 1..Len(queue[s])} : s \in Sites}
Under   == stored \cup Waiting \cup {msg}

(* Only requests that met something are mixed or taken for one another      *)
(* (protocl_gb212.c 949-950, 997-1001): a record that reached dataproc or   *)
(* the file is whole and its own platform's otherwise.  A request meets     *)
(* another of its kind that is served at the same time; tolerances also     *)
(* meet a save of the settings page that copies one half before they are    *)
(* put in and the other after (frmconfig.cpp 462), and the death of up_main *)
(* that leaves half of them in the segment.                                 *)
MixedOnlyIfMet ==
  /\ \A r \in Under \cup {file} : r[1] # r[2] => {r[1], r[2]} \cap met # {}
  /\ \A s \in Sites : \A i \in 1..Len(queue[s]) :
       queue[s][i][1] \in met \/ queue[s][i][1][1] \in {0, s}

(* Data a platform was told are stored are stored or on their way           *)
(* (protocl_gb212.c 950, dataproc.c 315-322), if they met no others, were   *)
(* not given up on a full queue, and dataproc did not die with them in      *)
(* hand: a closed site's messages stay in their queue, and the end of       *)
(* dataproc on a site newly opened loses none.                              *)
SuccessKept == \A id \in success \ (met \cup dropped) : Whole(id) \in Under

(* And they arrive: a site that stays open gets its queue read, once        *)
(* dataproc dies no more and no site is opened or closed any more,          *)
(* whatever up_main does (dataproc.c 315-327).                              *)
Disturbed == DataprocDies \/ \E s \in Switched : SaveSite(s)
QueueRead ==
  <>[][~Disturbed]_vars =>
    \A s \in Sites : <>[]ServerOpen[s] => []<>(queue[s] = <<>>)

=============================================================================

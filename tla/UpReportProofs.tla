--------------------------- MODULE UpReportProofs ---------------------------
(* Theorems about UpReport, for every number of sites, slots and retries    *)
(* and any openings: the buffer's discipline does not depend on them.       *)
EXTENDS UpReport, FiniteSetTheorems, TLAPS

Fresh(c) == [IsUse |-> "sending", content |-> c, SendTimes |-> {}]
Buffers  == [Places -> Message \cup {Free}]

(* A fresh message, one sent to a further site and one moved on by hand are *)
(* messages; a free slot is none.                                           *)
LEMMA MessageFacts ==
  /\ \A c \in Content : Fresh(c) \in Message
  /\ \A m \in Message, s \in Sites :
       [m EXCEPT !.IsUse = "waiting", !.SendTimes = @ \cup {s}] \in Message
  /\ \A m \in Message : [m EXCEPT !.IsUse = "waiting"] \in Message
  /\ \A m \in Message : m.IsUse \in {"sending", "waiting"} /\ m.content \in Content
  /\ Free \notin Message /\ Free.IsUse = "null"
  /\ Openings \subseteq Content /\ Beat \in Content /\ Beat \notin Openings
<1>1. /\ \A c \in Content : Fresh(c) \in Message
      /\ \A m \in Message, s \in Sites :
           [m EXCEPT !.IsUse = "waiting", !.SendTimes = @ \cup {s}] \in Message
      /\ \A m \in Message : [m EXCEPT !.IsUse = "waiting"] \in Message
      /\ \A m \in Message : m.IsUse \in {"sending", "waiting"} /\ m.content \in Content
  BY DEF Message, Fresh
<1>2. Free.IsUse = "null"
  BY DEF Free
<1>3. Free \notin Message
  BY <1>1, <1>2
<1>4. Openings \subseteq Content /\ Beat \in Content /\ Beat \notin Openings
  BY UpReportAssumption DEF Content, Beat, UpReportAssumption
<1>. QED  BY <1>1, <1>2, <1>3, <1>4, Zenon

LEMMA PlaceFacts ==
  1 \in Places /\ 1 \in Sites /\ Places \subseteq 0..Slots /\ Places \subseteq Nat
BY UpReportAssumption DEF Places, Sites, UpReportAssumption

(* Insert_Message_Data keeps the buffer's shape and changes at most one free *)
(* slot: the first one, if that is free.                                     *)
LEMMA InsertFacts ==
  ASSUME buf \in Buffers, NEW c \in Content, Insert(c)
  PROVE  /\ buf' \in Buffers
         /\ \A k \in Places : buf'[k] # buf[k] =>
              buf'[k] = Fresh(c) /\ buf[k] = Free /\ (buf[1] = Free => k = 1)
<1>1. CASE In("null") = {}
  BY <1>1 DEF Insert
<1>2. CASE In("null") # {}
  <2>1. PICK k \in Places : Lowest(k, In("null")) /\ buf' = [buf EXCEPT ![k] = Fresh(c)]
    BY <1>2 DEF Insert, Fresh
  <2>2. buf[k] = Free
    BY <2>1, MessageFacts DEF Lowest, In, Buffers
  <2>3. ASSUME buf[1] = Free PROVE k = 1
    <3>1. 1 \in In("null")
      BY <2>3, PlaceFacts, MessageFacts DEF In
    <3>2. k <= 1
      BY <2>1, <3>1 DEF Lowest
    <3>. QED  BY <3>2, UpReportAssumption DEF Places, UpReportAssumption
  <2>4. buf' \in Buffers
    BY <2>1, MessageFacts DEF Buffers
  <2>. QED  BY <2>1, <2>2, <2>3, <2>4 DEF Buffers
<1>. QED  BY <1>1, <1>2

(* The step over a site keeps the buffer's shape and, unless it ends the     *)
(* slot with no open site seen, leaves b in the buffer.                      *)
LEMMA SiteDoneFacts ==
  ASSUME NEW b \in Buffers, NEW opened, TypeOK, spc = "send", iLoop \in Places,
         b[iLoop] \in Message, SiteDone(b, opened)
  PROVE  /\ buf' \in Buffers /\ jLoop' \in Sites
         /\ spc' \in {"next", "send"}
         /\ \A k \in Places : k # iLoop => buf'[k] = b[k]
         /\ buf'[iLoop] \in Message
         /\ buf'[iLoop].content = b[iLoop].content
         /\ buf'[iLoop].SendTimes = b[iLoop].SendTimes
         /\ buf'[iLoop].IsUse \in {b[iLoop].IsUse, "waiting"}
         /\ spc' = "next" /\ ~opened => buf'[iLoop].IsUse = "waiting"
<1>1. CASE jLoop < NSites
  <2>1. jLoop' = jLoop + 1 /\ buf' = b /\ spc' = spc
    BY <1>1 DEF SiteDone
  <2>2. jLoop' \in Sites
    BY <1>1, <2>1, UpReportAssumption DEF TypeOK, Sites, UpReportAssumption
  <2>. QED  BY <2>1, <2>2
<1>2. CASE ~(jLoop < NSites)
  <2>1. spc' = "next" /\ jLoop' = jLoop
    BY <1>2 DEF SiteDone
  <2>2. CASE opened
    BY <1>2, <2>1, <2>2 DEF SiteDone, TypeOK
  <2>3. CASE ~opened
    <3>. DEFINE m == [b[iLoop] EXCEPT !.IsUse = "waiting"]
    <3>1. buf' = [b EXCEPT ![iLoop] = m]
      BY <1>2, <2>3 DEF SiteDone
    <3>2. /\ m \in Message /\ m.IsUse = "waiting"
          /\ m.content = b[iLoop].content /\ m.SendTimes = b[iLoop].SendTimes
      BY MessageFacts DEF Message
    <3>. HIDE DEF m
    <3>. QED  BY <2>1, <3>1, <3>2 DEF Buffers, TypeOK
  <2>. QED  BY <2>2, <2>3
<1>. QED  BY <1>1, <1>2

-----------------------------------------------------------------------------
(* The two invariants are not inductive: this adds where the loops stand.    *)
(* In the sending round the first slot is reached first, with no open site   *)
(* seen before, so it never stays unsent.                                    *)
Rounds ==
  /\ spc = "wait" => buf[1].IsUse # "sending"
  /\ spc = "log" => iLoop \in Places
  /\ spc = "next" =>
       \/ iLoop = 0 /\ ~ServerOpenflag
       \/ iLoop \in Places /\ buf[1].IsUse # "sending"
  /\ spc = "send" =>
       /\ iLoop \in Places /\ buf[iLoop] # Free
       /\ iLoop = 1 /\ ServerOpenflag => buf[1].IsUse = "waiting"
       /\ iLoop # 1 => buf[1].IsUse # "sending"

Orderly == AlwaysRoomForReport /\ ReportsInOrder /\ Rounds

(* Every variable keeps its range.                                           *)
LEMMA TypeInit == Init => TypeOK
<1>. SUFFICES ASSUME Init PROVE TypeOK
  OBVIOUS
<1>1. /\ buf \in Buffers
      /\ spc = "wait" /\ ServerOpenflag = FALSE
      /\ ServerOpen \in [Sites -> BOOLEAN]
      /\ started \in [Sites -> BOOLEAN]
      /\ link \in [Sites -> {"up", "stale", "down"}]
      /\ state_per \in Openings /\ quiet \in BOOLEAN /\ per_alarm \in Openings
      /\ known \in [Sites -> Openings]
  BY DEF Init, Buffers
<1>2. /\ iLoop \in 0..Slots /\ jLoop \in Sites /\ tries \in 0..(Retries - 1)
      /\ logq \in 0..LogCap /\ changes \in 0..MaxChanges
  BY UpReportAssumption DEF Init, UpReportAssumption, Sites
<1>. QED  BY <1>1, <1>2, Zenon DEF TypeOK, Buffers

LEMMA ThreadSteps ==
  ASSUME TypeOK, Orderly,
         \/ Start \/ Wake \/ ClearBeat \/ ClearStatus \/ Cleared
         \/ Log \/ RetryLog \/ GiveUpLog \/ NextSlot
  PROVE  TypeOK' /\ Orderly'
<1>. USE DEF env
<1>1. CASE Start \/ Wake
  <2>1. TypeOK'
    BY <1>1 DEF TypeOK, Start, Wake
  <2>2. Orderly'
    BY <1>1 DEF Orderly, Rounds, AlwaysRoomForReport, ReportsInOrder, IsStatus, Start, Wake
  <2>. QED  BY <2>1, <2>2
<1>2. CASE ClearBeat
  <2>1. PICK k \in Places : buf' = [buf EXCEPT ![k] = Free]
    BY <1>2 DEF ClearBeat
  <2>2. TypeOK'
    BY <1>2, <2>1 DEF TypeOK, ClearBeat
  <2>3. Orderly'
    BY <1>2, <2>1, MessageFacts, PlaceFacts
    DEF TypeOK, Orderly, Rounds, AlwaysRoomForReport, ReportsInOrder, IsStatus, ClearBeat
  <2>. QED  BY <2>2, <2>3
<1>3. CASE ClearStatus
  <2>1. TypeOK'
    BY <1>3, PlaceFacts DEF TypeOK, ClearStatus
  <2>2. Orderly'
    BY <1>3 DEF TypeOK, Orderly, Rounds, AlwaysRoomForReport, ReportsInOrder, IsStatus, ClearStatus
  <2>. QED  BY <2>1, <2>2
<1>4. CASE Cleared
  <2>1. TypeOK'
    BY <1>4 DEF TypeOK, Cleared
  <2>2. buf[1] = Free
    BY <1>4, MessageFacts, PlaceFacts DEF Cleared, Orderly, ReportsInOrder, In, TypeOK
  <2>3. Orderly'
    BY <1>4, <2>2 DEF TypeOK, Orderly, Rounds, AlwaysRoomForReport, ReportsInOrder, IsStatus, Cleared
  <2>. QED  BY <2>1, <2>3
<1>5. CASE Log \/ GiveUpLog
  <2>1. buf' = [buf EXCEPT ![iLoop] = Free]
    BY <1>5 DEF Log, GiveUpLog
  <2>2. TypeOK'
    <3>1. logq' \in 0..LogCap /\ tries' \in 0..(Retries - 1)
      BY <1>5, UpReportAssumption DEF TypeOK, Log, GiveUpLog, UpReportAssumption
    <3>. QED  BY <1>5, <2>1, <3>1 DEF TypeOK, Log, GiveUpLog
  <2>3. Orderly'
    BY <1>5, <2>1, MessageFacts, PlaceFacts
    DEF TypeOK, Orderly, Rounds, AlwaysRoomForReport, ReportsInOrder, IsStatus, Log, GiveUpLog
  <2>. QED  BY <2>2, <2>3
<1>6. CASE RetryLog
  <2>1. TypeOK'
    <3>1. tries' \in 0..(Retries - 1)
      BY <1>6, UpReportAssumption DEF TypeOK, RetryLog, UpReportAssumption
    <3>. QED  BY <1>6, <3>1 DEF TypeOK, RetryLog
  <2>2. Orderly'
    BY <1>6 DEF TypeOK, Orderly, Rounds, AlwaysRoomForReport, ReportsInOrder, IsStatus, RetryLog
  <2>. QED  BY <2>1, <2>2
<1>7. CASE NextSlot
  <2>1. iLoop = 0 /\ buf[1].IsUse = "sending" => 1 \in Later
    BY PlaceFacts DEF Later, In
  <2>2. spc = "next" /\ UNCHANGED <<buf, ServerOpenflag>>
    BY <1>7 DEF NextSlot
  <2>3. CASE Later = {} /\ spc' = "sleep" /\ UNCHANGED <<iLoop, jLoop>>
    <3>1. TypeOK'
      BY <1>7, <2>3 DEF TypeOK, NextSlot
    <3>2. Orderly'
      BY <2>1, <2>2, <2>3, PlaceFacts
      DEF Orderly, Rounds, AlwaysRoomForReport, ReportsInOrder, IsStatus
    <3>. QED  BY <3>1, <3>2
  <2>4. ASSUME NEW k \in Places, Lowest(k, Later), iLoop' = k, jLoop' = 1, spc' = "send"
        PROVE  TypeOK' /\ Orderly'
    <3>1. TypeOK'
      BY <1>7, <2>4, PlaceFacts DEF TypeOK, NextSlot
    <3>2. k \in Later /\ buf[k] # Free
      BY <2>4, MessageFacts DEF Lowest, Later, In
    <3>3. 1 \in Later => k = 1
      BY <2>4, UpReportAssumption DEF Lowest, Places, UpReportAssumption
    <3>4. k = 1 => iLoop = 0
      BY <3>2, UpReportAssumption DEF Later, TypeOK, UpReportAssumption
    <3>5. Orderly'
      BY <2>1, <2>2, <2>4, <3>2, <3>3, <3>4, PlaceFacts
      DEF Orderly, Rounds, AlwaysRoomForReport, ReportsInOrder, IsStatus, In, Later
    <3>. QED  BY <3>1, <3>5
  <2>. QED  BY <1>7, <2>3, <2>4 DEF NextSlot
<1>. QED  BY <1>1, <1>2, <1>3, <1>4, <1>5, <1>6, <1>7

(* The report decided on goes to the first slot, the heartbeat wherever      *)
(* there is room.                                                            *)
LEMMA InsertSteps ==
  ASSUME TypeOK, Orderly, Decide \/ InsertBeat PROVE TypeOK' /\ Orderly'
<1>. USE DEF env
<1>0. buf \in Buffers
  BY DEF TypeOK, Buffers
<1>1. CASE Decide
  <2>1. CASE MustReport
    <3>1. Insert(state_per) /\ state_per \in Content
      BY <1>1, <2>1, MessageFacts DEF Decide, TypeOK
    <3>2. /\ buf' \in Buffers
          /\ \A k \in Places : buf'[k] # buf[k] => k = 1
      BY <1>0, <1>1, <3>1, InsertFacts DEF Decide, Orderly, AlwaysRoomForReport
    <3>3. TypeOK'
      BY <1>1, <2>1, <3>2 DEF TypeOK, Decide, Buffers
    <3>4. Orderly'
      BY <1>1, <3>2 DEF Decide, Orderly, Rounds, AlwaysRoomForReport, ReportsInOrder, IsStatus
    <3>. QED  BY <3>3, <3>4
  <2>2. CASE ~MustReport
    <3>1. TypeOK'
      BY <1>1, <2>2 DEF TypeOK, Decide
    <3>2. Orderly'
      BY <1>1, <2>2 DEF Decide, Orderly, Rounds, AlwaysRoomForReport, ReportsInOrder, IsStatus
    <3>. QED  BY <3>1, <3>2
  <2>. QED  BY <2>1, <2>2
<1>2. CASE InsertBeat
  <2>1. /\ buf' \in Buffers
        /\ \A k \in Places : buf'[k] # buf[k] => buf'[k] = Fresh(Beat)
    BY <1>0, <1>2, InsertFacts, MessageFacts DEF InsertBeat
  <2>2. TypeOK'
    <3>1. iLoop' \in 0..Slots
      BY <1>2, UpReportAssumption DEF InsertBeat, UpReportAssumption
    <3>. QED  BY <1>2, <2>1, <3>1 DEF TypeOK, InsertBeat, Buffers
  <2>3. Orderly'
    BY <1>2, <2>1, PlaceFacts DEF InsertBeat, Orderly, Rounds, AlwaysRoomForReport, ReportsInOrder, IsStatus, Fresh
  <2>. QED  BY <2>2, <2>3
<1>. QED  BY <1>1, <1>2

(* Once a site has been seen open the slot is waiting; with none open it is  *)
(* moved on after the last site.                                             *)
LEMMA SendSteps ==
  ASSUME TypeOK, Orderly, SkipSite \/ SendTo PROVE TypeOK' /\ Orderly'
<1>. USE DEF env
<1>0. /\ buf \in Buffers /\ spc = "send" /\ iLoop \in Places
      /\ buf[iLoop] \in Message /\ buf[iLoop] # Free
  BY MessageFacts DEF TypeOK, Buffers, SkipSite, SendTo, Orderly, Rounds
<1>1. CASE SkipSite
  <2>0. SiteDone(buf, ServerOpenflag)
    BY <1>1 DEF SkipSite
  <2>1. /\ buf' \in Buffers /\ jLoop' \in Sites
        /\ spc' \in {"next", "send"}
        /\ \A k \in Places : k # iLoop => buf'[k] = buf[k]
        /\ buf'[iLoop] \in Message
        /\ buf'[iLoop].content = buf[iLoop].content
        /\ buf'[iLoop].IsUse \in {buf[iLoop].IsUse, "waiting"}
        /\ spc' = "next" /\ ~ServerOpenflag => buf'[iLoop].IsUse = "waiting"
    BY <1>0, <2>0, SiteDoneFacts
  <2>2. UNCHANGED <<iLoop, ServerOpenflag>>
    BY <1>1 DEF SkipSite
  <2>3. TypeOK'
    BY <1>1, <2>1 DEF TypeOK, SkipSite, Buffers
  <2>4. Orderly'
    BY <1>0, <2>1, <2>2, PlaceFacts, MessageFacts
    DEF Orderly, Rounds, AlwaysRoomForReport, ReportsInOrder, IsStatus
  <2>. QED  BY <2>3, <2>4
<1>2. CASE SendTo
  <2>. DEFINE m == [buf[iLoop] EXCEPT !.IsUse = "waiting", !.SendTimes = @ \cup {jLoop}]
              b == [buf EXCEPT ![iLoop] = m]
  <2>1. m \in Message /\ m.IsUse = "waiting" /\ m.content = buf[iLoop].content
    <3>1. jLoop \in Sites
      BY DEF TypeOK
    <3>2. m \in Message
      BY <1>0, <3>1, MessageFacts
    <3>. QED  BY <1>0, <3>2 DEF Message
  <2>2. SiteDone(b, TRUE)
    BY <1>0, <1>2 DEF SendTo, Buffers
  <2>3. b \in Buffers /\ b[iLoop] = m /\ \A k \in Places : k # iLoop => b[k] = buf[k]
    BY <1>0, <2>1 DEF Buffers
  <2>. HIDE DEF m, b
  <2>4. /\ buf' \in Buffers /\ jLoop' \in Sites
        /\ spc' \in {"next", "send"}
        /\ \A k \in Places : k # iLoop => buf'[k] = b[k]
        /\ buf'[iLoop] \in Message
        /\ buf'[iLoop].content = b[iLoop].content
        /\ buf'[iLoop].IsUse \in {b[iLoop].IsUse, "waiting"}
    BY <1>0, <2>1, <2>2, <2>3, SiteDoneFacts
  <2>5. iLoop' = iLoop /\ ServerOpenflag' = TRUE
    BY <1>2 DEF SendTo
  <2>6. known' \in [Sites -> Openings]
    <3>1. CASE link[jLoop] = "up" /\ buf[iLoop].content # Beat
      <4>1. buf[iLoop].content \in Openings
        BY <1>0, <3>1, MessageFacts DEF Content
      <4>2. known' = [known EXCEPT ![jLoop] = buf[iLoop].content]
        BY <1>2, <3>1 DEF SendTo
      <4>. QED  BY <4>1, <4>2 DEF TypeOK
    <3>2. CASE ~(link[jLoop] = "up" /\ buf[iLoop].content # Beat)
      BY <1>2, <3>2 DEF SendTo, TypeOK
    <3>. QED  BY <3>1, <3>2
  <2>7. TypeOK'
    BY <1>2, <2>4, <2>5, <2>6 DEF TypeOK, SendTo, Buffers
  <2>8. Orderly'
    <3>1. /\ spc \notin {"decide", "sleep", "clear", "log", "wait"}
          /\ spc' \in {"next", "send"}
          /\ buf'[iLoop] # Free /\ buf'[iLoop].IsUse = "waiting"
          /\ buf'[iLoop].content = buf[iLoop].content
          /\ \A k \in Places : k # iLoop => buf'[k] = buf[k]
      BY <1>0, <2>1, <2>3, <2>4, MessageFacts
    <3>. QED
      BY <1>0, <2>5, <3>1, PlaceFacts
      DEF Orderly, Rounds, AlwaysRoomForReport, ReportsInOrder, IsStatus
  <2>. QED  BY <2>7, <2>8
<1>. QED  BY <1>1, <1>2

(* The others never touch the thread's variables, and a dead up_main starts  *)
(* with an empty buffer.                                                     *)
LEMMA OtherSteps ==
  ASSUME TypeOK, Orderly,
         \/ Surroundings \/ Die \/ NullCall \/ UNCHANGED vars
         \/ \E v \in Openings : ControlBoots(v)
  PROVE  TypeOK' /\ Orderly'
<1>1. CASE Die \/ NullCall
  <2>1. Restart
    BY <1>1 DEF Die, NullCall
  <2>2. /\ buf' \in Buffers /\ started' \in [Sites -> BOOLEAN]
        /\ link' \in [Sites -> {"up", "stale", "down"}]
    BY <2>1 DEF Restart, TypeOK, Buffers
  <2>3. tries' \in 0..(Retries - 1)
    BY <2>1, UpReportAssumption DEF Restart, UpReportAssumption
  <2>4. TypeOK'
    BY <2>1, <2>2, <2>3, PlaceFacts DEF Restart, TypeOK, Buffers
  <2>5. Orderly'
    BY <2>1, PlaceFacts, MessageFacts DEF Restart, Orderly, Rounds, AlwaysRoomForReport, ReportsInOrder, IsStatus
  <2>. QED  BY <2>4, <2>5
<1>2. CASE Surroundings \/ UNCHANGED vars \/ \E v \in Openings : ControlBoots(v)
  <2>1. UNCHANGED own
    BY <1>2
    DEF Surroundings, SaveSite, Connect, LinkFails, Noticed, SetLink, Drift,
        DataprocReads, ControlBoots, vars
  <2>2. Orderly'
    BY <2>1 DEF own, Orderly, Rounds, AlwaysRoomForReport, ReportsInOrder, IsStatus
  <2>3. /\ buf' \in [Places -> Message \cup {Free}]
        /\ spc' \in {"wait", "sleep", "clear", "log", "decide", "beat", "next", "send"}
        /\ iLoop' \in 0..Slots /\ jLoop' \in Sites
        /\ ServerOpenflag' \in BOOLEAN /\ tries' \in 0..(Retries - 1)
        /\ started' \in [Sites -> BOOLEAN]
    BY <2>1, Zenon DEF own, TypeOK
  <2>4. /\ ServerOpen' \in [Sites -> BOOLEAN]
        /\ link' \in [Sites -> {"up", "stale", "down"}]
        /\ state_per' \in Openings /\ quiet' \in BOOLEAN
        /\ per_alarm' \in Openings /\ known' \in [Sites -> Openings]
        /\ logq' \in 0..LogCap /\ changes' \in 0..MaxChanges
    <3>1. CASE \E s \in Sites : SaveSite(s)
      <4>1. changes' \in 0..MaxChanges
        BY <3>1, UpReportAssumption DEF SaveSite, TypeOK, UpReportAssumption
      <4>2. ServerOpen' \in [Sites -> BOOLEAN]
        BY <3>1 DEF SaveSite, TypeOK
      <4>. QED  BY <3>1, <4>1, <4>2, Zenon DEF SaveSite, TypeOK
    <3>2. CASE \E s \in Sites : Connect(s) \/ LinkFails(s) \/ Noticed(s)
      <4>1. link' \in [Sites -> {"up", "stale", "down"}]
        BY <3>2 DEF Connect, LinkFails, Noticed, SetLink, TypeOK
      <4>. QED  BY <3>2, <4>1, Zenon DEF Connect, LinkFails, Noticed, SetLink, TypeOK
    <3>3. CASE \E v \in Openings, q \in BOOLEAN : Drift(v, q)
      BY <3>3, Zenon DEF Drift, TypeOK
    <3>4. CASE DataprocReads
      <4>1. logq' \in 0..LogCap
        BY <3>4, UpReportAssumption DEF DataprocReads, TypeOK, UpReportAssumption
      <4>. QED  BY <3>4, <4>1, Zenon DEF DataprocReads, TypeOK, env
    <3>5. CASE \E v \in Openings : ControlBoots(v)
      BY <3>5, Zenon DEF ControlBoots, TypeOK, env
    <3>6. CASE UNCHANGED vars
      BY <3>6, Zenon DEF vars, TypeOK, env
    <3>. QED  BY <1>2, <3>1, <3>2, <3>3, <3>4, <3>5, <3>6 DEF Surroundings
  <2>5. TypeOK'
    BY <2>3, <2>4, Zenon DEF TypeOK
  <2>. QED  BY <2>2, <2>5
<1>. QED  BY <1>1, <1>2

(* The inductive invariant: the ranges, the two invariants below and where   *)
(* the loops stand.                                                          *)
THEOREM OrderlyAlways == Spec => [](TypeOK /\ Orderly)
<1>1. Init => Orderly
  BY PlaceFacts DEF Init, Orderly, Rounds, AlwaysRoomForReport, ReportsInOrder, IsStatus, Free
<1>2. TypeOK /\ Orderly /\ [Next]_vars => TypeOK' /\ Orderly'
  BY ThreadSteps, InsertSteps, SendSteps, OtherSteps DEF Next, Thread
<1>. QED  BY <1>1, <1>2, TypeInit, PTL DEF Spec

(* per_alarm is never stored for a report that found no room                 *)
(* (AlwaysRoomForReport).                                                    *)
THEOREM ReportsFindRoom == Spec => []AlwaysRoomForReport
<1>1. TypeOK /\ Orderly => AlwaysRoomForReport
  BY DEF Orderly
<1>. QED  BY <1>1, OrderlyAlways, PTL

(* At most one report is in the buffer, and it leaves in the cycle that      *)
(* decided it (ReportsInOrder).                                              *)
THEOREM ReportsLeaveInOrder == Spec => []ReportsInOrder
<1>1. TypeOK /\ Orderly => ReportsInOrder
  BY DEF Orderly
<1>. QED  BY <1>1, OrderlyAlways, PTL

-----------------------------------------------------------------------------
(* The refinement.  What the first slot holds is the report under way.       *)
UnderWay == IF IsStatus(1) THEN buf[1].content ELSE NoReport
SentTo   == IF IsStatus(1) THEN buf[1].SendTimes ELSE {}

(* A step that leaves the first slot and the openings alone is none of the   *)
(* service's.                                                                *)
LEMMA Unseen ==
  ASSUME UNCHANGED <<state_per, quiet, per_alarm, known>>,
         buf'[1] = buf[1] \/ (~IsStatus(1) /\ ~IsStatus(1)')
  PROVE  [Service!Next]_(Service!vars)
BY DEF IsStatus, Service!vars

(* When the first slot is freed, its report, if it held one, has come to its *)
(* end.                                                                      *)
LEMMA FirstFreed ==
  ASSUME TypeOK, UNCHANGED <<state_per, quiet, per_alarm, known>>, buf'[1] = Free
  PROVE  [Service!Next]_(Service!vars)
<1>1. UnderWay' = NoReport /\ SentTo' = {}
  BY DEF UnderWay, SentTo, IsStatus
<1>2. CASE IsStatus(1)
  <2>1. buf[1] \in Message /\ UnderWay = buf[1].content
    BY <1>2, PlaceFacts DEF TypeOK, IsStatus, UnderWay
  <2>2. UnderWay # NoReport
    BY <1>2, <2>1 DEF IsStatus, Beat, NoReport
  <2>3. Service!End
    BY <1>1, <2>2 DEF Service!End, UnderWay, SentTo
  <2>. QED  BY <2>3 DEF Service!Next
<1>3. CASE ~IsStatus(1)
  BY <1>3, Unseen DEF IsStatus
<1>. QED  BY <1>2, <1>3

(* Clearing and passing closed sites.                                        *)
LEMMA ClearServes ==
  ASSUME TypeOK, Orderly,
         \/ Start \/ Wake \/ ClearBeat \/ ClearStatus \/ Cleared
         \/ Log \/ RetryLog \/ GiveUpLog \/ NextSlot \/ SkipSite
  PROVE  [Service!Next]_(Service!vars)
<1>. USE DEF env
<1>1. CASE Start \/ Wake \/ ClearStatus \/ Cleared \/ RetryLog \/ NextSlot
  BY <1>1, Unseen DEF Start, Wake, ClearStatus, Cleared, RetryLog, NextSlot
<1>2. CASE ClearBeat \/ Log \/ GiveUpLog
  <2>1. UNCHANGED <<state_per, quiet, per_alarm, known>>
    BY <1>2 DEF ClearBeat, Log, GiveUpLog
  <2>2. PICK k \in Places : buf' = [buf EXCEPT ![k] = Free]
    BY <1>2 DEF ClearBeat, Log, GiveUpLog, Orderly, Rounds
  <2>3. buf'[1] = Free \/ buf'[1] = buf[1]
    BY <2>2, PlaceFacts DEF TypeOK
  <2>. QED  BY <2>1, <2>3, FirstFreed, Unseen
<1>3. CASE SkipSite
  <2>1. /\ buf \in Buffers /\ spc = "send" /\ iLoop \in Places
        /\ buf[iLoop] \in Message /\ SiteDone(buf, ServerOpenflag)
    BY <1>3, MessageFacts DEF TypeOK, Buffers, SkipSite, Orderly, Rounds
  <2>2. /\ \A k \in Places : k # iLoop => buf'[k] = buf[k]
        /\ buf'[iLoop] \in Message
        /\ buf'[iLoop].content = buf[iLoop].content
        /\ buf'[iLoop].SendTimes = buf[iLoop].SendTimes
    BY <2>1, SiteDoneFacts
  <2>3. UNCHANGED <<state_per, quiet, per_alarm, known>>
    BY <1>3 DEF SkipSite
  <2>4. CASE iLoop = 1
    <3>1. buf'[1] # Free /\ buf[1] # Free
      BY <2>1, <2>2, <2>4, MessageFacts
    <3>. QED  BY <2>2, <2>3, <2>4, <3>1 DEF Service!vars, IsStatus
  <2>5. CASE iLoop # 1
    BY <2>2, <2>3, <2>5, PlaceFacts, Unseen
  <2>. QED  BY <2>4, <2>5
<1>. QED  BY <1>1, <1>2, <1>3

(* The decision makes the report, in a slot that is free; a heartbeat is     *)
(* none.                                                                     *)
LEMMA InsertServes ==
  ASSUME TypeOK, Orderly, Decide \/ InsertBeat PROVE [Service!Next]_(Service!vars)
<1>. USE DEF env
<1>0. buf \in Buffers /\ 1 \in Places
  BY PlaceFacts DEF TypeOK, Buffers
<1>1. CASE Decide /\ MustReport
  <2>1. /\ Insert(state_per) /\ state_per \in Openings /\ state_per \in Content
        /\ buf[1] = Free /\ per_alarm' = state_per
        /\ UNCHANGED <<state_per, quiet, known>>
    BY <1>1, MessageFacts DEF Decide, TypeOK, Orderly, AlwaysRoomForReport
  <2>2. buf'[1] = Fresh(state_per)
    <3>1. In("null") # {}
      BY <1>0, <2>1, MessageFacts DEF In
    <3>2. PICK k \in Places : Lowest(k, In("null")) /\ buf' = [buf EXCEPT ![k] = Fresh(state_per)]
      BY <2>1, <3>1 DEF Insert, Fresh
    <3>3. k = 1
      <4>1. 1 \in In("null")
        BY <1>0, <2>1, MessageFacts DEF In
      <4>2. k <= 1 /\ k \in Places
        BY <3>2, <4>1 DEF Lowest
      <4>. QED  BY <4>2, UpReportAssumption DEF Places, UpReportAssumption
    <3>. QED  BY <1>0, <3>2, <3>3 DEF Buffers
  <2>3. /\ UnderWay = NoReport /\ UnderWay' = state_per /\ SentTo' = {}
    <3>1. Fresh(state_per) # Free /\ state_per # Beat
      BY <2>1, MessageFacts
    <3>2. Fresh(state_per).content = state_per /\ Fresh(state_per).SendTimes = {}
      BY DEF Fresh
    <3>. QED  BY <2>1, <2>2, <3>1, <3>2 DEF UnderWay, SentTo, IsStatus
  <2>4. quiet /\ Service!Apart(per_alarm, state_per)
    <3>1. state_per \in Nat /\ per_alarm \in Nat
      BY UpReportAssumption DEF TypeOK, UpReportAssumption
    <3>. QED  BY <1>1, <3>1 DEF MustReport, AbsDiff, Service!Apart
  <2>5. Service!Report
    BY <2>1, <2>3, <2>4 DEF Service!Report, UnderWay, SentTo
  <2>. QED  BY <2>5 DEF Service!Next
<1>2. CASE Decide /\ ~MustReport
  BY <1>2, Unseen DEF Decide
<1>3. CASE InsertBeat
  <2>1. /\ \A k \in Places : buf'[k] # buf[k] => buf'[k] = Fresh(Beat) /\ buf[k] = Free
        /\ UNCHANGED <<state_per, quiet, per_alarm, known>>
    BY <1>0, <1>3, InsertFacts, MessageFacts DEF InsertBeat
  <2>2. Fresh(Beat).content = Beat
    BY DEF Fresh
  <2>3. buf'[1] = buf[1] \/ (~IsStatus(1) /\ ~IsStatus(1)')
    BY <1>0, <2>1, <2>2 DEF IsStatus
  <2>. QED  BY <2>1, <2>3, Unseen
<1>. QED  BY <1>1, <1>2, <1>3

(* A site gets the report, or a heartbeat, which tells it nothing.           *)
LEMMA SendServes ==
  ASSUME TypeOK, Orderly, SendTo PROVE [Service!Next]_(Service!vars)
<1>. USE DEF env
<1>0. /\ buf \in Buffers /\ spc = "send" /\ iLoop \in Places /\ jLoop \in Sites
      /\ buf[iLoop] \in Message /\ buf[iLoop] # Free
      /\ UNCHANGED <<state_per, quiet, per_alarm>>
  BY MessageFacts DEF TypeOK, Buffers, SendTo, Orderly, Rounds
<1>. DEFINE m == [buf[iLoop] EXCEPT !.IsUse = "waiting", !.SendTimes = @ \cup {jLoop}]
            b == [buf EXCEPT ![iLoop] = m]
<1>1. /\ m \in Message /\ m.content = buf[iLoop].content
      /\ m.SendTimes = buf[iLoop].SendTimes \cup {jLoop}
  <2>1. m \in Message
    BY <1>0, MessageFacts
  <2>. QED  BY <1>0, <2>1 DEF Message
<1>2. SiteDone(b, TRUE)
  BY <1>0 DEF SendTo, Buffers
<1>3. b \in Buffers /\ b[iLoop] = m /\ \A k \in Places : k # iLoop => b[k] = buf[k]
  BY <1>0, <1>1 DEF Buffers
<1>. HIDE DEF m, b
<1>4. /\ \A k \in Places : k # iLoop => buf'[k] = buf[k]
      /\ buf'[iLoop] \in Message /\ buf'[iLoop].content = buf[iLoop].content
      /\ buf'[iLoop].SendTimes = buf[iLoop].SendTimes \cup {jLoop}
  <2>1. /\ \A k \in Places : k # iLoop => buf'[k] = b[k]
        /\ buf'[iLoop] \in Message /\ buf'[iLoop].content = b[iLoop].content
        /\ buf'[iLoop].SendTimes = b[iLoop].SendTimes
    BY <1>0, <1>1, <1>2, <1>3, SiteDoneFacts
  <2>. QED  BY <1>1, <1>3, <2>1
<1>5. CASE buf[iLoop].content = Beat
  <2>1. known' = known
    BY <1>5 DEF SendTo
  <2>2. buf'[1] = buf[1] \/ (~IsStatus(1) /\ ~IsStatus(1)')
    <3>1. CASE iLoop = 1
      BY <1>4, <1>5, <3>1 DEF IsStatus
    <3>2. CASE iLoop # 1
      BY <1>4, <3>2, PlaceFacts
    <3>. QED  BY <3>1, <3>2
  <2>. QED  BY <1>0, <2>1, <2>2, Unseen
<1>6. CASE buf[iLoop].content # Beat
  <2>1. iLoop = 1 /\ IsStatus(1)
    BY <1>0, <1>6 DEF IsStatus, Orderly, ReportsInOrder
  <2>2. IsStatus(1)'
    BY <1>4, <1>6, <2>1, MessageFacts DEF IsStatus
  <2>3. UnderWay # NoReport /\ UnderWay = buf[1].content /\ SentTo = buf[1].SendTimes
    BY <1>6, <2>1 DEF UnderWay, SentTo, Beat, NoReport
  <2>4. UnderWay' = UnderWay /\ SentTo' = SentTo \cup {jLoop} /\ jLoop \notin SentTo
    BY <1>4, <2>1, <2>2, <2>3 DEF UnderWay, SentTo, SendTo
  <2>5. known' \in {known, [known EXCEPT ![jLoop] = UnderWay]}
    BY <2>1, <2>3 DEF SendTo
  <2>6. Service!Send(jLoop)
    BY <1>0, <2>3, <2>4, <2>5 DEF Service!Send, UnderWay, SentTo
  <2>. QED  BY <1>0, <2>6 DEF Service!Next
<1>. QED  BY <1>5, <1>6

(* A death ends the report; the others move the opening, or per_alarm when   *)
(* it is of no opening, or nothing the service has.                          *)
LEMMA OthersServe ==
  ASSUME TypeOK, TypeOK',
         \/ Surroundings \/ Die \/ NullCall \/ UNCHANGED vars
         \/ \E v \in Openings : ControlBoots(v)
  PROVE  [Service!Next]_(Service!vars)
<1>. USE DEF env, own
<1>1. CASE Die \/ NullCall
  <2>1. buf'[1] = Free /\ UNCHANGED <<state_per, quiet, per_alarm, known>>
    BY <1>1, PlaceFacts DEF Die, NullCall, Restart
  <2>. QED  BY <2>1, FirstFreed
<1>2. CASE \/ \E s \in Sites : SaveSite(s)
           \/ \E s \in Sites : Connect(s) \/ LinkFails(s) \/ Noticed(s)
           \/ DataprocReads \/ UNCHANGED vars
  BY <1>2, Unseen
  DEF SaveSite, Connect, LinkFails, Noticed, SetLink, DataprocReads, vars
<1>3. CASE \E v \in Openings, q \in BOOLEAN : Drift(v, q)
  <2>1. PICK v \in Openings, q \in BOOLEAN : Drift(v, q)
    BY <1>3
  <2>2. Service!Move(v, q)
    BY <2>1 DEF Drift, Service!Move, IsStatus
  <2>. QED  BY <2>2 DEF Service!Next
<1>4. CASE \E v \in Openings : ControlBoots(v)
  <2>1. PICK v \in Openings : ControlBoots(v)
    BY <1>4
  <2>2. Service!Adopt(v)
    BY <2>1 DEF ControlBoots, Service!Adopt, IsStatus
  <2>. QED  BY <2>2 DEF Service!Next
<1>. QED  BY <1>1, <1>2, <1>3, <1>4 DEF Surroundings

(* The sending thread implements ReportService (OneReportAtATime): there is  *)
(* one report at a time, of the opening when it was decided, no platform     *)
(* gets it twice or is told anything else, and per_alarm is stored for it    *)
(* alone.                                                                    *)
THEOREM ReportsImplemented == Spec => OneReportAtATime
<1>1. Init => Service!Init
  BY PlaceFacts DEF Init, Service!Init, IsStatus
<1>2. TypeOK /\ Orderly /\ TypeOK' /\ [Next]_vars => [Service!Next]_(Service!vars)
  BY ClearServes, InsertServes, SendServes, OthersServe DEF Next, Thread
<1>. QED
  BY <1>1, <1>2, OrderlyAlways, PTL DEF Spec, OneReportAtATime, Service!Spec

-----------------------------------------------------------------------------
(* How full the buffer gets.  A round leaves its messages unsent from some   *)
(* slot on only if a site it had seen open was closed since, and its first   *)
(* message never; to be seen open again in the next round, some site that    *)
(* was found closed must have been opened.  So each message left behind is   *)
(* paid for by a close and an open.                                          *)
Unsent == Cardinality(In("sending"))
Taken  == Cardinality(Places \ In("null"))

OneIf(b)    == IF b THEN 1 ELSE 0
SomeOpen(S) == \E s \in S : ServerOpen[s]
Passed      == {s \in Sites : s < jLoop}   \* by the loop over the sites

(* Twice the messages that are paid for, and d more; the last close pays     *)
(* before the open that follows it.                                          *)
Owe(d)  == changes + d - OneIf(SomeOpen(Sites))
Settled == 2 * Unsent <= Owe(1)

(* Once a site was seen open, one message more, until a close; in a slot     *)
(* not sent yet, until no site the loop is still to pass is open.            *)
OweRound == changes + 1 + OneIf(SomeOpen(Sites))
OweSlot  == changes + 2 - OneIf(SomeOpen(Passed)) - OneIf(~SomeOpen(Sites \ Passed))

(* The debt of a sending round that has left no message behind yet: at first *)
(* the two messages of this cycle.                                           *)
Debt ==
  /\ \A k \in Places : buf[k].IsUse = "sending" =>
       k > iLoop \/ (spc = "send" /\ k = iLoop)
  /\ ~ServerOpenflag => 2 * Unsent <= Owe(5)
  /\ ServerOpenflag => 2 * Unsent <= OweRound
  /\ ServerOpenflag /\ spc = "send" /\ buf[iLoop].IsUse = "sending" =>
       2 * Unsent <= OweSlot

Counted ==
  /\ 2 * Taken <= changes + 5
  /\ spc \in {"wait", "sleep", "clear", "log", "decide"} => Settled
  /\ spc \in {"decide", "beat"} => In("waiting") = {}
  /\ spc = "beat" => 2 * Unsent <= Owe(3)
  /\ spc = "send" /\ ~ServerOpenflag => buf[iLoop].IsUse = "sending"
  /\ spc \in {"next", "send"} => Settled \/ Debt

(* Sets of slots are finite, and compare as their elements do.               *)
LEMMA SlotSets ==
  ASSUME NEW S \in SUBSET Places, NEW T \in SUBSET Places, NEW k
  PROVE  /\ Cardinality(S) \in Nat /\ Cardinality(T) \in Nat
         /\ S = {} => Cardinality(S) = 0
         /\ T \subseteq S => Cardinality(T) <= Cardinality(S)
         /\ T \subseteq S \cup {k} => Cardinality(T) <= Cardinality(S) + 1
         /\ k \in S /\ T \subseteq S \ {k} => Cardinality(T) <= Cardinality(S) - 1
<1>1. IsFiniteSet(Places)
  BY UpReportAssumption, FS_Interval DEF Places, UpReportAssumption
<1>2. IsFiniteSet(S) /\ IsFiniteSet(T)
  BY <1>1, FS_Subset
<1>3. Cardinality(S) \in Nat /\ Cardinality(T) \in Nat
  BY <1>2, FS_CardinalityType
<1>4. T \subseteq S => Cardinality(T) <= Cardinality(S)
  BY <1>2, FS_Subset
<1>5. T \subseteq S \cup {k} => Cardinality(T) <= Cardinality(S) + 1
  <2>1. /\ IsFiniteSet(S \cup {k})
        /\ Cardinality(S \cup {k}) = IF k \in S THEN Cardinality(S) ELSE Cardinality(S) + 1
    BY <1>2, FS_AddElement
  <2>2. T \subseteq S \cup {k} => Cardinality(T) <= Cardinality(S \cup {k})
    BY <2>1, FS_Subset
  <2>. QED  BY <1>3, <2>1, <2>2
<1>6. k \in S /\ T \subseteq S \ {k} => Cardinality(T) <= Cardinality(S) - 1
  <2>1. /\ IsFiniteSet(S \ {k})
        /\ Cardinality(S \ {k}) = IF k \in S THEN Cardinality(S) - 1 ELSE Cardinality(S)
    BY <1>2, FS_RemoveElement
  <2>2. T \subseteq S \ {k} => Cardinality(T) <= Cardinality(S \ {k})
    BY <2>1, FS_Subset
  <2>. QED  BY <1>3, <2>1, <2>2
<1>7. S = {} => Cardinality(S) = 0
  BY FS_EmptySet
<1>. QED  BY <1>3, <1>4, <1>5, <1>6, <1>7

LEMMA CountFacts ==
  ASSUME TypeOK
  PROVE  /\ Unsent \in Nat /\ Taken \in Nat /\ changes \in Nat
         /\ In("sending") = {} => Unsent = 0
         /\ In("waiting") = {} => Taken = Unsent
<1>1. /\ In("sending") \in SUBSET Places
      /\ Places \ In("null") \in SUBSET Places
  BY DEF In
<1>2. /\ Unsent \in Nat /\ Taken \in Nat
      /\ In("sending") = {} => Unsent = 0
  BY <1>1, SlotSets DEF Unsent, Taken
<1>3. In("waiting") = {} => Places \ In("null") = In("sending")
  <2>1. \A k \in Places : buf[k].IsUse \in {"sending", "waiting", "null"}
    BY MessageFacts DEF TypeOK
  <2>. QED  BY <2>1 DEF In
<1>. QED  BY <1>2, <1>3, UpReportAssumption DEF Unsent, Taken, TypeOK, UpReportAssumption

LEMMA OweFacts ==
  ASSUME NEW d \in Nat, TypeOK
  PROVE  /\ Owe(d) \in Int /\ Owe(d) + 2 = Owe(d + 2) /\ Owe(d) <= changes + d
         /\ UNCHANGED <<ServerOpen, changes>> => Owe(d)' = Owe(d)
<1>1. changes \in Nat
  BY UpReportAssumption DEF TypeOK, UpReportAssumption
<1>2. UNCHANGED <<ServerOpen, changes>> => Owe(d)' = Owe(d)
  BY DEF Owe, SomeOpen
<1>. QED  BY <1>1, <1>2 DEF Owe, OneIf

LEMMA Doubling ==
  ASSUME NEW u \in Nat, NEW v \in Nat, NEW b \in Int, 2 * u <= b
  PROVE  /\ v <= u => 2 * v <= b
         /\ v <= u + 1 => 2 * v <= b + 2
         /\ v <= u - 1 => 2 * v <= b - 2
OBVIOUS

LEMMA DoubleBelow ==
  ASSUME NEW v \in Nat, NEW b \in Int, NEW c \in Int, 2 * v <= b, b <= c
  PROVE  2 * v <= c
OBVIOUS

(* What a step does to the counts, by what it does to the slots.             *)
LEMMA CountSteps ==
  ASSUME TypeOK, TypeOK'
  PROVE  /\ Unsent' \in Nat /\ Taken' \in Nat
         /\ (\A k \in Places : buf'[k].IsUse = buf[k].IsUse \/ buf'[k] = Free)
              => Unsent' <= Unsent /\ Taken' <= Taken
         /\ (\E i \in Places : \A k \in Places : k # i => buf'[k] = buf[k])
              => Unsent' <= Unsent + 1 /\ Taken' <= Taken + 1
         /\ \A i \in Places :
              /\ \A k \in Places : k # i => buf'[k] = buf[k]
              /\ buf[i] # Free
              => /\ Taken' <= Taken
                 /\ buf'[i].IsUse \in {buf[i].IsUse, "waiting"} => Unsent' <= Unsent
                 /\ buf[i].IsUse = "sending" /\ buf'[i].IsUse = "waiting"
                      => Unsent' <= Unsent - 1
<1>. DEFINE S  == In("sending")
            S1 == In("sending")'
            T  == Places \ In("null")
            T1 == (Places \ In("null"))'
<1>1. /\ S \in SUBSET Places /\ S1 \in SUBSET Places
      /\ T \in SUBSET Places /\ T1 \in SUBSET Places
  BY DEF In
<1>2. /\ Unsent = Cardinality(S) /\ Unsent' = Cardinality(S1)
      /\ Taken = Cardinality(T) /\ Taken' = Cardinality(T1)
  BY DEF Unsent, Taken
<1>3. /\ \A k \in Places : k \in S <=> buf[k].IsUse = "sending"
      /\ \A k \in Places : k \in S1 <=> buf'[k].IsUse = "sending"
      /\ \A k \in Places : k \in T <=> buf[k].IsUse # "null"
      /\ \A k \in Places : k \in T1 <=> buf'[k].IsUse # "null"
  BY DEF In
<1>. HIDE DEF S, S1, T, T1
<1>4. Unsent' \in Nat /\ Taken' \in Nat
  BY <1>1, <1>2, SlotSets
<1>5. ASSUME \A k \in Places : buf'[k].IsUse = buf[k].IsUse \/ buf'[k] = Free
      PROVE  Unsent' <= Unsent /\ Taken' <= Taken
  <2>1. S1 \subseteq S /\ T1 \subseteq T
    BY <1>1, <1>3, <1>5, MessageFacts
  <2>. QED  BY <1>1, <1>2, <2>1, SlotSets
<1>6. ASSUME NEW i \in Places, \A k \in Places : k # i => buf'[k] = buf[k]
      PROVE  Unsent' <= Unsent + 1 /\ Taken' <= Taken + 1
  <2>1. S1 \subseteq S \cup {i} /\ T1 \subseteq T \cup {i}
    BY <1>1, <1>3, <1>6
  <2>. QED  BY <1>1, <1>2, <2>1, SlotSets
<1>7. ASSUME NEW i \in Places, \A k \in Places : k # i => buf'[k] = buf[k], buf[i] # Free
      PROVE  /\ Taken' <= Taken
             /\ buf'[i].IsUse \in {buf[i].IsUse, "waiting"} => Unsent' <= Unsent
             /\ buf[i].IsUse = "sending" /\ buf'[i].IsUse = "waiting"
                  => Unsent' <= Unsent - 1
  <2>1. T1 \subseteq T
    <3>1. i \in T
      BY <1>3, <1>7, MessageFacts DEF TypeOK
    <3>. QED  BY <1>1, <1>3, <1>7, <3>1
  <2>2. buf'[i].IsUse \in {buf[i].IsUse, "waiting"} => S1 \subseteq S
    BY <1>1, <1>3, <1>7
  <2>3. buf[i].IsUse = "sending" /\ buf'[i].IsUse = "waiting" => i \in S /\ S1 \subseteq S \ {i}
    BY <1>1, <1>3, <1>7
  <2>. QED  BY <1>1, <1>2, <2>1, <2>2, <2>3, SlotSets
<1>. QED  BY <1>4, <1>5, <1>6, <1>7

(* Clearing only frees slots, and a new cycle adds two messages at most to   *)
(* those left behind.                                                        *)
LEMMA CycleCounts ==
  ASSUME TypeOK, TypeOK', Orderly, Counted,
         \/ Start \/ Wake \/ ClearBeat \/ ClearStatus \/ Cleared \/ Log \/ RetryLog
         \/ GiveUpLog \/ Decide \/ InsertBeat
  PROVE  Counted'
<1>. USE DEF env
<1>0. /\ Unsent \in Nat /\ Taken \in Nat /\ changes \in Nat
      /\ Unsent' \in Nat /\ Taken' \in Nat
      /\ In("waiting") = {} => Taken = Unsent
  BY CountFacts, CountSteps
<1>1. CASE Start \/ Wake \/ ClearBeat \/ ClearStatus \/ Cleared \/ Log \/ RetryLog \/ GiveUpLog
  <2>1. \A k \in Places : buf'[k].IsUse = buf[k].IsUse \/ buf'[k] = Free
    BY <1>1
    DEF Start, Wake, ClearBeat, ClearStatus, Cleared, Log, RetryLog, GiveUpLog, TypeOK
  <2>2. Unsent' <= Unsent /\ Taken' <= Taken
    BY <2>1, CountSteps
  <2>3. /\ spc \in {"wait", "sleep", "clear", "log", "decide"}
        /\ spc' \in {"sleep", "clear", "log", "decide"}
        /\ spc' = "decide" => In("waiting") = {} /\ buf' = buf
        /\ ServerOpen' = ServerOpen /\ changes' = changes
    BY <1>1
    DEF Start, Wake, ClearBeat, ClearStatus, Cleared, Log, RetryLog, GiveUpLog
  <2>4. Settled /\ 2 * Taken <= changes + 5
    BY <2>3 DEF Counted
  <2>5. Settled'
    <3>1. 2 * Unsent' <= Owe(1)
      BY <1>0, <2>2, <2>4, OweFacts, Doubling DEF Settled
    <3>. QED  BY <2>3, <3>1, OweFacts DEF Settled
  <2>6. 2 * Taken' <= changes' + 5
    <3>. DEFINE b == changes + 5
    <3>1. b \in Int /\ 2 * Taken <= b
      BY <1>0, <2>4
    <3>. HIDE DEF b
    <3>2. 2 * Taken' <= b
      BY <1>0, <2>2, <3>1, Doubling
    <3>. QED  BY <2>3, <3>2 DEF b
  <2>7. spc' = "decide" => In("waiting")' = {}
    BY <2>3 DEF In
  <2>. QED  BY <2>3, <2>5, <2>6, <2>7 DEF Counted
<1>2. CASE Decide \/ InsertBeat
  <2>1. /\ spc \in {"decide", "beat"} /\ In("waiting") = {} /\ Taken = Unsent
        /\ ServerOpen' = ServerOpen /\ changes' = changes
    BY <1>0, <1>2 DEF Decide, InsertBeat, Counted
  <2>2. PICK i \in Places :
          /\ \A k \in Places : k # i => buf'[k] = buf[k]
          /\ buf'[i] = buf[i] \/ buf'[i].IsUse = "sending"
    <3>1. CASE buf' = buf
      BY <3>1, PlaceFacts
    <3>2. CASE buf' # buf
      <4>1. PICK c : Insert(c)
        BY <1>2, <3>2 DEF Decide, InsertBeat
      <4>2. PICK i \in Places : buf' = [buf EXCEPT ![i] = Fresh(c)]
        BY <3>2, <4>1 DEF Insert, Fresh
      <4>. QED  BY <4>2 DEF TypeOK, Fresh
    <3>. QED  BY <3>1, <3>2
  <2>3. Unsent' <= Unsent + 1 /\ Taken' <= Taken + 1
    BY <2>2, CountSteps
  <2>4. CASE Decide
    <3>1. Settled /\ spc' = "beat"
      BY <2>4 DEF Counted, Decide
    <3>2. 2 * Unsent' <= Owe(3) /\ 2 * Taken' <= Owe(3)
      BY <1>0, <2>1, <2>3, <3>1, OweFacts, Doubling DEF Settled
    <3>3. Owe(3)' = Owe(3) /\ Owe(3) \in Int /\ Owe(3) <= changes + 3
      BY <2>1, OweFacts
    <3>4. In("waiting")' = {}
      BY <2>1, <2>2 DEF In
    <3>5. 2 * Taken' <= changes + 5
      <4>1. Owe(3) <= changes + 5 /\ changes + 5 \in Int
        BY <1>0, <3>3
      <4>. QED  BY <1>0, <3>2, <3>3, <4>1, DoubleBelow
    <3>. QED  BY <2>1, <3>1, <3>2, <3>3, <3>4, <3>5 DEF Counted
  <2>5. CASE InsertBeat
    <3>1. /\ 2 * Unsent <= Owe(3)
          /\ spc' = "next" /\ iLoop' = 0 /\ ServerOpenflag' = FALSE
      BY <2>5 DEF Counted, InsertBeat
    <3>2. 2 * Unsent' <= Owe(5) /\ 2 * Taken' <= Owe(5)
      BY <1>0, <2>1, <2>3, <3>1, OweFacts, Doubling
    <3>3. Owe(5)' = Owe(5) /\ Owe(5) \in Int /\ Owe(5) <= changes + 5
      BY <2>1, OweFacts
    <3>4. \A k \in Places : k > iLoop'
      BY <3>1 DEF Places
    <3>5. Debt'
      BY <3>1, <3>2, <3>3, <3>4 DEF Debt
    <3>6. 2 * Taken' <= changes + 5
      <4>1. changes + 5 \in Int
        BY <1>0
      <4>. QED  BY <1>0, <3>2, <3>3, <4>1, DoubleBelow
    <3>. QED  BY <2>1, <3>1, <3>5, <3>6 DEF Counted
  <2>. QED  BY <1>2, <2>4, <2>5
<1>. QED  BY <1>1, <1>2

(* A round that ends without having left a message behind leaves none.       *)
LEMMA NextSlotCounts ==
  ASSUME TypeOK, TypeOK', Counted, NextSlot PROVE Counted'
<1>0. /\ Unsent \in Nat /\ Taken \in Nat /\ changes \in Nat
      /\ In("sending") = {} => Unsent = 0
  BY CountFacts
<1>1. /\ spc = "next" /\ 2 * Taken <= changes + 5 /\ (Settled \/ Debt)
      /\ UNCHANGED <<buf, ServerOpenflag, ServerOpen, changes>>
  BY DEF NextSlot, Counted, env
<1>2. /\ Taken' = Taken /\ Unsent' = Unsent /\ Settled' = Settled
      /\ SomeOpen(Sites)' = SomeOpen(Sites)
  BY <1>1 DEF Taken, Unsent, Settled, Owe, SomeOpen, In
<1>3. CASE Later = {} /\ spc' = "sleep"
  <2>1. CASE Settled
    BY <1>1, <1>2, <1>3, <2>1 DEF Counted
  <2>2. CASE Debt
    <3>1. In("sending") = {}
      BY <1>1, <1>3, <2>2 DEF Debt, Later, In
    <3>2. Settled
      BY <1>0, <3>1 DEF Settled, Owe, OneIf
    <3>. QED  BY <1>1, <1>2, <1>3, <3>2 DEF Counted
  <2>. QED  BY <1>1, <2>1, <2>2
<1>4. ASSUME NEW k \in Places, Lowest(k, Later), iLoop' = k, jLoop' = 1, spc' = "send"
      PROVE  Counted'
  <2>1. buf[k].IsUse = "sending" /\ k > iLoop
    BY <1>4 DEF Lowest, Later, In
  <2>2. CASE Settled
    BY <1>1, <1>2, <1>4, <2>1, <2>2 DEF Counted
  <2>3. CASE Debt
    <3>1. \A l \in Places : buf'[l].IsUse = "sending" => l > iLoop' \/ l = iLoop'
      <4>1. SUFFICES ASSUME NEW l \in Places, buf[l].IsUse = "sending"
                     PROVE  l > k \/ l = k
        BY <1>1, <1>4
      <4>2. l \in Later
        BY <1>1, <2>3, <4>1 DEF Debt, Later, In
      <4>3. k <= l
        BY <1>4, <4>2 DEF Lowest
      <4>. QED  BY <4>3 DEF Places
    <3>2. Passed' = {} /\ Sites \ Passed' = Sites
      BY <1>4 DEF Passed, Sites
    <3>3. OweSlot' = OweRound /\ OweRound' = OweRound /\ Owe(5)' = Owe(5)
      <4>1. /\ SomeOpen(Passed)' = FALSE
            /\ SomeOpen(Sites \ Passed)' = SomeOpen(Sites)
        BY <1>1, <3>2 DEF SomeOpen
      <4>2. OweSlot' = changes + 2 - OneIf(FALSE) - OneIf(~SomeOpen(Sites))
        BY <1>1, <4>1 DEF OweSlot
      <4>. QED  BY <1>0, <1>1, <1>2, <4>2 DEF OweRound, Owe, OneIf
    <3>4. Debt'
      BY <1>1, <1>2, <1>4, <2>3, <3>1, <3>3 DEF Debt
    <3>. QED  BY <1>1, <1>2, <1>4, <2>1, <3>4 DEF Counted
  <2>. QED  BY <1>1, <2>2, <2>3
<1>. QED  BY <1>3, <1>4 DEF NextSlot

(* Passing a closed site leaves the debt as it is; in a slot that no site    *)
(* took, all of it is paid.  Sending a slot takes it off the debt.           *)
LEMMA SendCounts ==
  ASSUME TypeOK, TypeOK', Orderly, Counted, SkipSite \/ SendTo PROVE Counted'
<1>. USE DEF env
<1>0. /\ Unsent \in Nat /\ Taken \in Nat /\ changes \in Nat
      /\ Unsent' \in Nat /\ Taken' \in Nat
  BY CountFacts, CountSteps
<1>1. /\ spc = "send" /\ iLoop \in Places /\ buf[iLoop] \in Message /\ buf[iLoop] # Free
      /\ jLoop \in Sites /\ (~(jLoop < NSites) => jLoop = NSites)
      /\ iLoop' = iLoop /\ ServerOpen' = ServerOpen /\ changes' = changes
  <2>1. /\ spc = "send" /\ iLoop' = iLoop /\ ServerOpen' = ServerOpen /\ changes' = changes
    BY DEF SkipSite, SendTo
  <2>2. iLoop \in Places /\ buf[iLoop] \in Message /\ buf[iLoop] # Free
    BY <2>1 DEF TypeOK, Orderly, Rounds
  <2>3. ~(jLoop < NSites) => jLoop = NSites
    BY UpReportAssumption DEF TypeOK, Sites, UpReportAssumption
  <2>. QED  BY <2>1, <2>2, <2>3 DEF TypeOK
<1>2. 2 * Taken <= changes + 5 /\ changes + 5 \in Int /\ (Settled \/ Debt)
  BY <1>0, <1>1 DEF Counted
<1>3. /\ \A d : Owe(d)' = Owe(d)
      /\ OweRound' = OweRound
      /\ Owe(1) \in Int /\ Owe(5) \in Int /\ OweRound \in Int
  BY <1>0, <1>1 DEF Owe, OweRound, SomeOpen, OneIf
<1>4. CASE SkipSite
  <2>1. /\ SiteDone(buf, ServerOpenflag)
        /\ ~ServerOpen[jLoop] /\ ServerOpenflag' = ServerOpenflag
    BY <1>4 DEF SkipSite
  <2>2. CASE jLoop < NSites
    <3>1. jLoop' = jLoop + 1 /\ buf' = buf /\ spc' = "send"
      BY <1>1, <2>1, <2>2 DEF SiteDone
    <3>2. Unsent' = Unsent /\ Taken' = Taken
      BY <3>1 DEF Unsent, Taken, In
    <3>3. OweSlot' = OweSlot
      <4>1. Passed' = Passed \cup {jLoop}
        <5>1. \A s \in Sites : s < jLoop + 1 <=> s < jLoop \/ s = jLoop
          BY <1>1 DEF Sites
        <5>. QED  BY <1>1, <3>1, <5>1 DEF Passed
      <4>2. /\ SomeOpen(Passed)' = SomeOpen(Passed)
            /\ SomeOpen(Sites \ Passed)' = SomeOpen(Sites \ Passed)
        BY <1>1, <2>1, <4>1 DEF SomeOpen
      <4>. QED  BY <1>1, <4>2 DEF OweSlot
    <3>4. Settled => Settled'
      BY <1>3, <3>2 DEF Settled
    <3>5. Debt => Debt'
      BY <1>1, <1>3, <2>1, <3>1, <3>2, <3>3 DEF Debt
    <3>. QED  BY <1>1, <1>2, <2>1, <3>1, <3>2, <3>4, <3>5 DEF Counted
  <2>3. CASE ~(jLoop < NSites) /\ ServerOpenflag
    <3>1. spc' = "next" /\ buf' = buf
      BY <2>1, <2>3 DEF SiteDone
    <3>2. Unsent' = Unsent /\ Taken' = Taken
      BY <3>1 DEF Unsent, Taken, In
    <3>3. Settled => Settled'
      BY <1>3, <3>2 DEF Settled
    <3>4. ASSUME Debt, buf[iLoop].IsUse = "sending" PROVE Settled
      <4>1. 2 * Unsent <= OweSlot
        BY <1>1, <2>3, <3>4 DEF Debt
      <4>2. Sites = Passed \cup {jLoop} /\ Sites \ Passed = {jLoop}
        <5>1. \A s \in Sites : s < jLoop <=> s # jLoop
          BY <1>1, <2>3, UpReportAssumption DEF Sites, UpReportAssumption
        <5>. QED  BY <1>1, <5>1 DEF Passed
      <4>3. SomeOpen(Passed) = SomeOpen(Sites) /\ ~SomeOpen(Sites \ Passed)
        BY <2>1, <4>2 DEF SomeOpen
      <4>. QED  BY <1>0, <4>1, <4>3 DEF Settled, Owe, OweSlot, OneIf
    <3>5. ASSUME Debt, buf[iLoop].IsUse # "sending" PROVE Debt'
      BY <1>1, <1>3, <2>1, <2>3, <3>1, <3>2, <3>5 DEF Debt
    <3>. QED  BY <1>1, <1>2, <3>1, <3>2, <3>3, <3>4, <3>5 DEF Counted
  <2>4. CASE ~(jLoop < NSites) /\ ~ServerOpenflag
    <3>1. /\ spc' = "next"
          /\ \A k \in Places : k # iLoop => buf'[k] = buf[k]
          /\ buf'[iLoop].IsUse = "waiting"
      <4>1. spc' = "next" /\ buf' = [buf EXCEPT ![iLoop].IsUse = "waiting"]
        BY <2>1, <2>4 DEF SiteDone
      <4>. QED  BY <1>1, <4>1 DEF TypeOK, Message
    <3>2. Unsent' <= Unsent /\ Taken' <= Taken
      BY <1>1, <3>1, CountSteps
    <3>3. 2 * Taken' <= changes + 5
      BY <1>0, <1>2, <3>2, Doubling
    <3>4. Settled => Settled'
      <4>1. Settled => 2 * Unsent' <= Owe(1)
        BY <1>0, <1>3, <3>2, Doubling DEF Settled
      <4>. QED  BY <1>3, <4>1 DEF Settled
    <3>5. Debt => Debt'
      <4>1. Debt => 2 * Unsent' <= Owe(5)
        BY <1>0, <1>3, <2>4, <3>2, Doubling DEF Debt
      <4>. QED  BY <1>1, <1>3, <2>1, <2>4, <3>1, <4>1 DEF Debt
    <3>. QED  BY <1>1, <1>2, <3>1, <3>3, <3>4, <3>5 DEF Counted
  <2>. QED  BY <2>2, <2>3, <2>4
<1>5. CASE SendTo
  <2>. DEFINE b == [buf EXCEPT ![iLoop].IsUse = "waiting",
                               ![iLoop].SendTimes = @ \cup {jLoop}]
  <2>1. SiteDone(b, TRUE) /\ ServerOpen[jLoop] /\ ServerOpenflag' = TRUE
    BY <1>5 DEF SendTo
  <2>2. buf' = b /\ spc' \in {"send", "next"}
    BY <1>1, <2>1 DEF SiteDone
  <2>3. /\ \A k \in Places : k # iLoop => buf'[k] = buf[k]
        /\ buf'[iLoop].IsUse = "waiting"
    BY <1>1, <2>2 DEF TypeOK, Message
  <2>. HIDE DEF b
  <2>4. /\ Unsent' <= Unsent /\ Taken' <= Taken
        /\ buf[iLoop].IsUse = "sending" => Unsent' <= Unsent - 1
    BY <1>1, <2>3, CountSteps
  <2>5. 2 * Taken' <= changes + 5
    BY <1>0, <1>2, <2>4, Doubling
  <2>6. Settled => Settled'
    <3>1. Settled => 2 * Unsent' <= Owe(1)
      BY <1>0, <1>3, <2>4, Doubling DEF Settled
    <3>. QED  BY <1>3, <3>1 DEF Settled
  <2>7. ASSUME Debt PROVE Debt'
    <3>1. 2 * Unsent' <= OweRound
      <4>1. CASE ServerOpenflag
        BY <1>0, <1>3, <2>4, <2>7, <4>1, Doubling DEF Debt
      <4>2. CASE ~ServerOpenflag
        <5>1. Unsent' <= Unsent - 1 /\ 2 * Unsent <= Owe(5)
          BY <1>1, <2>4, <2>7, <4>2 DEF Counted, Debt
        <5>2. Owe(5) - 2 = OweRound
          <6>1. OneIf(SomeOpen(Sites)) = 1
            BY <1>1, <2>1 DEF OneIf, SomeOpen
          <6>. QED  BY <1>0, <6>1 DEF Owe, OweRound
        <5>. QED  BY <1>0, <1>3, <5>1, <5>2, Doubling
      <4>. QED  BY <4>1, <4>2 DEF TypeOK
    <3>. QED  BY <1>1, <1>3, <2>1, <2>3, <2>7, <3>1 DEF Debt
  <2>. QED  BY <1>1, <1>2, <2>1, <2>2, <2>5, <2>6, <2>7 DEF Counted
<1>. QED  BY <1>4, <1>5

(* Opening or closing a site pays at least as much as it takes: a site is    *)
(* either among those passed or among those to come.                         *)
LEMMA SaveCounts ==
  ASSUME TypeOK, Counted, NEW t \in Sites, SaveSite(t) PROVE Counted'
<1>0. /\ Unsent \in Nat /\ Taken \in Nat /\ changes \in Nat
  BY CountFacts
<1>1. /\ UNCHANGED own /\ changes' = changes + 1
      /\ \A s \in Sites : s # t => ServerOpen'[s] = ServerOpen[s]
  BY DEF SaveSite, TypeOK
<1>2. /\ UNCHANGED <<buf, spc, iLoop, jLoop, ServerOpenflag>>
      /\ Unsent' = Unsent /\ Taken' = Taken /\ Passed' = Passed
      /\ In("waiting")' = In("waiting")
  BY <1>1 DEF own, Unsent, Taken, In, Passed
<1>3. \A d \in Nat : Owe(d) \in Int /\ Owe(d)' \in Int /\ Owe(d) <= Owe(d)'
  BY <1>0, <1>1 DEF Owe, OneIf
<1>4. OweRound \in Int /\ OweRound' \in Int /\ OweRound <= OweRound'
  BY <1>0, <1>1 DEF OweRound, OneIf
<1>5. OweSlot \in Int /\ OweSlot' \in Int /\ OweSlot <= OweSlot'
  <2>1. CASE t \in Passed
    <3>1. SomeOpen(Sites \ Passed)' = SomeOpen(Sites \ Passed)
      BY <1>1, <1>2, <2>1 DEF SomeOpen
    <3>. QED  BY <1>0, <1>1, <3>1 DEF OweSlot, OneIf
  <2>2. CASE t \notin Passed
    <3>1. SomeOpen(Passed)' = SomeOpen(Passed)
      BY <1>1, <1>2, <2>2 DEF SomeOpen, Passed
    <3>. QED  BY <1>0, <1>1, <3>1 DEF OweSlot, OneIf
  <2>. QED  BY <2>1, <2>2
<1>6. 2 * Taken <= changes + 5 => 2 * Taken' <= changes' + 5
  <2>1. changes + 5 \in Int /\ changes' + 5 \in Int /\ changes + 5 <= changes' + 5
    BY <1>0, <1>1
  <2>. QED  BY <1>0, <1>2, <2>1, DoubleBelow
<1>7. /\ Settled => Settled'
      /\ \A d \in Nat : 2 * Unsent <= Owe(d) => 2 * Unsent' <= Owe(d)'
  <2>1. \A d \in Nat : 2 * Unsent <= Owe(d) => 2 * Unsent' <= Owe(d)'
    BY <1>0, <1>2, <1>3, DoubleBelow
  <2>. QED  BY <2>1 DEF Settled
<1>8. Debt => Debt'
  <2>1. /\ 2 * Unsent <= OweRound => 2 * Unsent' <= OweRound'
        /\ 2 * Unsent <= OweSlot => 2 * Unsent' <= OweSlot'
    BY <1>0, <1>2, <1>4, <1>5, DoubleBelow
  <2>. QED  BY <1>2, <1>7, <2>1 DEF Debt
<1>. QED  BY <1>2, <1>6, <1>7, <1>8 DEF Counted

LEMMA OtherCounts ==
  ASSUME TypeOK, TypeOK', Counted,
         \/ Surroundings \/ Die \/ NullCall \/ UNCHANGED vars
         \/ \E v \in Openings : ControlBoots(v)
  PROVE  Counted'
<1>0. Unsent' \in Nat /\ Taken' \in Nat /\ changes \in Nat /\ changes' \in Nat
  BY CountFacts, CountSteps, UpReportAssumption DEF TypeOK, UpReportAssumption
<1>1. CASE Die \/ NullCall
  <2>1. buf' = [k \in Places |-> Free] /\ spc' = "wait"
    BY <1>1 DEF Die, NullCall, Restart
  <2>2. In("sending")' = {} /\ (Places \ In("null"))' = {}
    BY <2>1, MessageFacts DEF In
  <2>3. Unsent' = 0 /\ Taken' = 0
    BY <2>2, FS_EmptySet DEF Unsent, Taken
  <2>4. Owe(1)' \in Nat /\ changes' + 5 \in Nat
    <3>1. ServerOpen' = ServerOpen /\ changes' = changes
      BY <1>1 DEF Die, NullCall, Restart
    <3>2. Owe(1) \in Nat /\ Owe(1)' = Owe(1) /\ changes + 5 \in Nat
      BY <1>0, <3>1 DEF Owe, SomeOpen, OneIf
    <3>. QED  BY <3>1, <3>2
  <2>5. \A v, c \in Nat : v = 0 => 2 * v <= c
    OBVIOUS
  <2>6. Settled' /\ 2 * Taken' <= changes' + 5
    BY <1>0, <2>3, <2>4, <2>5 DEF Settled
  <2>. QED  BY <2>1, <2>6 DEF Counted
<1>2. CASE \E s \in Sites : SaveSite(s)
  BY <1>2, SaveCounts
<1>3. CASE UNCHANGED <<own, ServerOpen, changes>>
  <2>1. /\ UNCHANGED <<buf, spc, iLoop, jLoop, ServerOpenflag, ServerOpen, changes>>
        /\ Unsent' = Unsent /\ Taken' = Taken
        /\ In("waiting")' = In("waiting")
    BY <1>3 DEF own, Unsent, Taken, In
  <2>2. (\A d : Owe(d)' = Owe(d)) /\ OweRound' = OweRound /\ OweSlot' = OweSlot
    BY <2>1 DEF Owe, OweRound, OweSlot, SomeOpen, Passed
  <2>. QED  BY <2>1, <2>2 DEF Counted, Settled, Debt
<1>4. \/ Die \/ NullCall \/ (\E s \in Sites : SaveSite(s))
      \/ UNCHANGED <<own, ServerOpen, changes>>
  BY DEF Surroundings, Connect, LinkFails, Noticed, SetLink, Drift, DataprocReads,
         ControlBoots, vars, env
<1>. QED  BY <1>1, <1>2, <1>3, <1>4

(* At most two messages, and one more for every close and open of a site     *)
(* (BufferBound), whatever the number of sites, slots and changes.           *)
THEOREM BufferStaysSmall == Spec => []BufferBound
<1>1. Init => Counted
  <2>. SUFFICES ASSUME Init PROVE Counted
    OBVIOUS
  <2>1. spc = "wait" /\ changes = 0 /\ In("sending") = {} /\ Places \ In("null") = {}
    BY MessageFacts DEF Init, In
  <2>2. Unsent = 0 /\ Taken = 0
    BY <2>1, FS_EmptySet DEF Unsent, Taken
  <2>. QED  BY <2>1, <2>2 DEF Counted, Settled, Owe, OneIf
<1>2. (TypeOK /\ Orderly) /\ (TypeOK /\ Orderly)' /\ Counted /\ [Next]_vars => Counted'
  BY CycleCounts, NextSlotCounts, SendCounts, OtherCounts DEF Next, Thread
<1>3. TypeOK /\ Counted => BufferBound
  <2>. SUFFICES ASSUME TypeOK, Counted PROVE BufferBound
    OBVIOUS
  <2>1. Taken \in Nat /\ changes \in Nat /\ 2 * Taken <= changes + 5
    BY CountFacts DEF Counted
  <2>2. \A u, c \in Nat : 2 * u <= c + 5 => u <= 2 + (c + 1) \div 2
    OBVIOUS
  <2>. QED  BY <2>1, <2>2 DEF BufferBound, Taken
<1>. QED  BY <1>1, <1>2, <1>3, OrderlyAlways, PTL DEF Spec
-----------------------------------------------------------------------------
(* What CycleEnds rests on beside the fairness of the thread: how far it is  *)
(* from going to sleep.  Compared stage first, then what the stage has still *)
(* to do, then the attempts or the sites left for the slot in hand.          *)
Stage   == CASE spc \in {"wait", "sleep"} -> 0
             [] spc \in {"next", "send"}  -> 1
             [] spc = "beat"              -> 2
             [] spc = "decide"            -> 3
             [] spc \in {"clear", "log"}  -> 4
InStage == CASE spc \in {"clear", "log"} -> Cardinality(In("waiting"))
             [] spc \in {"next", "send"} -> Slots - iLoop
             [] OTHER                    -> 0
InSlot  == CASE spc = "clear" -> Retries + 1
             [] spc = "log"   -> Retries - tries
             [] spc = "send"  -> NSites + 1 - jLoop
             [] OTHER         -> 0

Nearer == \/ Stage' < Stage
          \/ /\ Stage' = Stage
             /\ \/ InStage' < InStage
                \/ InStage' = InStage /\ InSlot' < InSlot

(* The slot whose message is being logged is one of those to clear.          *)
Logging == spc = "log" => buf[iLoop].IsUse = "waiting"

LEMMA LoggingKept ==
  ASSUME TypeOK, Logging, [Next]_vars
  PROVE  Logging'
<1>. USE DEF env, own, vars
<1>1. CASE UNCHANGED own
  BY <1>1 DEF Logging
<1>2. CASE ClearStatus
  BY <1>2 DEF ClearStatus, Lowest, In, Logging
<1>3. CASE RetryLog
  BY <1>3 DEF RetryLog, Logging
<1>4. CASE spc' # "log"
  BY <1>4 DEF Logging
<1>5. UNCHANGED own \/ ClearStatus \/ RetryLog \/ spc' # "log"
  <2>1. CASE SkipSite \/ SendTo
    BY <2>1 DEF SkipSite, SendTo, SiteDone
  <2>2. CASE Thread /\ ~(SkipSite \/ SendTo)
    BY <2>2 DEF Thread, Start, Wake, ClearBeat, Log, GiveUpLog, Cleared, Decide,
                InsertBeat, NextSlot, NullCall, Restart
  <2>3. CASE ~Thread
    BY <2>3 DEF Next, Surroundings, SaveSite, Connect, LinkFails, Noticed, SetLink,
                Drift, DataprocReads, ControlBoots, Die, Restart
  <2>. QED  BY <2>1, <2>2, <2>3
<1>. QED  BY <1>1, <1>2, <1>3, <1>4, <1>5

LEMMA StageRange ==
  ASSUME TypeOK
  PROVE  /\ Stage \in 0..4 /\ InStage \in Nat /\ InSlot \in Nat
         /\ (Stage = 0 <=> spc \in {"wait", "sleep"})
<1>1. /\ Slots - iLoop \in Nat /\ NSites + 1 - jLoop \in Nat
      /\ Retries + 1 \in Nat /\ Retries - tries \in Nat
  BY UpReportAssumption DEF TypeOK, Sites, UpReportAssumption
<1>2. Cardinality(In("waiting")) \in Nat
  <2>1. In("waiting") \in SUBSET Places
    BY DEF In
  <2>. QED  BY <2>1, SlotSets
<1>3. /\ Stage \in 0..4 /\ (Stage = 0 <=> spc \in {"wait", "sleep"})
  BY DEF Stage, TypeOK
<1>4. InStage \in Nat
  BY <1>1, <1>2 DEF InStage, TypeOK
<1>5. InSlot \in Nat
  BY <1>1 DEF InSlot, TypeOK
<1>. QED  BY <1>3, <1>4, <1>5

(* A message is cleared for good: the rest is less by one.                   *)
LEMMA ClearedOne ==
  ASSUME TypeOK, TypeOK', NEW k \in Places, buf[k].IsUse = "waiting",
         buf' = [buf EXCEPT ![k] = Free],
         spc \in {"clear", "log"}, spc' = "clear"
  PROVE  Nearer
<1>1. In("waiting")' \subseteq In("waiting") \ {k} /\ k \in In("waiting")
  BY MessageFacts DEF In, TypeOK
<1>2. In("waiting") \in SUBSET Places /\ In("waiting")' \in SUBSET Places
  BY DEF In
<1>3. /\ Cardinality(In("waiting")) \in Nat /\ Cardinality(In("waiting")') \in Nat
      /\ Cardinality(In("waiting")') <= Cardinality(In("waiting")) - 1
  BY <1>1, <1>2, SlotSets
<1>4. /\ Stage = 4 /\ InStage = Cardinality(In("waiting"))
      /\ Stage' = 4 /\ InStage' = Cardinality(In("waiting")')
  BY DEF Stage, InStage
<1>. QED  BY <1>3, <1>4 DEF Nearer

LEMMA ThreadNearer ==
  ASSUME TypeOK, TypeOK', Orderly, Logging, Thread, spc \notin {"wait", "sleep"}
  PROVE  Nearer
<1>. USE DEF env
<1>1. CASE ClearBeat
  <2>1. PICK k \in Places : Lowest(k, In("waiting")) /\ buf' = [buf EXCEPT ![k] = Free]
    BY <1>1 DEF ClearBeat
  <2>2. buf[k].IsUse = "waiting" /\ spc = "clear" /\ spc' = "clear"
    BY <1>1, <2>1 DEF ClearBeat, Lowest, In
  <2>. QED  BY <2>1, <2>2, ClearedOne
<1>2. CASE Log \/ GiveUpLog
  <2>1. /\ spc = "log" /\ spc' = "clear" /\ buf' = [buf EXCEPT ![iLoop] = Free]
    BY <1>2 DEF Log, GiveUpLog
  <2>2. iLoop \in Places /\ buf[iLoop].IsUse = "waiting"
    BY <2>1 DEF Logging, Orderly, Rounds
  <2>. QED  BY <2>1, <2>2, ClearedOne
<1>3. CASE ClearStatus \/ RetryLog
  <2>1. /\ In("waiting")' = In("waiting")
        /\ \/ spc = "clear" /\ spc' = "log" /\ tries' = tries
           \/ spc = "log" /\ spc' = "log" /\ tries' = tries + 1
    BY <1>3 DEF ClearStatus, RetryLog, In
  <2>2. Stage = 4 /\ Stage' = 4 /\ InStage' = InStage
    BY <2>1 DEF Stage, InStage
  <2>3. InSlot' < InSlot
    <3>1. /\ Retries - tries < Retries + 1 /\ Retries - (tries + 1) < Retries - tries
      BY UpReportAssumption DEF TypeOK, UpReportAssumption
    <3>. QED  BY <2>1, <3>1 DEF InSlot
  <2>. QED  BY <2>2, <2>3 DEF Nearer
<1>4. CASE Cleared \/ Decide \/ InsertBeat
  <2>1. \/ spc = "clear" /\ spc' = "decide"
        \/ spc = "decide" /\ spc' = "beat"
        \/ spc = "beat" /\ spc' = "next"
    BY <1>4 DEF Cleared, Decide, InsertBeat
  <2>2. Stage' < Stage
    BY <2>1 DEF Stage
  <2>. QED  BY <2>2 DEF Nearer
<1>5. CASE NextSlot
  <2>1. CASE spc' = "sleep"
    <3>1. Stage = 1 /\ Stage' = 0
      BY <1>5, <2>1 DEF NextSlot, Stage
    <3>. QED  BY <3>1 DEF Nearer
  <2>2. ASSUME NEW k \in Places, Lowest(k, Later), iLoop' = k, spc' = "send"
        PROVE  Nearer
    <3>1. k > iLoop /\ spc = "next"
      BY <1>5, <2>2 DEF NextSlot, Lowest, Later
    <3>2. Slots - k < Slots - iLoop
      BY <3>1, UpReportAssumption DEF TypeOK, Places, UpReportAssumption
    <3>3. Stage = 1 /\ Stage' = 1 /\ InStage = Slots - iLoop /\ InStage' = Slots - k
      BY <2>2, <3>1 DEF Stage, InStage
    <3>. QED  BY <3>2, <3>3 DEF Nearer
  <2>. QED  BY <1>5, <2>1, <2>2 DEF NextSlot
<1>6. CASE SkipSite \/ SendTo
  <2>1. /\ spc = "send" /\ iLoop' = iLoop
        /\ \/ spc' = "send" /\ jLoop' = jLoop + 1
           \/ spc' = "next"
    BY <1>6 DEF SkipSite, SendTo, SiteDone
  <2>2. Stage = 1 /\ Stage' = 1 /\ InStage' = InStage
    BY <2>1 DEF Stage, InStage
  <2>3. InSlot' < InSlot
    <3>1. 0 < NSites + 1 - jLoop /\ NSites + 1 - (jLoop + 1) < NSites + 1 - jLoop
      BY UpReportAssumption DEF TypeOK, Sites, UpReportAssumption
    <3>. QED  BY <2>1, <3>1 DEF InSlot
  <2>. QED  BY <2>2, <2>3 DEF Nearer
<1>7. CASE NullCall
  <2>1. Stage = 1 /\ Stage' = 0
    BY <1>7 DEF NullCall, Restart, Stage
  <2>. QED  BY <2>1 DEF Nearer
<1>8. ~Start /\ ~Wake
  BY DEF Start, Wake
<1>. QED  BY <1>1, <1>2, <1>3, <1>4, <1>5, <1>6, <1>7, <1>8 DEF Thread

(* Every step of the thread in its cycle brings it nearer to its sleep, and  *)
(* nobody else takes it further away: not a dead dataproc, not a full queue, *)
(* not the links, not the settings page (tcp_client 69-155,                  *)
(* tinz_pub_message 62-69).                                                  *)
THEOREM CycleCountsDown ==
  Spec => /\ [](/\ Stage \in 0..4 /\ InStage \in Nat /\ InSlot \in Nat
                /\ (Stage = 0 <=> spc \in {"wait", "sleep"}))
          /\ [][spc \notin {"wait", "sleep"} =>
                 IF Thread THEN Nearer
                           ELSE Nearer \/ UNCHANGED <<Stage, InStage, InSlot>>]_vars
<1>1. Init => Logging
  BY DEF Init, Logging
<1>2. (TypeOK /\ Orderly) /\ Logging /\ [Next]_vars => Logging'
  BY LoggingKept
<1>3. (TypeOK /\ Orderly) /\ (TypeOK /\ Orderly)' /\ Logging /\ [Next]_vars =>
        [spc \notin {"wait", "sleep"} =>
           IF Thread THEN Nearer
                     ELSE Nearer \/ UNCHANGED <<Stage, InStage, InSlot>>]_vars
  <2>. SUFFICES ASSUME TypeOK, TypeOK', Orderly, Logging, Next, ~Thread,
                       spc \notin {"wait", "sleep"}
                PROVE  Nearer \/ UNCHANGED <<Stage, InStage, InSlot>>
    BY ThreadNearer
  <2>1. CASE UNCHANGED own
    BY <2>1 DEF own, Stage, InStage, InSlot, In
  <2>2. CASE Die
    <3>1. Stage \in 1..4 /\ Stage' = 0
      BY <2>2 DEF Die, Restart, Stage, TypeOK
    <3>. QED  BY <3>1 DEF Nearer
  <2>. QED
    BY <2>1, <2>2 DEF Next, Surroundings, SaveSite, Connect, LinkFails, Noticed,
                      SetLink, Drift, DataprocReads, ControlBoots
<1>4. TypeOK => /\ Stage \in 0..4 /\ InStage \in Nat /\ InSlot \in Nat
                /\ (Stage = 0 <=> spc \in {"wait", "sleep"})
  BY StageRange
<1>. QED  BY <1>1, <1>2, <1>3, <1>4, OrderlyAlways, PTL DEF Spec
=============================================================================

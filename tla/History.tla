------------------------------ MODULE History ------------------------------
(***************************************************************************)
(* A history query.  The statistics page of the interface writes the fields *)
(* of a request into the history segment one by one, raises flag to 1 and   *)
(* waits in the GUI thread, a second at a time; dataproc, which polls flag  *)
(* between two rounds of storing data, reads the fields one by one, selects *)
(* from the table they name, writes the rows and raises flag to 2.  There   *)
(* is no lock and no number on a request.                                   *)
(*                                                                          *)
(* The page tests the terms of a request only after it raised flag, and     *)
(* neither a refused nor a timed-out request is withdrawn.  dataproc zeroes *)
(* the segment whenever it starts.                                          *)
(***************************************************************************)
EXTENDS Integers, Sequences, FiniteSets

CONSTANTS
  Rows,      \* what may get stored: <<data type, pollutant, time>>
  Asks,      \* requests: <<data type, pollutant, start, stop>>
  MaxSpan,   \* longest span of a real-time request, 6 hours
  MaxDays,   \* longest span of a request for days, 180 of them
  PerMonth,  \* times in a month: one real-time table each
  Limit,     \* HISTORYCNT
  Waits      \* seconds the page waits

ASSUME HistoryAssumption ==
  /\ Rows \subseteq (Nat \ {0}) \X Nat \X Nat
  /\ Asks \subseteq (Nat \ {0}) \X Nat \X Nat \X Nat
  /\ MaxSpan \in Nat /\ MaxDays \in Nat /\ Waits \in Nat
  /\ PerMonth \in Nat \ {0}
  /\ Limit \in Nat \ {0}

Rtd  == 1                       \* the data type with a table for each month
Day  == 2
Zero == <<0, 0, 0, 0>>
None == <<0, 0, 0>>             \* an empty row

VARIABLES
  stored,                  \* what the database holds
  flag, req, cnt, row,     \* the history segment
  wpc, asked, n, waits,    \* the page, what it asks, its loop counters
  time, seen,              \* a row half read, the rows it has shown
  late,                    \* history: a former request was open at the click
  old,                     \* history: what was stored when flag was raised
  dpc, got, sel            \* dataproc, the fields it read, the rows to write

page    == <<wpc, asked, n, waits, time, seen, late, old>>
daemon  == <<dpc, got, sel>>
segment == <<flag, req, cnt, row>>
vars    == <<stored, segment, page, daemon>>

Init ==
  /\ stored = {}
  /\ flag = 0 /\ req = Zero /\ cnt = 0 /\ row = [i \in 1..Limit |-> None]
  /\ wpc = "idle" /\ asked = Zero /\ n = 0 /\ waits = 0
  /\ time = 0 /\ seen = {} /\ late = FALSE /\ old = {}
  /\ dpc = "idle" /\ got = <<>> /\ sel = {}

-----------------------------------------------------------------------------
(* The page.                                                                *)
Click(a) ==
  /\ wpc = "idle"
  /\ wpc' = "fill" /\ asked' = a /\ n' = 1 /\ waits' = 0
  /\ time' = 0 /\ seen' = {} /\ late' = (flag = 1)
  /\ UNCHANGED <<stored, segment, daemon, old>>

(* Mutant of FillOrder: the data type comes last.                           *)
FillOrderTypeLast == <<2, 3, 4, 1>>

FillOrder == <<1, 2, 3, 4>>

Fill ==
  /\ wpc = "fill"
  /\ req' = [req EXCEPT ![FillOrder[n]] = asked[FillOrder[n]]]
  /\ n' = n + 1
  /\ wpc' = IF n = 4 THEN "clear" ELSE "fill"
  /\ UNCHANGED <<stored, flag, cnt, row, daemon, asked, waits, time, seen, late,
                 old>>

(* Mutant of Clear: cnt is cleared once more after flag was raised.         *)
ClearLate ==
  /\ wpc \in {"clear", "check"}
  /\ cnt' = 0
  /\ wpc' = IF wpc = "clear" THEN "raise" ELSE "check"
  /\ UNCHANGED <<stored, flag, req, row, daemon, asked, n, waits, time, seen,
                 late, old>>

Clear ==
  /\ wpc = "clear"
  /\ cnt' = 0
  /\ wpc' = "raise"
  /\ UNCHANGED <<stored, flag, req, row, daemon, asked, n, waits, time, seen,
                 late, old>>

Raise ==
  /\ wpc = "raise"
  /\ flag' = 1
  /\ wpc' = "check" /\ old' = stored
  /\ UNCHANGED <<stored, req, cnt, row, daemon, asked, n, waits, time, seen,
                 late>>

(* query_term_check, after the request is out.                              *)
Proper(a) ==
  /\ a[3] <= a[4]
  /\ a[1] = Rtd => a[4] - a[3] <= MaxSpan
  /\ a[1] = Day => a[4] - a[3] <= MaxDays

(* The handler returns.                                                     *)
Home == /\ wpc' = "idle" /\ asked' = Zero /\ n' = 0 /\ waits' = 0
        /\ time' = 0 /\ seen' = {} /\ late' = FALSE /\ old' = {}

Check ==
  /\ wpc = "check"
  /\ IF Proper(asked)
       THEN wpc' = "wait" /\ UNCHANGED <<asked, n, waits, time, seen, late, old>>
       ELSE Home
  /\ UNCHANGED <<stored, segment, daemon>>

(* Mutant of Wait: the seconds are not counted.                             *)
WaitUncounted == wpc = "wait" /\ flag # 2 /\ UNCHANGED vars

Wait ==
  /\ wpc = "wait" /\ flag # 2 /\ waits < Waits
  /\ waits' = waits + 1
  /\ UNCHANGED <<stored, segment, daemon, wpc, asked, n, time, seen, late, old>>

(* The end of the wait, and flag and cnt are looked at once more.           *)
Waited ==
  /\ wpc = "wait"
  /\ flag = 2 \/ waits = Waits
  /\ wpc' = "test"
  /\ UNCHANGED <<stored, segment, daemon, asked, n, waits, time, seen, late, old>>

(* The rows, or a message box.                                              *)
Show ==
  /\ wpc = "test" /\ flag = 2 /\ cnt > 0
  /\ wpc' = "show" /\ n' = 0 /\ waits' = 0
  /\ UNCHANGED <<stored, segment, daemon, asked, time, seen, late, old>>

NothingFound ==
  /\ wpc = "test" /\ ~(flag = 2 /\ cnt > 0)
  /\ Home
  /\ UNCHANGED <<stored, segment, daemon>>

(* ShowData: the test of the loop, then the time of the row, then its value, *)
(* which stands for the table it is from.  A dataproc that starts in between *)
(* takes the rest of the row away.                                          *)
TestRow ==
  /\ wpc = "show" /\ n < cnt
  /\ wpc' = "time"
  /\ UNCHANGED <<stored, segment, daemon, asked, n, waits, time, seen, late, old>>

ReadTime ==
  /\ wpc = "time"
  /\ time' = row[n + 1][3]
  /\ wpc' = "value"
  /\ UNCHANGED <<stored, segment, daemon, asked, n, waits, seen, late, old>>

ReadValue ==
  /\ wpc = "value"
  /\ seen' = seen \cup {<<row[n + 1][1], row[n + 1][2], time>>}
  /\ n' = n + 1
  /\ wpc' = "show"
  /\ UNCHANGED <<stored, segment, daemon, asked, waits, time, late, old>>

Shown ==
  /\ wpc = "show" /\ n >= cnt
  /\ Home
  /\ UNCHANGED <<stored, segment, daemon>>

InterfaceDies ==
  /\ wpc # "idle"
  /\ Home
  /\ UNCHANGED <<stored, segment, daemon>>

Handler == Fill \/ Clear \/ Raise \/ Check \/ Wait \/ Waited \/ Show
           \/ NothingFound \/ TestRow \/ ReadTime \/ ReadValue \/ Shown

-----------------------------------------------------------------------------
(* dataproc: it stores what its queues bring before it looks at flag.       *)
Store(r) ==
  /\ dpc = "idle" /\ r \notin stored
  /\ stored' = stored \cup {r}
  /\ UNCHANGED <<segment, page, daemon>>

TestFlag ==
  /\ dpc = "idle" /\ flag = 1 /\ req[1] > 0
  /\ dpc' = "read" /\ got' = <<>>
  /\ UNCHANGED <<stored, segment, page, sel>>

(* The pollutant and the type for the table, the start for its month and    *)
(* for the select, the stop.                                                *)
ReadOrder == <<2, 1, 3, 4>>

Read ==
  /\ dpc = "read"
  /\ got' = Append(got, req[ReadOrder[Len(got) + 1]])
  /\ dpc' = IF Len(got') = Len(ReadOrder) THEN "select" ELSE "read"
  /\ UNCHANGED <<stored, segment, page, sel>>

Month(t) == t \div PerMonth
Table == {r \in stored : /\ r[1] = got[2] /\ r[2] = got[1]
                         /\ r[1] = Rtd => Month(r[3]) = Month(got[3])}
Spanned == {r \in Table : got[3] <= r[3] /\ r[3] <= got[4]}
Newer(r, S) == {x \in S : x[3] > r[3]}

(* Mutant of Newest: no limit.                                              *)
NewestAll(S) == S

Newest(S) == {r \in S : Cardinality(Newer(r, S)) < Limit}

(* Mutant of Select: without the table nothing is answered.                 *)
SelectOrLeave ==
  /\ dpc = "select"
  /\ IF Table = {} THEN dpc' = "idle" /\ UNCHANGED <<cnt, sel>>
                   ELSE dpc' = "write" /\ cnt' = 0 /\ sel' = Newest(Spanned)
  /\ UNCHANGED <<stored, flag, req, row, page, got>>

(* A table is made with its first row; the select fails without it, and cnt *)
(* stays as it is.                                                          *)
Select ==
  /\ dpc = "select"
  /\ dpc' = "write"
  /\ sel' = Newest(Spanned)
  /\ cnt' = IF Table = {} THEN cnt ELSE 0
  /\ UNCHANGED <<stored, flag, req, row, page, got>>

WriteRow(r) ==
  /\ dpc = "write"
  /\ r \in sel /\ Newer(r, sel) = {}
  /\ sel' = sel \ {r}
  /\ row' = [row EXCEPT ![cnt + 1] = r]
  /\ cnt' = cnt + 1
  /\ UNCHANGED <<stored, flag, req, page, dpc, got>>

Done ==
  /\ dpc = "write" /\ sel = {}
  /\ flag' = 2
  /\ dpc' = "idle" /\ got' = <<>>
  /\ UNCHANGED <<stored, req, cnt, row, page, sel>>

DataprocDies ==
  /\ dpc' = "idle" /\ got' = <<>> /\ sel' = {}
  /\ flag' = 0 /\ req' = Zero /\ cnt' = 0 /\ row' = [i \in 1..Limit |-> None]
  /\ UNCHANGED <<stored, page>>

Query == TestFlag \/ Read \/ Select \/ (\E r \in Rows : WriteRow(r)) \/ Done

-----------------------------------------------------------------------------
Next ==
  \/ \E a \in Asks : Click(a)
  \/ Handler \/ InterfaceDies
  \/ \E r \in Rows : Store(r)
  \/ Query \/ DataprocDies

Spec == Init /\ [][Next]_vars

(* The page's handler runs to its end; dataproc serves, once it asks.       *)
FairSpec == Spec /\ WF_vars(Handler) /\ WF_vars(Query)

-----------------------------------------------------------------------------
TypeOK ==
  /\ stored \subseteq Rows
  /\ flag \in 0..2 /\ cnt \in 0..Limit
  /\ req \in [1..4 -> Nat]
  /\ row \in [1..Limit -> Rows \cup {None}]
  /\ wpc \in {"idle", "fill", "clear", "raise", "check", "wait", "test",
              "show", "time", "value"}
  /\ asked \in Asks \cup {Zero}
  /\ n \in Nat /\ waits \in 0..Waits
  /\ time \in Nat /\ seen \subseteq Nat \X Nat \X Nat
  /\ late \in BOOLEAN /\ old \subseteq Rows
  /\ dpc \in {"idle", "read", "select", "write"}
  /\ got \in Seq(Nat) /\ Len(got) <= Len(ReadOrder) /\ sel \subseteq Rows

Matches(r) ==
  r[1] = asked[1] /\ r[2] = asked[2] /\ asked[3] <= r[3] /\ r[3] <= asked[4]

ShowsRows == {"show", "time", "value"}

(* The table shows only what was asked for (statisticwidget.cpp 212-219     *)
(* against dataproc.c 373-403), unless a former request was still open: a   *)
(* dataproc that starts and zeroes half a request does not answer it,       *)
(* because the data type is written first and 0 is no type.  One that       *)
(* starts while the rows are shown leaves at most one row without a value,  *)
(* the last of the table (statisticwidget.cpp 121-137, dataproc.c 416).     *)
OnlyAsked ==
  wpc \in ShowsRows /\ ~late =>
    \/ \A r \in seen : Matches(r)
    \/ cnt = 0 /\ \E b \in seen : b[1] = 0 /\ \A r \in seen \ {b} : Matches(r)

(* flag = 2 means that the answer is there (tinz_base_data.h 34): all that  *)
(* was stored when the request was made, from the month of its start and up *)
(* to the limit (dataproc.c 329-340, 380, 400), and nothing of it is lost   *)
(* while it is shown.                                                       *)
Due == {r \in old : Matches(r) /\ (r[1] = Rtd => Month(r[3]) = Month(asked[3]))}
Complete(S) == Due \subseteq S \/ Cardinality(S) = Limit
NoneMissing ==
  wpc \in {"check", "wait", "test"} \cup ShowsRows /\ flag = 2 /\ ~late =>
    /\ Complete({row[i] : i \in 1..cnt})
    /\ wpc = "show" /\ n >= cnt => Complete(seen)

(* The GUI thread comes back from its handler, whatever dataproc does       *)
(* (statisticwidget.cpp 222-231).                                           *)
PageComesBack == wpc = "fill" ~> wpc = "idle"

(* dataproc answers every request it sees, a missing table or a refused     *)
(* request included (dataproc.c 373-404), so that flag does not stay 1 and  *)
(* spoil the next request.                                                  *)
AlwaysAnswered == flag = 1 /\ req[1] > 0 ~> flag # 1
=============================================================================

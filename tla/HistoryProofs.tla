---------------------------- MODULE HistoryProofs ----------------------------
(* Theorems about History, for any rows and requests, any limit on the rows *)
(* of an answer and any time the page waits.                                *)
EXTENDS History, FiniteSetTheorems, TLAPS

LEMMA LeastNatural ==
  ASSUME NEW T, T \subseteq Nat, T # {}
  PROVE  \E m \in T : \A k \in T : m <= k
<1>. DEFINE R == {ss \in Nat \X Nat : ss[1] < ss[2]}
<1>1. IsWellFoundedOn(R, Nat)
  BY NatLessThanWellFounded DEF OpToRel
<1>2. \A x, y \in T : <<y, x>> \in R <=> y < x
  OBVIOUS
<1>. HIDE DEF R
<1>3. PICK m \in T : \A k \in T : <<k, m>> \notin R
  BY <1>1, WFMin
<1>4. \A k \in T : ~(k < m) /\ k \in Nat /\ m \in Nat
  BY <1>2, <1>3
<1>. QED  BY <1>4

LEMMA RowFacts ==
  \A r \in Rows : /\ r[1] \in Nat \ {0} /\ r[2] \in Nat /\ r[3] \in Nat
                  /\ r = <<r[1], r[2], r[3]>>
BY HistoryAssumption DEF HistoryAssumption

LEMMA AskFacts == \A a \in Asks \cup {Zero} : a \in [1..4 -> Nat]
<1>1. Zero \in [1..4 -> Nat]
  BY DEF Zero
<1>2. \A a \in Nat \X Nat \X Nat \X Nat : a \in [1..4 -> Nat]
  OBVIOUS
<1>3. \A a \in Asks : a \in Nat \X Nat \X Nat \X Nat
  BY HistoryAssumption DEF HistoryAssumption
<1>. QED  BY <1>1, <1>2, <1>3

(* The select with its limit: the newest of S, all of them or as many as the *)
(* limit says, provided no two are of the same time.                         *)
LEMMA NewestFacts ==
  ASSUME NEW S, IsFiniteSet(S), \A r \in S : r[3] \in Nat,
         \A r, x \in S : r[3] = x[3] => r = x
  PROVE  /\ Newest(S) \subseteq S /\ IsFiniteSet(Newest(S))
         /\ Cardinality(Newest(S)) <= Limit
         /\ S \subseteq Newest(S) \/ Cardinality(Newest(S)) = Limit
<1>. DEFINE N == Newest(S)
<1>0. Limit \in Nat \ {0}
  BY HistoryAssumption DEF HistoryAssumption
<1>1. N \subseteq S /\ IsFiniteSet(N) /\ Cardinality(N) \in Nat
  BY FS_Subset, FS_CardinalityType DEF Newest
<1>2. \A r : /\ Newer(r, S) \subseteq S /\ IsFiniteSet(Newer(r, S))
             /\ Cardinality(Newer(r, S)) \in Nat
  <2>. SUFFICES ASSUME NEW r
                PROVE  /\ Newer(r, S) \subseteq S /\ IsFiniteSet(Newer(r, S))
                       /\ Cardinality(Newer(r, S)) \in Nat
    OBVIOUS
  <2>1. Newer(r, S) \in SUBSET S
    BY DEF Newer
  <2>. QED  BY <2>1, FS_Subset, FS_CardinalityType
<1>3. \A r \in S : r \in N <=> Cardinality(Newer(r, S)) < Limit
  BY DEF Newest
<1>4. \A r, x \in S : x \in Newer(r, S) <=> x[3] > r[3]
  BY DEF Newer
<1>. HIDE DEF N
<1>5. Cardinality(N) <= Limit
  <2>1. CASE N = {}
    BY <1>0, <2>1, FS_EmptySet
  <2>2. CASE N # {}
    <3>. DEFINE T == {r[3] : r \in N}
    <3>1. T \subseteq Nat /\ T # {}
      BY <1>1, <2>2
    <3>2. PICK m \in N : \A r \in N : m[3] <= r[3]
      <4>1. PICK t \in T : \A k \in T : t <= k
        BY <3>1, LeastNatural
      <4>. QED  BY <4>1
    <3>3. N \ {m} \in SUBSET Newer(m, S)
      <4>. SUFFICES ASSUME NEW r \in N, r # m PROVE r \in Newer(m, S)
        OBVIOUS
      <4>1. r[3] # m[3] /\ r[3] \in Nat /\ m[3] \in Nat
        BY <1>1
      <4>. QED  BY <1>1, <1>4, <3>2, <4>1
    <3>4. Cardinality(N \ {m}) = Cardinality(N) - 1
      BY <1>1, FS_RemoveElement
    <3>5. Cardinality(N \ {m}) <= Cardinality(Newer(m, S))
      BY <1>2, <3>3, FS_Subset
    <3>6. Cardinality(Newer(m, S)) < Limit
      BY <1>1, <1>3
    <3>. QED  BY <1>0, <1>1, <1>2, <3>4, <3>5, <3>6
  <2>. QED  BY <2>1, <2>2
<1>6. ASSUME ~(S \subseteq N) PROVE Cardinality(N) = Limit
  <2>. DEFINE T == {Cardinality(Newer(r, S)) : r \in S \ N}
  <2>1. T \subseteq Nat /\ T # {}
    BY <1>2, <1>6
  <2>2. PICK r \in S \ N :
          \A x \in S \ N : Cardinality(Newer(r, S)) <= Cardinality(Newer(x, S))
    <3>1. PICK t \in T : \A k \in T : t <= k
      BY <2>1, LeastNatural
    <3>. QED  BY <3>1
  <2>3. Newer(r, S) \in SUBSET N
    <3>. SUFFICES ASSUME NEW x \in Newer(r, S), x \notin N PROVE FALSE
      OBVIOUS
    <3>1. x \in S /\ x[3] > r[3] /\ x[3] \in Nat /\ r[3] \in Nat
      BY <1>2, <1>4
    <3>2. Newer(x, S) \in SUBSET Newer(r, S) /\ x \notin Newer(x, S)
      <4>1. \A y \in S : y[3] > x[3] => y[3] > r[3]
        BY <3>1
      <4>2. ~(x[3] > x[3])
        BY <3>1
      <4>. QED  BY <1>2, <1>4, <3>1, <4>1, <4>2
    <3>3. /\ Cardinality(Newer(x, S)) <= Cardinality(Newer(r, S))
          /\ Cardinality(Newer(x, S)) # Cardinality(Newer(r, S))
      BY <1>2, <3>2, FS_Subset
    <3>4. Cardinality(Newer(r, S)) <= Cardinality(Newer(x, S))
      BY <2>2, <3>1
    <3>. QED  BY <1>2, <3>3, <3>4
  <2>4. Cardinality(Newer(r, S)) <= Cardinality(N)
    BY <1>1, <2>3, FS_Subset
  <2>5. Cardinality(Newer(r, S)) >= Limit
    BY <1>0, <1>2, <1>3
  <2>. QED  BY <1>0, <1>1, <1>2, <1>5, <2>4, <2>5
<1>. QED  BY <1>1, <1>5, <1>6 DEF N

-----------------------------------------------------------------------------
Written  == {row[i] : i \in 1..cnt}
Right(S) == (\A r \in S : Matches(r)) /\ Complete(S)

(* dataproc works only while flag is 1, and what it has still to write fits  *)
(* into the segment.                                                         *)
Serving ==
  /\ dpc # "idle" => flag = 1
  /\ dpc = "read" => Len(got) < 4
  /\ dpc \in {"select", "write"} => Len(got) = 4
  /\ sel # {} => dpc = "write"
  /\ dpc = "write" => cnt + Cardinality(sel) <= Limit
  /\ IsFiniteSet(stored) /\ IsFiniteSet(sel) /\ old \subseteq stored

(* A request made with none open has no one to read it before it is raised.  *)
(* A start of dataproc in its middle leaves it without a data type.          *)
Filling ==
  wpc \in {"fill", "clear", "raise", "check", "wait", "test"} =>
    /\ seen = {}
    /\ IF wpc = "fill" THEN n \in 1..4 ELSE n = 5
    /\ wpc \in {"fill", "clear", "raise"} /\ ~late => flag # 1
    /\ wpc = "raise" /\ ~late => cnt = 0
    /\ ~late /\ n > 1 /\ req[1] > 0 => \A i \in 1..4 : i < n => req[i] = asked[i]

(* Such a request is read as it was made, and answered by the rows written   *)
(* and those still to be written.                                            *)
Answering ==
  wpc \in {"check", "wait", "test"} \cup ShowsRows /\ ~late =>
    /\ flag = 0 => cnt = 0
    /\ flag = 1 => wpc \notin ShowsRows /\ (dpc # "write" => cnt = 0)
    /\ dpc # "idle" =>
         req[1] > 0 /\ \A i \in 1..Len(got) : got[i] = asked[ReadOrder[i]]
    /\ dpc = "write" => Right(Written \cup sel)
    /\ flag = 2 => Right(Written)

(* A row is read at the index n + 1.  While the answer is there, all that is *)
(* seen is of it.  When it was taken away in the middle of a row, that row   *)
(* was the last.                                                             *)
Showing ==
  /\ wpc \in {"time", "value"} => n < Limit
  /\ wpc \in ShowsRows /\ ~late =>
       /\ \/ \A r \in seen : Matches(r)
          \/ /\ cnt = 0 /\ wpc = "show"
             /\ \E b \in seen : b[1] = 0 /\ \A r \in seen \ {b} : Matches(r)
       /\ flag = 0 => \A i \in 1..Limit : row[i] = None
       /\ flag = 2 => /\ n <= cnt /\ seen = {row[i] : i \in 1..n}
                      /\ wpc \in {"time", "value"} => n < cnt
                      /\ wpc = "value" => time = row[n + 1][3]

IInv == TypeOK /\ Serving /\ Filling /\ Answering /\ Showing

LEMMA OrderFacts ==
  /\ \A i \in 1..4 : FillOrder[i] = i
  /\ Len(ReadOrder) = 4 /\ \A i \in 1..4 : ReadOrder[i] \in 1..4
  /\ ReadOrder[1] = 2 /\ ReadOrder[2] = 1 /\ ReadOrder[3] = 3 /\ ReadOrder[4] = 4
BY DEF FillOrder, ReadOrder

LEMMA InitHolds == Init => IInv
<1>. SUFFICES ASSUME Init PROVE IInv
  OBVIOUS
<1>1. /\ req \in [1..4 -> Nat] /\ row \in [1..Limit -> Rows \cup {None}]
      /\ asked \in Asks \cup {Zero}
  BY AskFacts DEF Init
<1>2. TypeOK
  <2>1. /\ 0 \in 0..2 /\ 0 \in 0..Limit /\ 0 \in 0..Waits
        /\ <<>> \in Seq(Nat) /\ Len(<<>>) <= Len(ReadOrder)
    BY OrderFacts, HistoryAssumption DEF HistoryAssumption
  <2>. QED  BY <1>1, <2>1 DEF Init, TypeOK
<1>3. IsFiniteSet(stored) /\ IsFiniteSet(sel)
  BY FS_EmptySet DEF Init
<1>. QED  BY <1>2, <1>3 DEF Init, IInv, Serving, Filling, Answering, Showing

(* While the page comes home nothing else changes.                           *)
LEMMA HomeSteps ==
  ASSUME IInv, Home, UNCHANGED <<stored, segment, daemon>> PROVE IInv'
<1>1. TypeOK'
  <2>1. 0 \in 0..Waits /\ 0 \in Nat
    BY HistoryAssumption DEF HistoryAssumption
  <2>2. UNCHANGED <<stored, flag, req, cnt, row, dpc, got, sel>>
    BY DEF segment, daemon
  <2>. QED  BY <2>1, <2>2, Zenon DEF IInv, TypeOK, Home
<1>2. Serving'
  BY DEF IInv, Serving, Home, segment, daemon
<1>. QED  BY <1>1, <1>2 DEF IInv, Home, Filling, Answering, Showing, ShowsRows

(* The page up to the flag: what it writes nobody reads yet.                 *)
LEMMA FillSteps ==
  ASSUME IInv, (\E a \in Asks : Click(a)) \/ Fill \/ Clear \/ Raise PROVE IInv'
<1>. USE DEF segment, daemon
<1>0. TypeOK /\ Serving /\ Filling
  BY DEF IInv
<1>1. CASE \E a \in Asks : Click(a)
  <2>1. TypeOK'
    <3>1. 0 \in 0..Waits /\ 1 \in Nat
      BY HistoryAssumption DEF HistoryAssumption
    <3>2. PICK a \in Asks : Click(a)
      BY <1>1
    <3>3. asked' \in Asks \cup {Zero} /\ late' \in BOOLEAN
      BY <3>2 DEF Click
    <3>. QED  BY <1>0, <3>1, <3>2, <3>3, Zenon DEF TypeOK, Click
  <2>2. Serving'
    BY <1>0, <1>1 DEF Serving, Click
  <2>3. /\ wpc' = "fill" /\ seen' = {} /\ n' = 1
        /\ ~late' => flag' # 1
    BY <1>1 DEF Click
  <2>. QED  BY <2>1, <2>2, <2>3 DEF IInv, Filling, Answering, Showing, ShowsRows
<1>2. CASE Fill
  <2>1. n \in 1..4 /\ FillOrder[n] = n
    BY <1>0, <1>2, OrderFacts DEF Fill, Filling
  <2>2. asked[n] \in Nat /\ req' = [req EXCEPT ![n] = asked[n]]
    BY <1>0, <1>2, <2>1, AskFacts DEF TypeOK, Fill
  <2>3. TypeOK'
    BY SMTT(30), <1>0, <1>2, <2>1, <2>2 DEF TypeOK, Fill
  <2>4. Serving'
    BY <1>0, <1>2 DEF Serving, Fill
  <2>5. Filling'
    BY <1>0, <1>2, <2>1, <2>2 DEF Fill, Filling, TypeOK
  <2>. QED  BY <1>2, <2>3, <2>4, <2>5 DEF IInv, Fill, Answering, Showing,
                                            ShowsRows
<1>3. CASE Clear
  <2>1. TypeOK'
    <3>1. cnt' \in 0..Limit /\ wpc' = "raise"
      BY <1>3, HistoryAssumption DEF Clear, HistoryAssumption
    <3>. QED  BY <1>0, <1>3, <3>1, Zenon DEF TypeOK, Clear
  <2>2. Serving'
    <3>1. dpc = "write" => 0 + Cardinality(sel) <= Limit
      BY <1>0, FS_CardinalityType, HistoryAssumption DEF Serving, TypeOK, HistoryAssumption
    <3>. QED  BY <1>0, <1>3, <3>1 DEF Serving, Clear
  <2>3. Filling'
    BY <1>0, <1>3 DEF Clear, Filling
  <2>. QED  BY <1>3, <2>1, <2>2, <2>3 DEF IInv, Clear, Answering, Showing,
                                       ShowsRows
<1>4. CASE Raise
  <2>1. TypeOK'
    BY <1>0, <1>4 DEF TypeOK, Raise
  <2>2. Serving'
    BY <1>0, <1>4 DEF Serving, Raise
  <2>3. Filling'
    BY <1>0, <1>4 DEF Raise, Filling
  <2>4. Answering'
    BY <1>0, <1>4 DEF Raise, Filling, Answering, Serving, ShowsRows
  <2>. QED  BY <1>4, <2>1, <2>2, <2>3, <2>4 DEF IInv, Raise, Showing, ShowsRows
<1>. QED  BY <1>1, <1>2, <1>3, <1>4

(* The page reads a row while nobody writes any, but may find it gone.       *)
LEMMA RowSteps ==
  ASSUME IInv, TestRow \/ ReadTime \/ ReadValue PROVE IInv'
<1>0. TypeOK /\ Serving /\ Answering /\ Showing
  BY DEF IInv
<1>1. /\ UNCHANGED <<stored, flag, req, cnt, row, dpc, got, sel>>
      /\ UNCHANGED <<asked, waits, late, old>>
      /\ wpc \in ShowsRows /\ wpc' \in ShowsRows
  BY DEF TestRow, ReadTime, ReadValue, segment, daemon, ShowsRows
<1>2. /\ n \in Nat /\ cnt \in 0..Limit /\ Limit \in Nat \ {0} /\ flag \in 0..2
      /\ row \in [1..Limit -> Rows \cup {None}] /\ seen \subseteq Nat \X Nat \X Nat
      /\ time \in Nat
  BY <1>0, HistoryAssumption DEF TypeOK, HistoryAssumption
<1>3. /\ TestRow => n < Limit
      /\ ReadTime \/ ReadValue => n < Limit
  BY <1>0, <1>2 DEF TestRow, ReadTime, ReadValue, Showing
<1>4. ReadTime \/ ReadValue =>
        /\ n + 1 \in 1..Limit
        /\ row[n + 1][1] \in Nat /\ row[n + 1][2] \in Nat /\ row[n + 1][3] \in Nat
        /\ row[n + 1] = <<row[n + 1][1], row[n + 1][2], row[n + 1][3]>>
  <2>. SUFFICES ASSUME ReadTime \/ ReadValue
                PROVE  /\ n + 1 \in 1..Limit
                       /\ row[n + 1][1] \in Nat /\ row[n + 1][2] \in Nat
                       /\ row[n + 1][3] \in Nat
                       /\ row[n + 1] = <<row[n + 1][1], row[n + 1][2], row[n + 1][3]>>
    OBVIOUS
  <2>1. n + 1 \in 1..Limit
    BY <1>2, <1>3
  <2>2. row[n + 1] \in Rows \cup {None}
    BY <1>2, <2>1
  <2>3. \A r \in Rows \cup {None} : /\ r[1] \in Nat /\ r[2] \in Nat /\ r[3] \in Nat
                                    /\ r = <<r[1], r[2], r[3]>>
    BY RowFacts DEF None
  <2>. QED  BY <2>1, <2>2, <2>3
<1>5. TypeOK'
  <2>1. n' \in Nat /\ time' \in Nat
    BY <1>2, <1>4 DEF TestRow, ReadTime, ReadValue
  <2>2. seen' \subseteq Nat \X Nat \X Nat
    BY <1>2, <1>4 DEF TestRow, ReadTime, ReadValue
  <2>3. wpc' \in {"idle", "fill", "clear", "raise", "check", "wait", "test",
                  "show", "time", "value"}
    BY <1>1 DEF ShowsRows
  <2>. QED  BY <1>0, <1>1, <2>1, <2>2, <2>3, Zenon DEF TypeOK
<1>6. Serving'
  BY <1>0, <1>1 DEF Serving
<1>7. Filling'
  BY <1>1 DEF Filling, ShowsRows
<1>8. Answering'
  <2>1. Right(Written) <=> Right(Written)'
    BY <1>1 DEF Written, Right, Matches, Complete, Due
  <2>2. Right(Written \cup sel) <=> Right(Written \cup sel)'
    BY <1>1 DEF Written, Right, Matches, Complete, Due
  <2>. QED  BY <1>0, <1>1, <2>1, <2>2 DEF Answering, ShowsRows
<1>9. Showing'
  <2>. SUFFICES ASSUME ~late
                PROVE  /\ \/ \A r \in seen' : Matches(r)
                          \/ /\ cnt = 0 /\ wpc' = "show"
                             /\ \E b \in seen' : b[1] = 0
                                  /\ \A r \in seen' \ {b} : Matches(r)
                       /\ flag = 0 => \A i \in 1..Limit : row[i] = None
                       /\ flag = 2 => /\ n' <= cnt /\ seen' = {row[i] : i \in 1..n'}
                                      /\ wpc' \in {"time", "value"} => n' < cnt
                                      /\ wpc' = "value" => time' = row[n' + 1][3]
    <3>1. wpc' \in {"time", "value"} => n' < Limit
      BY <1>3 DEF TestRow, ReadTime, ReadValue
    <3>2. \A r : Matches(r)' <=> Matches(r)
      BY <1>1 DEF Matches
    <3>. QED  BY <1>1, <3>1, <3>2 DEF Showing
  <2>1. /\ flag = 0 => cnt = 0 /\ \A i \in 1..Limit : row[i] = None
        /\ flag = 1 => FALSE
        /\ flag = 2 => /\ Right(Written)
                       /\ n <= cnt /\ seen = {row[i] : i \in 1..n}
                       /\ wpc \in {"time", "value"} => n < cnt
                       /\ wpc = "value" => time = row[n + 1][3]
    BY <1>0, <1>1 DEF Answering, Showing
  <2>2. flag \in {0, 2}
    BY <1>2, <2>1
  <2>3. CASE TestRow
    <3>1. /\ n' = n /\ time' = time /\ seen' = seen /\ wpc = "show" /\ wpc' = "time"
          /\ n < cnt
      BY <2>3 DEF TestRow
    <3>2. flag = 2 /\ cnt # 0
      BY <1>2, <2>1, <2>2, <3>1
    <3>3. \A r \in seen : Matches(r)
      BY <1>0, <1>1, <3>2 DEF Showing
    <3>. QED  BY <2>1, <3>1, <3>2, <3>3
  <2>4. CASE ReadTime
    <3>1. /\ n' = n /\ time' = row[n + 1][3] /\ seen' = seen /\ wpc = "time"
          /\ wpc' = "value"
      BY <2>4 DEF ReadTime
    <3>2. \A r \in seen : Matches(r)
      BY <1>0, <1>1, <3>1 DEF Showing
    <3>. QED  BY <2>1, <3>1, <3>2
  <2>5. CASE ReadValue
    <3>. DEFINE b == <<row[n + 1][1], row[n + 1][2], time>>
    <3>1. /\ n' = n + 1 /\ seen' = seen \cup {b} /\ wpc = "value" /\ wpc' = "show"
      BY <2>5 DEF ReadValue
    <3>2. \A r \in seen : Matches(r)
      BY <1>0, <1>1, <3>1 DEF Showing
    <3>3. CASE flag = 0
      <4>1. cnt = 0 /\ b[1] = 0
        BY <1>4, <2>1, <2>5, <3>3 DEF None
      <4>. HIDE DEF b
      <4>2. \E x \in seen' : x[1] = 0 /\ \A r \in seen' \ {x} : Matches(r)
        <5>1. b \in seen'
          BY <3>1
        <5>2. \A r \in seen' \ {b} : Matches(r)
          BY <3>1, <3>2
        <5>. QED  BY <4>1, <5>1, <5>2
      <4>. QED  BY <2>1, <3>1, <3>3, <4>1, <4>2
    <3>4. CASE flag = 2
      <4>1. b = row[n + 1] /\ n < cnt
        BY <1>4, <2>1, <2>5, <3>1, <3>4
      <4>. HIDE DEF b
      <4>2. n + 1 \in 1..cnt /\ 1..(n + 1) = 1..n \cup {n + 1}
        BY <1>2, <4>1
      <4>3. row[n + 1] \in Written /\ \A r \in Written : Matches(r)
        BY <2>1, <3>4, <4>2 DEF Written, Right
      <4>4. \A r \in seen' : Matches(r)
        BY <3>1, <3>2, <4>1, <4>3
      <4>5. seen' = {row[i] : i \in 1..n'}
        BY <2>1, <3>1, <3>4, <4>1, <4>2
      <4>6. n + 1 <= cnt
        BY <1>2, <4>2
      <4>. QED  BY <3>1, <3>4, <4>4, <4>5, <4>6
    <3>. QED  BY <2>2, <3>3, <3>4
  <2>. QED  BY <2>3, <2>4, <2>5
<1>. QED  BY <1>5, <1>6, <1>7, <1>8, <1>9 DEF IInv

(* The page from the flag on: it shows rows only while nobody writes any.    *)
LEMMA ShowSteps ==
  ASSUME IInv,
         \/ Check \/ Wait \/ Waited \/ Show \/ NothingFound \/ TestRow \/ ReadTime
             \/ ReadValue \/ Shown
         \/ InterfaceDies
  PROVE  IInv'
<1>0. TypeOK /\ Serving /\ Filling /\ Answering /\ Showing
  BY DEF IInv
<1>1. CASE Home /\ UNCHANGED <<stored, segment, daemon>>
  BY <1>1, HomeSteps
<1>2. CASE (Check \/ Wait \/ Waited) /\ ~Home
  <2>1. /\ UNCHANGED <<stored, flag, req, cnt, row, dpc, got, sel>>
        /\ UNCHANGED <<asked, n, time, seen, late, old>>
        /\ wpc \in {"check", "wait"} /\ wpc' \in {"wait", "test"}
    BY <1>2 DEF Check, Wait, Waited, segment, daemon
  <2>2. waits' \in 0..Waits
    <3>1. waits' = waits \/ (waits < Waits /\ waits' = waits + 1)
      BY <1>2 DEF Check, Wait, Waited
    <3>2. waits \in 0..Waits /\ Waits \in Nat
      BY <1>0, HistoryAssumption DEF TypeOK, HistoryAssumption
    <3>. QED  BY <3>1, <3>2
  <2>3. TypeOK'
    BY <1>0, <2>1, <2>2, Zenon DEF TypeOK
  <2>4. Serving'
    BY <1>0, <2>1 DEF Serving
  <2>5. Filling'
    BY <1>0, <2>1 DEF Filling
  <2>6. Answering'
    <3>1. Right(Written) <=> Right(Written)'
      BY <2>1 DEF Written, Right, Matches, Complete, Due
    <3>2. Right(Written \cup sel) <=> Right(Written \cup sel)'
      BY <2>1 DEF Written, Right, Matches, Complete, Due
    <3>. QED  BY <1>0, <2>1, <3>1, <3>2 DEF Answering, ShowsRows
  <2>. QED  BY <2>1, <2>3, <2>4, <2>5, <2>6 DEF IInv, Showing, ShowsRows
<1>3. CASE Show
  <2>1. /\ UNCHANGED <<stored, flag, req, cnt, row, dpc, got, sel>>
        /\ UNCHANGED <<asked, time, seen, late, old>>
        /\ wpc = "test" /\ wpc' = "show" /\ flag = 2 /\ n' = 0 /\ waits' = 0
    BY <1>3 DEF Show, segment, daemon
  <2>2. TypeOK'
    <3>1. waits' \in 0..Waits /\ n' \in Nat
      BY <2>1, HistoryAssumption DEF HistoryAssumption
    <3>. QED  BY <1>0, <2>1, <3>1, Zenon DEF TypeOK
  <2>3. Serving'
    BY <1>0, <2>1 DEF Serving
  <2>4. Answering'
    <3>1. Right(Written) <=> Right(Written)'
      BY <2>1 DEF Written, Right, Matches, Complete, Due
    <3>. QED  BY <1>0, <2>1, <3>1 DEF Answering, Serving, ShowsRows
  <2>5. Showing'
    <3>1. seen' = {} /\ {row'[i] : i \in 1..0} = {} /\ 0 <= cnt
      BY <1>0, <2>1, HistoryAssumption DEF Filling, TypeOK, HistoryAssumption
    <3>. QED  BY <2>1, <3>1 DEF Showing
  <2>. QED  BY <2>1, <2>2, <2>3, <2>4, <2>5 DEF IInv, Filling
<1>4. CASE TestRow \/ ReadTime \/ ReadValue
  BY <1>4, RowSteps
<1>. QED
  BY <1>1, <1>2, <1>3, <1>4
  DEF Check, Wait, Waited, NothingFound, Shown, InterfaceDies

(* What dataproc selects: rows of one table, of different times, at most as  *)
(* many as the segment takes.                                                *)
LEMMA SelectFacts ==
  ASSUME TypeOK, IsFiniteSet(stored)
  PROVE  /\ Newest(Spanned) \subseteq Spanned /\ Spanned \subseteq stored
         /\ IsFiniteSet(Newest(Spanned)) /\ Cardinality(Newest(Spanned)) <= Limit
         /\ Spanned \subseteq Newest(Spanned)
              \/ Cardinality(Newest(Spanned)) = Limit
         /\ Table = {} => Newest(Spanned) = {}
<1>1. Spanned \in SUBSET stored /\ Spanned \subseteq Rows
  BY DEF Spanned, Table, TypeOK
<1>2. IsFiniteSet(Spanned)
  BY <1>1, FS_Subset
<1>3. \A r \in Spanned : r[3] \in Nat
  BY <1>1, RowFacts
<1>4. ASSUME NEW r \in Spanned, NEW x \in Spanned, r[3] = x[3] PROVE r = x
  <2>1. r[1] = x[1] /\ r[2] = x[2]
    BY DEF Spanned, Table
  <2>2. r = <<r[1], r[2], r[3]>> /\ x = <<x[1], x[2], x[3]>>
    BY <1>1, RowFacts
  <2>. QED  BY <1>4, <2>1, <2>2
<1>5. Table = {} => Spanned = {}
  BY DEF Spanned
<1>. HIDE DEF Spanned
<1>6. /\ Newest(Spanned) \subseteq Spanned /\ IsFiniteSet(Newest(Spanned))
      /\ Cardinality(Newest(Spanned)) <= Limit
      /\ Spanned \subseteq Newest(Spanned)
           \/ Cardinality(Newest(Spanned)) = Limit
  BY <1>2, <1>3, <1>4, NewestFacts
<1>. QED  BY <1>1, <1>5, <1>6

(* dataproc up to the select: it reads what the page wrote.                  *)
LEMMA ReadSteps ==
  ASSUME IInv, (\E r \in Rows : Store(r)) \/ TestFlag \/ Read PROVE IInv'
<1>. USE DEF segment, page, daemon
<1>0. TypeOK /\ Serving /\ Filling /\ Answering /\ Showing
  BY DEF IInv
<1>1. CASE \E r \in Rows : Store(r)
  <2>1. PICK r \in Rows : Store(r)
    BY <1>1
  <2>2. /\ UNCHANGED <<flag, req, cnt, row, dpc, got, sel>>
        /\ UNCHANGED <<wpc, asked, n, waits, time, seen, late, old>>
        /\ stored' = stored \cup {r} /\ dpc = "idle"
    BY <2>1 DEF Store
  <2>3. TypeOK'
    <3>1. stored' \subseteq Rows
      BY <1>0, <2>2 DEF TypeOK
    <3>. QED  BY <1>0, <2>2, <3>1, Zenon DEF TypeOK
  <2>4. Serving'
    <3>1. IsFiniteSet(stored \cup {r})
      BY <1>0, FS_AddElement DEF Serving
    <3>. QED  BY <1>0, <2>2, <3>1 DEF Serving
  <2>5. Filling' /\ Showing'
    BY <1>0, <2>2 DEF Filling, Showing, Matches
  <2>6. Answering'
    <3>1. Right(Written) <=> Right(Written)'
      BY <2>2 DEF Written, Right, Matches, Complete, Due
    <3>. QED  BY <1>0, <2>2, <3>1 DEF Answering
  <2>. QED  BY <2>3, <2>4, <2>5, <2>6 DEF IInv
<1>2. CASE TestFlag
  <2>1. /\ UNCHANGED <<stored, flag, req, cnt, row, sel>>
        /\ UNCHANGED <<wpc, asked, n, waits, time, seen, late, old>>
        /\ dpc = "idle" /\ dpc' = "read" /\ got' = <<>>
        /\ flag = 1 /\ req[1] > 0
    BY <1>2 DEF TestFlag
  <2>2. TypeOK'
    <3>1. <<>> \in Seq(Nat) /\ Len(<<>>) <= Len(ReadOrder)
      BY OrderFacts
    <3>. QED  BY <1>0, <2>1, <3>1, Zenon DEF TypeOK
  <2>3. Serving'
    BY <1>0, <2>1 DEF Serving
  <2>4. Filling' /\ Showing'
    BY <1>0, <2>1 DEF Filling, Showing, Matches
  <2>5. Answering'
    BY <1>0, <2>1 DEF Answering
  <2>. QED  BY <2>2, <2>3, <2>4, <2>5 DEF IInv
<1>3. CASE Read
  <2>. DEFINE k == Len(got) + 1
              v == req[ReadOrder[k]]
  <2>1. /\ UNCHANGED <<stored, flag, req, cnt, row, sel>>
        /\ UNCHANGED <<wpc, asked, n, waits, time, seen, late, old>>
        /\ dpc = "read" /\ got' = Append(got, v)
        /\ dpc' = IF Len(got') = Len(ReadOrder) THEN "select" ELSE "read"
        /\ flag = 1 /\ Len(got) < 4
    BY <1>0, <1>3 DEF Read, Serving
  <2>2. k \in 1..4 /\ ReadOrder[k] \in 1..4 /\ v \in Nat /\ got \in Seq(Nat)
    BY <1>0, <2>1, OrderFacts DEF TypeOK
  <2>. HIDE DEF v
  <2>3. /\ got' \in Seq(Nat) /\ Len(got') = k
        /\ \A i \in 1..Len(got) : got'[i] = got[i]
        /\ got'[k] = v
    BY <2>1, <2>2
  <2>4. TypeOK'
    <3>1. Len(got') <= Len(ReadOrder) /\ dpc' \in {"idle", "read", "select", "write"}
      BY <2>1, <2>2, <2>3, OrderFacts
    <3>2. stored \subseteq Rows /\ sel \subseteq Rows
      BY <1>0 DEF TypeOK
    <3>. QED  BY <1>0, <2>1, <2>3, <3>1, <3>2, Zenon DEF TypeOK
  <2>5. Serving'
    <3>1. dpc' = "read" => Len(got') < 4
      BY <2>1, <2>2, <2>3, OrderFacts
    <3>2. dpc' = "select" => Len(got') = 4
      BY <2>1, OrderFacts
    <3>. QED  BY <1>0, <2>1, <3>1, <3>2 DEF Serving
  <2>6. Filling' /\ Showing'
    BY <1>0, <2>1 DEF Filling, Showing, Matches
  <2>7. Answering'
    <3>. SUFFICES ASSUME wpc \in {"check", "wait", "test"} \cup ShowsRows, ~late
                  PROVE  /\ wpc \notin ShowsRows /\ cnt = 0 /\ req[1] > 0
                         /\ \A i \in 1..Len(got') : got'[i] = asked[ReadOrder[i]]
      BY <2>1 DEF Answering
    <3>1. /\ wpc \notin ShowsRows /\ cnt = 0 /\ req[1] > 0
          /\ \A i \in 1..Len(got) : got[i] = asked[ReadOrder[i]]
      BY <1>0, <2>1 DEF Answering
    <3>2. n = 5 /\ \A i \in 1..4 : req[i] = asked[i]
      BY <1>0, <2>1, <3>1 DEF Filling
    <3>3. v = asked[ReadOrder[k]]
      BY <2>2, <3>2 DEF v
    <3>4. ASSUME NEW i \in 1..Len(got') PROVE got'[i] = asked[ReadOrder[i]]
      <4>1. i = k \/ i \in 1..Len(got)
        BY <2>2, <2>3
      <4>. QED  BY <2>3, <3>1, <3>3, <4>1
    <3>. QED  BY <3>1, <3>4
  <2>. QED  BY <2>4, <2>5, <2>6, <2>7 DEF IInv
<1>. QED  BY <1>1, <1>2, <1>3

(* dataproc from the select on: the rows due are written or still to write,  *)
(* until flag says that they are there.                                      *)
LEMMA AnswerSteps ==
  ASSUME IInv, Select \/ (\E r \in Rows : WriteRow(r)) \/ Done PROVE IInv'
<1>. USE DEF segment, page, daemon
<1>0. /\ TypeOK /\ Serving /\ Filling /\ Answering /\ Showing
      /\ Limit \in Nat \ {0} /\ cnt \in 0..Limit
  BY HistoryAssumption DEF IInv, TypeOK, HistoryAssumption
<1>1. CASE Select
  <2>1. /\ UNCHANGED <<stored, flag, req, row, got>>
        /\ UNCHANGED <<wpc, asked, n, waits, time, seen, late, old>>
        /\ dpc = "select" /\ dpc' = "write" /\ sel' = Newest(Spanned)
        /\ cnt' = IF Table = {} THEN cnt ELSE 0
        /\ flag = 1 /\ Len(got) = 4
    BY <1>0, <1>1 DEF Select, Serving
  <2>2. IsFiniteSet(stored)
    BY <1>0 DEF Serving
  <2>3. /\ sel' \subseteq Spanned /\ Spanned \subseteq stored
        /\ IsFiniteSet(sel') /\ Cardinality(sel') <= Limit
        /\ Spanned \subseteq sel' \/ Cardinality(sel') = Limit
        /\ Table = {} => sel' = {}
    BY <1>0, <2>1, <2>2, SelectFacts
  <2>4. TypeOK'
    <3>1. cnt' \in 0..Limit
      BY <1>0, <2>1
    <3>2. sel' \subseteq Rows
      BY <1>0, <2>3 DEF TypeOK
    <3>. QED  BY <1>0, <2>1, <3>1, <3>2, Zenon DEF TypeOK
  <2>5. Serving'
    <3>1. cnt' + Cardinality(sel') <= Limit
      <4>1. CASE Table = {}
        BY <1>0, <2>1, <2>3, <4>1, FS_EmptySet
      <4>2. CASE Table # {}
        BY <2>1, <2>3, <4>2, FS_CardinalityType
      <4>. QED  BY <4>1, <4>2
    <3>. QED  BY <1>0, <2>1, <2>3, <3>1 DEF Serving
  <2>6. Filling' /\ Showing'
    BY <1>0, <2>1 DEF Filling, Showing, Matches, Answering
  <2>7. Answering'
    <3>. SUFFICES ASSUME wpc \in {"check", "wait", "test"} \cup ShowsRows, ~late
                  PROVE  /\ wpc \notin ShowsRows /\ req[1] > 0
                         /\ \A i \in 1..Len(got) : got[i] = asked[ReadOrder[i]]
                         /\ Right(Written \cup sel)'
      BY <2>1 DEF Answering
    <3>1. /\ wpc \notin ShowsRows /\ cnt = 0 /\ req[1] > 0
          /\ \A i \in 1..Len(got) : got[i] = asked[ReadOrder[i]]
      BY <1>0, <2>1 DEF Answering
    <3>2. /\ got[1] = asked[2] /\ got[2] = asked[1]
          /\ got[3] = asked[3] /\ got[4] = asked[4]
      BY <2>1, <3>1, OrderFacts
    <3>3. Written' = {}
      BY <2>1, <3>1 DEF Written
    <3>4. \A r \in Spanned : Matches(r)
      BY <3>2 DEF Spanned, Table, Matches
    <3>5. Due \subseteq Spanned
      BY <1>0, <3>2 DEF Due, Spanned, Table, Matches, Serving
    <3>6. (\A r \in sel' : Matches(r)') /\ (Due' \subseteq sel' \/ Cardinality(sel') = Limit)
      BY <2>1, <2>3, <3>4, <3>5 DEF Matches, Due
    <3>. QED  BY <3>1, <3>3, <3>6 DEF Right, Complete
  <2>. QED  BY <2>4, <2>5, <2>6, <2>7 DEF IInv
<1>2. CASE \E r \in Rows : WriteRow(r)
  <2>1. PICK r \in Rows : WriteRow(r)
    BY <1>2
  <2>2. /\ UNCHANGED <<stored, flag, req, dpc, got>>
        /\ UNCHANGED <<wpc, asked, n, waits, time, seen, late, old>>
        /\ dpc = "write" /\ r \in sel /\ sel' = sel \ {r}
        /\ row' = [row EXCEPT ![cnt + 1] = r] /\ cnt' = cnt + 1
        /\ flag = 1
    BY <1>0, <2>1 DEF WriteRow, Serving
  <2>3. /\ IsFiniteSet(sel') /\ Cardinality(sel') = Cardinality(sel) - 1
        /\ Cardinality(sel) \in Nat /\ Cardinality(sel') \in Nat
    BY <1>0, <2>2, FS_RemoveElement, FS_CardinalityType DEF Serving
  <2>4. cnt + 1 \in 1..Limit /\ cnt + 1 + Cardinality(sel') <= Limit
    BY <1>0, <2>2, <2>3 DEF Serving
  <2>5. TypeOK'
    <3>1. cnt' \in 0..Limit
      BY <2>2, <2>4
    <3>2. sel' \subseteq Rows /\ row' \in [1..Limit -> Rows \cup {None}]
      BY <1>0, <2>2 DEF TypeOK
    <3>. QED  BY <1>0, <2>2, <3>1, <3>2, Zenon DEF TypeOK
  <2>6. Serving'
    <3>1. cnt' + Cardinality(sel') <= Limit
      BY <2>2, <2>4
    <3>. QED  BY <1>0, <2>2, <2>3, <3>1 DEF Serving
  <2>7. Filling'
    BY <1>0, <2>2 DEF Filling, Serving
  <2>8. Showing'
    <3>1. wpc \in ShowsRows => late
      BY <1>0, <2>2 DEF Answering
    <3>. QED  BY <1>0, <2>2, <3>1 DEF Showing
  <2>9. Answering'
    <3>1. Written' \cup sel' = Written \cup sel
      <4>1. row \in [1..Limit -> Rows \cup {None}]
        BY <1>0 DEF TypeOK
      <4>2. /\ 1..(cnt + 1) = 1..cnt \cup {cnt + 1} /\ row'[cnt + 1] = r
            /\ \A i \in 1..cnt : row'[i] = row[i]
        BY <1>0, <2>2, <2>4, <4>1
      <4>3. Written' = Written \cup {r}
        BY <2>2, <4>2 DEF Written
      <4>. QED  BY <2>2, <4>3
    <3>2. Right(Written \cup sel) => Right(Written \cup sel)'
      BY <2>2, <3>1 DEF Right, Matches, Complete, Due
    <3>. QED  BY <1>0, <2>2, <3>2 DEF Answering
  <2>. QED  BY <2>5, <2>6, <2>7, <2>8, <2>9 DEF IInv
<1>3. CASE Done
  <2>1. /\ UNCHANGED <<stored, req, cnt, row, sel>>
        /\ UNCHANGED <<wpc, asked, n, waits, time, seen, late, old>>
        /\ dpc = "write" /\ sel = {} /\ dpc' = "idle" /\ got' = <<>>
        /\ flag = 1 /\ flag' = 2
    BY <1>0, <1>3 DEF Done, Serving
  <2>2. TypeOK'
    <3>1. <<>> \in Seq(Nat) /\ Len(<<>>) <= Len(ReadOrder) /\ 2 \in 0..2
      BY OrderFacts
    <3>. QED  BY <1>0, <2>1, <3>1, Zenon DEF TypeOK
  <2>3. Serving' /\ Filling'
    BY <1>0, <2>1 DEF Serving, Filling
  <2>4. Answering' /\ Showing'
    <3>1. wpc \in {"check", "wait", "test"} \cup ShowsRows /\ ~late => wpc \notin ShowsRows /\ Right(Written)'
      <4>1. Right(Written \cup sel) => Right(Written)'
        BY <2>1 DEF Right, Written, Matches, Complete, Due
      <4>. QED  BY <1>0, <2>1, <4>1 DEF Answering
    <3>2. wpc \in {"time", "value"} => n < Limit
      BY <1>0 DEF Showing
    <3>. QED  BY <2>1, <3>1, <3>2 DEF Answering, Showing
  <2>. QED  BY <2>2, <2>3, <2>4 DEF IInv
<1>. QED  BY <1>1, <1>2, <1>3

(* A start of dataproc withdraws what was asked and empties the answer.      *)
LEMMA DeathSteps ==
  ASSUME IInv, DataprocDies \/ UNCHANGED vars PROVE IInv'
<1>0. TypeOK /\ Serving /\ Filling /\ Answering /\ Showing
  BY DEF IInv
<1>1. CASE DataprocDies
  <2>1. /\ UNCHANGED <<stored, wpc, asked, n, waits, time, seen, late, old>>
        /\ dpc' = "idle" /\ got' = <<>> /\ sel' = {}
        /\ flag' = 0 /\ req' = Zero /\ cnt' = 0
        /\ row' = [i \in 1..Limit |-> None]
    BY <1>1 DEF DataprocDies, page
  <2>2. TypeOK'
    <3>1. /\ <<>> \in Seq(Nat) /\ Len(<<>>) <= Len(ReadOrder)
          /\ 0 \in 0..2 /\ 0 \in 0..Limit
      BY OrderFacts, HistoryAssumption DEF HistoryAssumption
    <3>2. req' \in [1..4 -> Nat] /\ row' \in [1..Limit -> Rows \cup {None}]
      BY <2>1, AskFacts
    <3>. QED  BY <1>0, <2>1, <3>1, <3>2, Zenon DEF TypeOK
  <2>3. Serving'
    BY <1>0, <2>1, FS_EmptySet DEF Serving
  <2>4. Filling'
    <3>1. ~(req'[1] > 0)
      BY <2>1 DEF Zero
    <3>. QED  BY <1>0, <2>1, <3>1 DEF Filling
  <2>5. Answering' /\ Showing'
    BY <1>0, <2>1 DEF Answering, Showing, Matches
  <2>. QED  BY <2>2, <2>3, <2>4, <2>5 DEF IInv
<1>2. CASE UNCHANGED vars
  <2>1. /\ UNCHANGED <<stored, flag, req, cnt, row, dpc, got, sel>>
        /\ UNCHANGED <<wpc, asked, n, waits, time, seen, late, old>>
    BY <1>2 DEF vars, segment, page, daemon
  <2>2. TypeOK'
    BY <1>0, <2>1, Zenon DEF TypeOK
  <2>3. Serving' /\ Filling' /\ Showing'
    BY <1>0, <2>1 DEF Serving, Filling, Showing, Matches
  <2>4. Answering'
    <3>1. /\ Right(Written) <=> Right(Written)'
          /\ Right(Written \cup sel) <=> Right(Written \cup sel)'
      BY <2>1 DEF Right, Written, Matches, Complete, Due
    <3>. QED  BY <1>0, <2>1, <3>1 DEF Answering
  <2>. QED  BY <2>2, <2>3, <2>4 DEF IInv
<1>. QED  BY <1>1, <1>2

-----------------------------------------------------------------------------
(* What holds of the page, the segment and dataproc together at any moment   *)
(* of a request: who may write the segment, whether the request was read as  *)
(* it was made, and which rows are already there (statisticwidget.cpp        *)
(* 202-233, dataproc.c 373-404).                                             *)
THEOREM AnswersBelong == Spec => []IInv
<1>1. Init => IInv
  BY InitHolds
<1>2. IInv /\ [Next]_vars => IInv'
  <2>. SUFFICES ASSUME IInv, [Next]_vars PROVE IInv'
    OBVIOUS
  <2>1. CASE (\E a \in Asks : Click(a)) \/ Fill \/ Clear \/ Raise
    BY <2>1, FillSteps
  <2>2. CASE \/ Check \/ Wait \/ Waited \/ Show \/ NothingFound \/ TestRow \/ ReadTime
             \/ ReadValue \/ Shown
             \/ InterfaceDies
    BY <2>2, ShowSteps
  <2>3. CASE (\E r \in Rows : Store(r)) \/ TestFlag \/ Read
    BY <2>3, ReadSteps
  <2>4. CASE Select \/ (\E r \in Rows : WriteRow(r)) \/ Done
    BY <2>4, AnswerSteps
  <2>5. CASE DataprocDies \/ UNCHANGED vars
    BY <2>5, DeathSteps
  <2>. QED  BY <2>1, <2>2, <2>3, <2>4, <2>5 DEF Next, Handler, Query
<1>. QED  BY <1>1, <1>2, PTL DEF Spec

(* Every row dataproc writes falls into the segment's array and every field  *)
(* keeps its range (dataproc.c 329-340, 400).                                *)
THEOREM TypeCorrect == Spec => []TypeOK
<1>1. IInv => TypeOK
  BY DEF IInv
<1>. QED  BY <1>1, AnswersBelong, PTL

(* The page shows no row it did not ask for, unless a former request was     *)
(* still open when it asked, but for one without a value at the end when     *)
(* dataproc starts while the page reads it (statisticwidget.cpp 121-137,     *)
(* 212-219, dataproc.c 373-403, 416).                                        *)
THEOREM ShowsOnlyAsked == Spec => []OnlyAsked
<1>1. IInv => OnlyAsked
  BY DEF IInv, Showing, OnlyAsked
<1>. QED  BY <1>1, AnswersBelong, PTL

(* flag = 2 says that the answer is complete or full, and a page that comes  *)
(* to its end has shown all of it (tinz_base_data.h 34, dataproc.c 329-340). *)
THEOREM ShowsAllDue == Spec => []NoneMissing
<1>1. IInv => NoneMissing
  <2>. SUFFICES ASSUME IInv, wpc \in {"check", "wait", "test"} \cup ShowsRows, flag = 2, ~late
                PROVE  /\ Complete({row[i] : i \in 1..cnt})
                       /\ wpc = "show" /\ n >= cnt => Complete(seen)
    BY DEF NoneMissing
  <2>1. Complete(Written)
    BY DEF IInv, Answering, Right
  <2>2. ASSUME wpc = "show", n >= cnt PROVE seen = Written
    <3>1. n \in Nat /\ cnt \in 0..Limit /\ Limit \in Nat
      BY HistoryAssumption DEF IInv, TypeOK, HistoryAssumption
    <3>2. n <= cnt /\ seen = {row[i] : i \in 1..n}
      BY <2>2 DEF IInv, Showing
    <3>3. n = cnt
      BY <2>2, <3>1, <3>2
    <3>. QED  BY <3>2, <3>3 DEF Written
  <2>. QED  BY <2>1, <2>2 DEF Written
<1>. QED  BY <1>1, AnswersBelong, PTL

-----------------------------------------------------------------------------
(* What AlwaysAnswered rests on beside the fairness of dataproc: how many    *)
(* steps it has left at most until flag is 2.                                *)
StepsToAnswer(p, g, m) ==
  CASE p = "idle"   -> 0
    [] p = "write"  -> 1 + m
    [] p = "select" -> 2 + Limit
    [] p = "read"   -> 6 + Limit - g
AnswerLeft == StepsToAnswer(dpc, Len(got), Cardinality(sel))

LEMMA StepsToAnswerFacts ==
  ASSUME NEW g \in 0..4, NEW m \in Nat
  PROVE  /\ StepsToAnswer("idle", g, m) = 0
         /\ StepsToAnswer("write", g, m) = 1 + m
         /\ StepsToAnswer("select", g, m) = 2 + Limit
         /\ StepsToAnswer("read", g, m) = 6 + Limit - g
         /\ Limit \in Nat \ {0}
BY HistoryAssumption DEF StepsToAnswer, HistoryAssumption

LEMMA StepsToAnswerRange ==
  ASSUME NEW p \in {"idle", "read", "select", "write"}, NEW g \in 0..4, NEW m \in Nat,
         p = "write" => m <= Limit, p = "read" => g < 4
  PROVE  /\ StepsToAnswer(p, g, m) \in 0..(Limit + 6)
         /\ StepsToAnswer(p, g, m) = 0 <=> p = "idle"
BY StepsToAnswerFacts

AnswerSizes ==
  /\ Len(got) \in 0..4 /\ Cardinality(sel) \in Nat
  /\ dpc = "write" => Cardinality(sel) <= Limit
  /\ dpc \in {"idle", "read", "select", "write"}
  /\ dpc = "read" => Len(got) < 4

LEMMA SizesFollow == TypeOK /\ Serving => AnswerSizes
<1>. SUFFICES ASSUME TypeOK, Serving PROVE AnswerSizes
  OBVIOUS
<1>1. Cardinality(sel) \in Nat
  BY FS_CardinalityType DEF Serving
<1>2. Len(got) \in 0..4
  <2>1. got \in Seq(Nat) /\ Len(got) <= 4
    BY OrderFacts DEF TypeOK
  <2>2. Len(got) \in Nat
    BY <2>1
  <2>3. \A k \in Nat : k <= 4 => k \in 0..4
    OBVIOUS
  <2>. QED  BY <2>1, <2>2, <2>3, Zenon
<1>3. dpc = "write" => Cardinality(sel) <= Limit
  <2>1. cnt \in Nat /\ Limit \in Nat
    BY HistoryAssumption DEF TypeOK, HistoryAssumption
  <2>. QED  BY <1>1, <2>1 DEF Serving
<1>. QED  BY <1>1, <1>2, <1>3 DEF TypeOK, Serving, AnswerSizes

(* Once dataproc has begun on a request nothing takes it further from the    *)
(* answer, and it gets there within Limit + 6 steps of its own (dataproc.c   *)
(* 373-404).                                                                 *)
THEOREM AnswerComesNearer ==
  Spec => /\ [](AnswerLeft \in 0..(Limit + 6) /\ (AnswerLeft = 0 <=> dpc = "idle"))
          /\ [][dpc # "idle" => /\ AnswerLeft' <= AnswerLeft
                                /\ Query => AnswerLeft' < AnswerLeft]_vars
<1>1. IInv => AnswerSizes
  BY SizesFollow DEF IInv
<1>2. IInv => AnswerLeft \in 0..(Limit + 6) /\ (AnswerLeft = 0 <=> dpc = "idle")
  <2>. SUFFICES ASSUME IInv
                PROVE  AnswerLeft \in 0..(Limit + 6) /\ (AnswerLeft = 0 <=> dpc = "idle")
    OBVIOUS
  <2>. QED  BY <1>1, StepsToAnswerRange DEF AnswerLeft, AnswerSizes
<1>3. IInv /\ AnswerSizes /\ AnswerSizes' /\ [Next]_vars =>
        [dpc # "idle" => /\ AnswerLeft' <= AnswerLeft
                         /\ Query => AnswerLeft' < AnswerLeft]_vars
  <2>. DEFINE g == Len(got)
              m == Cardinality(sel)
  <2>. SUFFICES ASSUME IInv, AnswerSizes, AnswerSizes', Next, dpc # "idle"
                PROVE  /\ StepsToAnswer(dpc', g', m') <= StepsToAnswer(dpc, g, m)
                       /\ Query => StepsToAnswer(dpc', g', m') < StepsToAnswer(dpc, g, m)
    BY DEF AnswerLeft
  <2>0. /\ g \in 0..4 /\ m \in Nat /\ g' \in 0..4 /\ m' \in Nat
        /\ dpc = "read" => g < 4
        /\ dpc' = "write" => m' <= Limit
        /\ dpc \in {"read", "select", "write"}
    BY DEF AnswerSizes
  <2>1. CASE UNCHANGED <<dpc, got, sel>> /\ ~Query
    <3>1. StepsToAnswer(dpc', g', m') = StepsToAnswer(dpc, g, m)
      BY <2>1
    <3>2. StepsToAnswer(dpc, g, m) \in Int
      <4>. HIDE DEF g, m
      <4>. QED  BY <2>0, StepsToAnswerFacts
    <3>. QED  BY <2>1, <3>1, <3>2
  <2>2. CASE Read
    <3>1. dpc = "read" /\ dpc' \in {"read", "select"} /\ g' = g + 1
      BY <2>2 DEF Read, IInv, TypeOK
    <3>. HIDE DEF g, m
    <3>2. 6 + Limit - (g + 1) < 6 + Limit - g /\ 2 + Limit < 6 + Limit - g
      BY <2>0, <3>1, StepsToAnswerFacts
    <3>. QED  BY <2>0, <3>1, <3>2, StepsToAnswerFacts
  <2>3. CASE Select
    <3>1. dpc = "select" /\ dpc' = "write"
      BY <2>3 DEF Select
    <3>2. 1 + m' < 2 + Limit
      <4>1. \A j \in Nat : j <= Limit => 1 + j < 2 + Limit
        BY StepsToAnswerFacts
      <4>. HIDE DEF m
      <4>. QED  BY <2>0, <3>1, <4>1
    <3>. HIDE DEF g, m
    <3>. QED  BY <2>0, <3>1, <3>2, StepsToAnswerFacts
  <2>4. CASE \E r \in Rows : WriteRow(r)
    <3>1. PICK r \in Rows : r \in sel /\ sel' = sel \ {r} /\ dpc = "write" /\ dpc' = "write"
      BY <2>4 DEF WriteRow
    <3>2. m' = m - 1
      BY <3>1, FS_RemoveElement DEF IInv, Serving
    <3>3. 1 + (m - 1) < 1 + m
      BY <2>0
    <3>. HIDE DEF g, m
    <3>. QED  BY <2>0, <3>1, <3>2, <3>3, StepsToAnswerFacts
  <2>5. CASE Done
    <3>1. dpc = "write" /\ dpc' = "idle"
      BY <2>5 DEF Done
    <3>2. 0 < 1 + m
      BY <2>0
    <3>. HIDE DEF g, m
    <3>. QED  BY <2>0, <3>1, <3>2, StepsToAnswerFacts
  <2>6. CASE DataprocDies
    <3>1. dpc' = "idle" /\ dpc \in {"read", "select", "write"}
      BY <2>0, <2>6 DEF DataprocDies
    <3>. HIDE DEF g, m
    <3>2. 0 < 1 + m /\ 0 < 2 + Limit /\ 0 < 6 + Limit - g
      BY <2>0, StepsToAnswerFacts
    <3>. QED  BY <2>0, <3>1, <3>2, StepsToAnswerFacts
  <2>7. (\E a \in Asks : Click(a)) \/ Handler \/ InterfaceDies
          => UNCHANGED <<dpc, got, sel>>
    BY DEF Click, Handler, Fill, Clear, Raise, Check, Wait, Show, NothingFound,
           Waited, TestRow, ReadTime, ReadValue, Shown, InterfaceDies, daemon
  <2>. QED
    BY <2>1, <2>2, <2>3, <2>4, <2>5, <2>6, <2>7 DEF Next, Query, TestFlag, Store, daemon
<1>. QED  BY <1>1, <1>2, <1>3, AnswersBelong, PTL DEF Spec

-----------------------------------------------------------------------------
(* What PageComesBack rests on beside the fairness of the GUI thread: how    *)
(* many steps the handler has left at most.                                  *)
StepsToHome(p, k, w) ==
  CASE p = "idle"  -> 0
    [] p = "value" -> 3 * (Limit - k) - 1
    [] p = "time"  -> 3 * (Limit - k)
    [] p = "show"  -> 1 + 3 * (Limit - k)
    [] p = "test"  -> 2 + 3 * Limit
    [] p = "wait"  -> 3 + 3 * Limit + Waits - w
    [] p = "check" -> 4 + 3 * Limit + Waits
    [] p = "raise" -> 5 + 3 * Limit + Waits
    [] p = "clear" -> 6 + 3 * Limit + Waits
    [] p = "fill"  -> 11 + 3 * Limit + Waits - k
HomeLeft == StepsToHome(wpc, n, waits)

Places == {"idle", "fill", "clear", "raise", "check", "wait", "test", "show",
           "time", "value"}

LEMMA StepsToHomeFacts ==
  ASSUME NEW k \in Nat, NEW w \in 0..Waits
  PROVE  /\ StepsToHome("idle", k, w) = 0
         /\ StepsToHome("value", k, w) = 3 * (Limit - k) - 1
         /\ StepsToHome("time", k, w) = 3 * (Limit - k)
         /\ StepsToHome("show", k, w) = 1 + 3 * (Limit - k)
         /\ StepsToHome("test", k, w) = 2 + 3 * Limit
         /\ StepsToHome("wait", k, w) = 3 + 3 * Limit + Waits - w
         /\ StepsToHome("check", k, w) = 4 + 3 * Limit + Waits
         /\ StepsToHome("raise", k, w) = 5 + 3 * Limit + Waits
         /\ StepsToHome("clear", k, w) = 6 + 3 * Limit + Waits
         /\ StepsToHome("fill", k, w) = 11 + 3 * Limit + Waits - k
         /\ Limit \in Nat \ {0} /\ Waits \in Nat
BY HistoryAssumption DEF StepsToHome, HistoryAssumption

LEMMA StepsToHomeRange ==
  ASSUME NEW p \in Places, NEW k \in Nat, NEW w \in 0..Waits,
         p = "fill" => k \in 1..4, p = "show" => k <= Limit,
         p \in {"time", "value"} => k < Limit
  PROVE  /\ StepsToHome(p, k, w) \in 0..(3 * Limit + Waits + 10)
         /\ (StepsToHome(p, k, w) = 0 <=> p = "idle")
<1>0. Limit \in Nat \ {0} /\ Waits \in Nat /\ w \in Nat /\ w <= Waits
  BY HistoryAssumption DEF HistoryAssumption
<1>1. SUFFICES \/ p = "idle" /\ StepsToHome(p, k, w) = 0
               \/ p # "idle" /\ StepsToHome(p, k, w) \in 1..(3 * Limit + Waits + 10)
  BY <1>0
<1>3. CASE p = "idle"
  BY <1>3, StepsToHomeFacts
<1>4. CASE p = "fill"
  <2>1. 11 + 3 * Limit + Waits - k \in 1..(3 * Limit + Waits + 10)
    BY <1>0, <1>4
  <2>. QED  BY <1>4, <2>1, StepsToHomeFacts
<1>5. CASE p \in {"clear", "raise", "check", "test"}
  <2>1. /\ StepsToHome("check", k, w) \in 1..(3 * Limit + Waits + 10)
        /\ StepsToHome("raise", k, w) \in 1..(3 * Limit + Waits + 10)
        /\ StepsToHome("clear", k, w) \in 1..(3 * Limit + Waits + 10)
        /\ StepsToHome("test", k, w) \in 1..(3 * Limit + Waits + 10)
    BY <1>0, StepsToHomeFacts
  <2>. HIDE DEF StepsToHome
  <2>. QED  BY <1>5, <2>1
<1>6. CASE p = "wait"
  <2>1. 3 + 3 * Limit + Waits - w \in 1..(3 * Limit + Waits + 10)
    BY <1>0
  <2>. QED  BY <1>6, <2>1, StepsToHomeFacts
<1>7. CASE p = "show"
  <2>1. 1 + 3 * (Limit - k) \in 1..(3 * Limit + Waits + 10)
    BY <1>0, <1>7
  <2>. QED  BY <1>7, <2>1, StepsToHomeFacts
<1>8. CASE p \in {"time", "value"}
  <2>1. /\ 3 * (Limit - k) \in 1..(3 * Limit + Waits + 10)
        /\ 3 * (Limit - k) - 1 \in 1..(3 * Limit + Waits + 10)
    BY <1>0, <1>8
  <2>. QED  BY <1>8, <2>1, StepsToHomeFacts
<1>. QED  BY <1>3, <1>4, <1>5, <1>6, <1>7, <1>8 DEF Places

(* No row is looked for beyond the segment's array, even if cnt moves while  *)
(* the rows are shown.                                                       *)
PageSizes ==
  /\ wpc \in Places
  /\ n \in Nat /\ waits \in 0..Waits /\ cnt \in 0..Limit
  /\ wpc = "fill" => n \in 1..4
  /\ wpc = "show" => n <= Limit
  /\ wpc \in {"time", "value"} => n < Limit

LEMMA PageSizesKept == IInv /\ IInv' /\ PageSizes /\ [Next]_vars => PageSizes'
<1>. SUFFICES ASSUME IInv, IInv', PageSizes, [Next]_vars PROVE PageSizes'
  OBVIOUS
<1>1. /\ wpc' \in Places
      /\ n' \in Nat /\ waits' \in 0..Waits /\ cnt' \in 0..Limit
      /\ wpc' = "fill" => n' \in 1..4
  BY DEF IInv, TypeOK, Filling, Places
<1>2. wpc' = "show" => \/ UNCHANGED <<wpc, n>>
                       \/ n' = 0
                       \/ wpc = "value" /\ n' = n + 1
  BY DEF Next, Click, Handler, Fill, Clear, Raise, Check, Home, Wait, Waited, Show,
         NothingFound, TestRow, ReadTime, ReadValue, Shown, InterfaceDies, Store, Query, TestFlag,
         Read, Select, WriteRow, Done, DataprocDies, vars, page
<1>3. wpc' = "show" => n' <= Limit
  BY <1>1, <1>2, HistoryAssumption DEF PageSizes, HistoryAssumption
<1>4. wpc' \in {"time", "value"} => n' < Limit
  BY DEF IInv, Showing
<1>. QED  BY <1>1, <1>3, <1>4 DEF PageSizes

(* Nothing dataproc does takes the page further from the return of its       *)
(* handler, and it gets there within 3 * Limit + Waits + 10 steps of its own      *)
(* (statisticwidget.cpp 207-232).                                            *)
THEOREM HomeComesNearer ==
  Spec => /\ [](HomeLeft \in 0..(3 * Limit + Waits + 10) /\ (HomeLeft = 0 <=> wpc = "idle"))
          /\ [][wpc # "idle" => /\ HomeLeft' <= HomeLeft
                                /\ Handler => HomeLeft' < HomeLeft]_vars
<1>1. Init => PageSizes
  BY HistoryAssumption DEF Init, PageSizes, Places, HistoryAssumption
<1>2. PageSizes => HomeLeft \in 0..(3 * Limit + Waits + 10) /\ (HomeLeft = 0 <=> wpc = "idle")
  BY StepsToHomeRange DEF HomeLeft, PageSizes
<1>3. PageSizes /\ PageSizes' /\ [Next]_vars =>
        [wpc # "idle" => /\ HomeLeft' <= HomeLeft
                         /\ Handler => HomeLeft' < HomeLeft]_vars
  <2>. SUFFICES ASSUME PageSizes, PageSizes', Next, wpc # "idle"
                PROVE  /\ StepsToHome(wpc', n', waits') <= StepsToHome(wpc, n, waits)
                       /\ Handler => StepsToHome(wpc', n', waits') < StepsToHome(wpc, n, waits)
    BY DEF HomeLeft
  <2>0. /\ n \in Nat /\ waits \in 0..Waits /\ n' \in Nat /\ waits' \in 0..Waits
        /\ wpc = "fill" => n \in 1..4
        /\ cnt \in 0..Limit /\ Limit \in Nat \ {0} /\ Waits \in Nat
        /\ wpc \in Places \ {"idle"}
    BY HistoryAssumption DEF PageSizes, HistoryAssumption
  <2>12. StepsToHome(wpc, n, waits) \in Int /\ 0 < StepsToHome(wpc, n, waits)
    <3>1. /\ StepsToHome(wpc, n, waits) \in 0..(3 * Limit + Waits + 10)
          /\ StepsToHome(wpc, n, waits) # 0
      BY <2>0, StepsToHomeRange DEF PageSizes
    <3>. QED  BY <2>0, <3>1
  <2>1. CASE UNCHANGED page /\ ~Handler
    <3>1. StepsToHome(wpc', n', waits') = StepsToHome(wpc, n, waits)
      BY <2>1 DEF page
    <3>. QED  BY <2>1, <2>12, <3>1
  <2>2. CASE wpc' = "idle"
    <3>1. StepsToHome(wpc', n', waits') = 0
      BY <2>0, <2>2, StepsToHomeFacts
    <3>. QED  BY <2>12, <3>1
  <2>3. CASE Fill
    <3>1. wpc = "fill" /\ n' = n + 1 /\ wpc' = IF n = 4 THEN "clear" ELSE "fill"
      BY <2>3 DEF Fill
    <3>2. 11 + 3 * Limit + Waits - (n + 1) < 11 + 3 * Limit + Waits - n
          /\ (n = 4 => 6 + 3 * Limit + Waits < 11 + 3 * Limit + Waits - n)
      BY <2>0
    <3>. QED  BY <2>0, <3>1, <3>2, StepsToHomeFacts
  <2>4. CASE (Clear \/ Raise \/ Check) /\ wpc' # "idle"
    <3>1. \/ wpc = "clear" /\ wpc' = "raise"
          \/ wpc = "raise" /\ wpc' = "check"
          \/ wpc = "check" /\ wpc' = "wait"
      BY <2>4 DEF Clear, Raise, Check, Home
    <3>. QED  BY <2>0, <3>1, StepsToHomeFacts
  <2>5. CASE Wait
    <3>1. wpc = "wait" /\ wpc' = "wait" /\ waits' = waits + 1
      BY <2>5 DEF Wait
    <3>2. 3 + 3 * Limit + Waits - (waits + 1) < 3 + 3 * Limit + Waits - waits
      BY <2>0
    <3>. QED  BY <2>0, <3>1, <3>2, StepsToHomeFacts
  <2>6. CASE Waited
    <3>1. wpc = "wait" /\ wpc' = "test"
      BY <2>6 DEF Waited
    <3>2. 2 + 3 * Limit < 3 + 3 * Limit + Waits - waits
      BY <2>0
    <3>. QED  BY <2>0, <3>1, <3>2, StepsToHomeFacts
  <2>7. CASE Show
    <3>1. wpc = "test" /\ wpc' = "show" /\ n' = 0
      BY <2>7 DEF Show
    <3>2. 1 + 3 * (Limit - 0) < 2 + 3 * Limit
      BY <2>0
    <3>. QED  BY <2>0, <3>1, <3>2, StepsToHomeFacts
  <2>10. CASE TestRow \/ ReadTime
    <3>1. /\ n' = n
          /\ \/ wpc = "show" /\ wpc' = "time"
             \/ wpc = "time" /\ wpc' = "value"
      BY <2>10 DEF TestRow, ReadTime
    <3>2. 3 * (Limit - n) < 1 + 3 * (Limit - n) /\ 3 * (Limit - n) - 1 < 3 * (Limit - n)
      BY <2>0
    <3>. QED  BY <2>0, <3>1, <3>2, StepsToHomeFacts
  <2>11. CASE ReadValue
    <3>1. wpc = "value" /\ wpc' = "show" /\ n' = n + 1
      BY <2>11 DEF ReadValue
    <3>2. 1 + 3 * (Limit - (n + 1)) < 3 * (Limit - n) - 1
      BY <2>0
    <3>. QED  BY <2>0, <3>1, <3>2, StepsToHomeFacts
  <2>8. \/ UNCHANGED page /\ ~Handler
        \/ wpc' = "idle"
        \/ Handler
    <3>1. CASE (\E r \in Rows : Store(r)) \/ Query \/ DataprocDies
      BY <3>1 DEF Store, Query, TestFlag, Read, Select, WriteRow, Done, DataprocDies, page
    <3>2. CASE (\E a \in Asks : Click(a)) \/ InterfaceDies
      BY <3>2 DEF Click, InterfaceDies, Home
    <3>. QED  BY <3>1, <3>2 DEF Next
  <2>. QED
    BY <2>1, <2>2, <2>3, <2>4, <2>5, <2>6, <2>7, <2>8, <2>10, <2>11
    DEF Handler, NothingFound, Shown, Home
<1>. QED
  BY <1>1, <1>2, <1>3, PageSizesKept, AnswersBelong, PTL DEF Spec
=============================================================================

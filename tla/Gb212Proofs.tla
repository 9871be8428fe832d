---------------------------- MODULE Gb212Proofs ----------------------------
(* Proofs about Gb212, for every number of sites, capacity of the queues,   *)
(* number of attempts and of requests.                                      *)
EXTENDS Gb212, SequenceTheorems, TLAPS

(* A thread that serves a request has one, of a kind that fits its step.    *)
Serving ==
  \A s \in Sites :
    /\ pc[s] # "idle" => Id(s) \in Ids /\ cn[s] \in {Store, Setting}
    /\ pc[s] = "save" => cn[s] = Setting
    /\ pc[s] = "send" => cn[s] = Store

(* Who is served beside another of its kind has met it, and the other it.   *)
Meeting ==
  \A s, t \in Sites :
    s # t /\ pc[s] # "idle" /\ pc[t] # "idle" /\ cn[s] = cn[t]
      => Id(s) \in met /\ Id(t) \in met

(* A half that should be x's: it is, or it is somebody's x has met.         *)
Half(h, x) == h = x \/ (h \in met /\ x \in met)

(* How far a record is the request's own, step by step.                     *)
Copying ==
  \A s \in Sites :
    /\ pc[s] \in {"put2", "take"} => Half(Shared(cn[s])[1], Id(s))
    /\ pc[s] = "take"             => Half(Shared(cn[s])[2], Id(s))
    /\ pc[s] \in {"save", "send"} =>
         Half(out[s][1], Id(s)) /\ Half(out[s][2], Id(s))

(* A record whose halves differ has met something.                          *)
Known(r) == r[1] # r[2] => {r[1], r[2]} \cap met # {}

(* The tolerances are known but while a thread is in the middle of them, and *)
(* so is what the settings page copies of them.                             *)
Saving ==
  /\ Known(Tolerances) \/ HalfPut # {}
  /\ page = "copy2" => Known(<<pageOut[1], Tolerances[2]>>)
  /\ page = "write" => Known(pageOut)

(* Outside of a store dataproc has nothing in hand.                         *)
EmptyHanded == dpc # "store" => msg = Empty

(* Data about to be answered are where the answer says.                     *)
AboutToSucceed ==
  \A s \in Sites :
    pc[s] = "answer" /\ cn[s] = Store /\ Id(s) \notin met \cup dropped
      => Whole(Id(s)) \in Under

IInv == /\ TypeOK /\ Serving /\ Meeting /\ Copying /\ Saving /\ EmptyHanded
        /\ AboutToSucceed /\ MixedOnlyIfMet /\ SuccessKept

-----------------------------------------------------------------------------
(* The constants, and records as pairs.                                     *)
LEMMA Numbers ==
  /\ NSites \in Nat /\ NSites > 0 /\ Cap \in Nat /\ Cap > 0
  /\ Retries \in Nat /\ Retries > 0 /\ MaxRequests \in Nat
  /\ Former \in [Sites -> 0..Cap] /\ Switched \subseteq Sites
  BY Gb212Assumption DEF Gb212Assumption

LEMMA Pairs ==
  /\ Empty \in Records /\ Empty[1] = None /\ Empty[2] = None /\ None[1] = 0
  /\ \A x, y \in Ids \cup {None} :
       <<x, y>> \in Records /\ <<x, y>>[1] = x /\ <<x, y>>[2] = y
  /\ \A r \in Records :
       r[1] \in Ids \cup {None} /\ r[2] \in Ids \cup {None} /\ r = <<r[1], r[2]>>
  BY DEF Empty, Records, None

LEMMA NotNone == None \notin Ids /\ \A x \in Ids : Whole(x) # Empty
  BY Numbers DEF None, Ids, Sites, Whole, Empty

LEMMA OwnSite == \A s \in Sites : Id(s)[1] = s
  BY DEF Id

(* Two good halves of one request make a record that is whole or met.       *)
LEMMA GoodHalves ==
  ASSUME NEW r, NEW x, Half(r[1], x), Half(r[2], x)
  PROVE  r[1] # r[2] => {r[1], r[2]} \cap met # {}
  BY DEF Half

(* A queue after Append and after Tail.                                     *)
LEMMA Appended ==
  ASSUME NEW q \in Seq(Records), NEW r \in Records
  PROVE  /\ Append(q, r) \in Seq(Records) /\ Len(Append(q, r)) = Len(q) + 1
         /\ \A i \in 1..Len(q) : Append(q, r)[i] = q[i]
         /\ Append(q, r)[Len(q) + 1] = r
  OBVIOUS

LEMMA Tailed ==
  ASSUME NEW q \in Seq(Records), q # <<>>
  PROVE  /\ Tail(q) \in Seq(Records) /\ Len(Tail(q)) = Len(q) - 1
         /\ \A i \in 1..Len(Tail(q)) : Tail(q)[i] = q[i + 1]
         /\ Head(q) = q[1] /\ Head(q) \in Records /\ Len(q) > 0
         /\ Len(q) \in Nat
  OBVIOUS

LEMMA Repeated ==
  ASSUME NEW S, NEW x \in S, NEW n \in Nat
  PROVE  /\ [i \in 1..n |-> x] \in Seq(S) /\ Len([i \in 1..n |-> x]) = n
<1>1. [i \in 1..n |-> x] \in [1..n -> S]
  OBVIOUS
<1>2. [i \in 1..n |-> x] \in Seq(S)
  BY <1>1, SeqDef
<1>3. DOMAIN [i \in 1..n |-> x] = 1..n
  OBVIOUS
<1> QED BY <1>2, <1>3, LenProperties

LEMMA InitHolds == ASSUME Init PROVE IInv
<1> USE DEF Init
<1>1. TypeOK
  <2>1. 1 \in Sites /\ 0 \in 0..MaxRequests /\ 0 \in 0..(Retries - 1)
    BY Numbers DEF Sites
  <2>2. \A s \in Sites : queue[s] \in Seq(Records) /\ Len(queue[s]) <= Cap
    <3> SUFFICES ASSUME NEW s \in Sites
                 PROVE  queue[s] \in Seq(Records) /\ Len(queue[s]) <= Cap
      OBVIOUS
    <3>1. queue[s] = [i \in 1..Former[s] |-> Empty] /\ Former[s] \in 0..Cap
      BY Numbers
    <3> QED BY <3>1, Pairs, Repeated
  <2>3. queue \in [Sites -> Seq(Records)]
    BY <2>2
  <2> QED BY <2>1, <2>2, <2>3, Pairs DEF TypeOK
<1>2. \A s \in Sites : pc[s] = "idle"
  OBVIOUS
<1>3. \A s \in Sites : \A i \in 1..Len(queue[s]) : queue[s][i] = Empty
  <2> SUFFICES ASSUME NEW s \in Sites, NEW i \in 1..Len(queue[s])
               PROVE  queue[s][i] = Empty
    OBVIOUS
  <2>1. queue[s] = [j \in 1..Former[s] |-> Empty] /\ Former[s] \in Nat
    BY Numbers
  <2>2. Len(queue[s]) = Former[s]
    BY <2>1, Pairs, Repeated
  <2> QED BY <2>1, <2>2
<1>4. MixedOnlyIfMet
  <2>1. \A r \in Under \cup {file} : r = Empty
    <3>1. ASSUME NEW r \in Waiting PROVE r = Empty
      <4>1. PICK s \in Sites : \E i \in 1..Len(queue[s]) : r = queue[s][i]
        BY Zenon DEF Waiting
      <4> QED BY ZenonT(30), <1>3, <4>1
    <3> QED BY <3>1 DEF Under
  <2>2. Empty[1] = Empty[2] /\ Empty[1][1] = 0
    BY Pairs
  <2>3. \A s \in Sites : \A i \in 1..Len(queue[s]) : queue[s][i][1][1] = 0
    BY <1>3, <2>2
  <2> QED BY <2>1, <2>2, <2>3 DEF MixedOnlyIfMet
<1>5. Saving
  BY Pairs DEF Saving, Known
<1> QED
  BY <1>1, <1>2, <1>4, <1>5
  DEF IInv, Serving, Meeting, Copying, EmptyHanded, AboutToSucceed, SuccessKept
-----------------------------------------------------------------------------
(* What lies under way is only watched through these.                       *)
LEMMA UnderSame ==
  ASSUME UNCHANGED <<queue, stored, msg>>
  PROVE  Under' = Under /\ Waiting' = Waiting
  BY DEF Under, Waiting

(* A step that leaves the records under way and the file alone keeps what is *)
(* said of them: met and dropped only grow.                                 *)
LEMMA Remaining ==
  ASSUME IInv, UNCHANGED <<queue, stored, msg, file, success>>,
         met \subseteq met', dropped \subseteq dropped'
  PROVE  MixedOnlyIfMet' /\ SuccessKept'
<1>1. Under' = Under
  BY UnderSame
<1> QED
  BY <1>1 DEF IInv, MixedOnlyIfMet, SuccessKept

(* What is said of the tolerances stays true while no thread comes out of   *)
(* their middle.                                                            *)
LEMMA SavingRemains ==
  ASSUME IInv, UNCHANGED <<page, pageOut, Tolerances>>, met \subseteq met',
         HalfPut # {} => HalfPut' # {}
  PROVE  Saving'
  BY DEF IInv, Saving, Known

LEMMA HalfPutFacts ==
  ASSUME IInv
  PROVE  /\ HalfPut \subseteq Ids
         /\ \A h \in HalfPut : Half(Tolerances[1], h)
         /\ HalfPut # {} <=> \E s \in Sites : pc[s] = "put2" /\ cn[s] = Setting
<1>1. Shared(Setting) = Tolerances
  BY DEF Shared, Store, Setting
<1> QED BY <1>1 DEF IInv, HalfPut, Serving, Copying

(* What the page copies while requests are in the middle of theirs is known, *)
(* once they count as met.                                                  *)
LEMMA NowKnown ==
  ASSUME IInv, met' = met \cup HalfPut
  PROVE  Tolerances[1] # Tolerances[2] =>
           {Tolerances[1], Tolerances[2]} \cap met' # {}
  BY HalfPutFacts DEF IInv, Saving, Known, Half

(* A request comes in: whoever is busy with its kind has met it.            *)
LEMMA AcceptKeeps ==
  ASSUME IInv, NEW s \in Sites, NEW c \in {Store, Setting}, Accept(s, c)
  PROVE  IInv'
<1> USE DEF IInv
<1> DEFINE others == {t \in Sites \ {s} : pc[t] # "idle" /\ cn[t] = c}
           new    == <<s, got[s] + 1>>
<1>1. /\ pc[s] = "idle" /\ got[s] \in 0..MaxRequests /\ got[s] < MaxRequests
      /\ got' = [got EXCEPT ![s] = got[s] + 1]
      /\ pc' = [pc EXCEPT ![s] = "put1"] /\ cn' = [cn EXCEPT ![s] = c]
      /\ met' = met \cup {Id(t) : t \in others} \cup {new : t \in others}
  BY DEF Accept, To, TypeOK
<1>2. new \in Ids
  BY <1>1, Numbers DEF Ids
<1>3. \A t \in Sites : /\ Id(t)' = IF t = s THEN new ELSE Id(t)
                       /\ t # s => pc'[t] = pc[t] /\ cn'[t] = cn[t]
  BY <1>1 DEF Id, TypeOK
<1>4. met \subseteq met' /\ met' \subseteq Ids
  BY <1>1, <1>2 DEF Serving, TypeOK
<1>5. TypeOK'
  <2>1. got[s] + 1 \in 0..MaxRequests
    BY <1>1, Numbers
  <2> QED
    BY <1>1, <1>4, <2>1 DEF Accept, TypeOK, setting, segment, daemon
<1>6. Serving'
  BY <1>1, <1>2, <1>3 DEF Serving, TypeOK
<1>7. Meeting'
  <2>1. ASSUME NEW t \in others PROVE {Id(t), new} \subseteq met'
    BY <1>1, <2>1
  <2> QED
    BY <1>1, <1>3, <1>4, <2>1 DEF Meeting, TypeOK
<1>8. Copying'
  <2>1. \A x : Shared(x)' = Shared(x)
    BY DEF Accept, Shared, segment
  <2>2. out' = out
    BY DEF Accept
  <2> QED
    BY <1>1, <1>3, <1>4, <2>1, <2>2 DEF Copying, Half, TypeOK
<1>9. EmptyHanded' /\ AboutToSucceed'
  <2>1. Under' = Under
    BY UnderSame DEF Accept, daemon
  <2> QED
    BY <1>1, <1>3, <1>4, <2>1 DEF Accept, daemon, EmptyHanded, AboutToSucceed, TypeOK
<1>10. MixedOnlyIfMet' /\ SuccessKept'
  BY <1>4, Remaining DEF Accept, daemon
<1>11. Saving'
  <2>1. \A t \in Sites : pc[t] = "put2" /\ cn[t] = Setting
                          => pc'[t] = "put2" /\ cn'[t] = Setting
    BY <1>1, <1>3
  <2>2. HalfPut # {} => HalfPut' # {}
    BY <2>1 DEF HalfPut
  <2> QED BY <1>4, <2>2, SavingRemains DEF Accept, setting, segment
<1> QED BY <1>5, <1>6, <1>7, <1>8, <1>9, <1>10, <1>11

(* Half a record is copied into the segment: the others of its kind have    *)
(* met it.                                                                  *)
LEMMA PutKeeps ==
  ASSUME IInv, NEW s \in Sites, Put1(s) \/ Put2(s)
  PROVE  IInv'
<1> USE DEF IInv
<1>1. /\ pc[s] \in {"put1", "put2"}
      /\ pc' = [pc EXCEPT ![s] = IF pc[s] = "put1" THEN "put2" ELSE "take"]
      /\ Put(cn[s], IF pc[s] = "put1" THEN <<Id(s), Shared(cn[s])[2]>>
                                      ELSE <<Shared(cn[s])[1], Id(s)>>)
      /\ UNCHANGED <<setting, got, cn, tries, out, file, queue, daemon, success, dropped>>
      /\ met \subseteq met' /\ met' \subseteq met \cup {Id(s)}
      /\ pc[s] = "put2" /\ cn[s] = Setting /\ page = "copy2" => Id(s) \in met'
  BY DEF Put1, Put2, To, history
<1>2. cn[s] \in {Store, Setting} /\ Id(s) \in Ids
  BY <1>1 DEF Serving
<1>3. Shared(cn[s]) \in Records
  BY DEF Shared, TypeOK
<1>4. /\ Shared(cn[s])' \in Records
      /\ Shared(cn[s])' = IF pc[s] = "put1" THEN <<Id(s), Shared(cn[s])[2]>>
                                            ELSE <<Shared(cn[s])[1], Id(s)>>
      /\ \A x \in {Store, Setting} : x # cn[s] => Shared(x)' = Shared(x)
  BY <1>1, <1>2, <1>3, Pairs DEF Put, Shared, Store, Setting
<1>5. /\ Shared(cn[s])'[1] = IF pc[s] = "put1" THEN Id(s) ELSE Shared(cn[s])[1]
      /\ Shared(cn[s])'[2] = IF pc[s] = "put1" THEN Shared(cn[s])[2] ELSE Id(s)
  BY <1>2, <1>3, <1>4, Pairs
<1>6. \A t \in Sites : /\ Id(t)' = Id(t) /\ cn'[t] = cn[t]
                       /\ t # s => pc'[t] = pc[t]
  BY <1>1 DEF Id, TypeOK
<1>7. TypeOK'
  <2>1. RtdData' \in Records /\ Tolerances' \in Records
    BY <1>1, <1>2, <1>4 DEF Put, Shared, TypeOK
  <2> QED
    BY <1>1, <1>2, <2>1 DEF TypeOK, setting, daemon
<1>8. Serving' /\ Meeting'
  BY SMTT(30), <1>1, <1>6 DEF Serving, Meeting, TypeOK
<1>9. Copying'
  <2>1. ASSUME NEW t \in Sites, t # s
        PROVE  /\ pc'[t] \in {"put2", "take"} => Half(Shared(cn[t])'[1], Id(t))
               /\ pc'[t] = "take"             => Half(Shared(cn[t])'[2], Id(t))
    <3>1. CASE pc[t] = "idle"
      BY <1>6, <2>1, <3>1
    <3>2. CASE pc[t] # "idle" /\ cn[t] # cn[s]
      BY <1>4, <1>6, <2>1, <3>2 DEF Copying, Serving
    <3>3. CASE pc[t] # "idle" /\ cn[t] = cn[s]
      <4>1. Id(s) \in met /\ Id(t) \in met
        BY <1>1, <2>1, <3>3 DEF Meeting
      <4> QED
        BY <1>5, <1>6, <2>1, <3>3, <4>1 DEF Copying, Half
    <3> QED BY <3>1, <3>2, <3>3
  <2>2. /\ Half(Shared(cn[s])'[1], Id(s))
        /\ pc[s] = "put2" => Half(Shared(cn[s])'[2], Id(s))
    BY <1>1, <1>5 DEF Copying, Half
  <2>3. met \subseteq met' /\ out' = out
    BY <1>1
  <2>4. pc'[s] = IF pc[s] = "put1" THEN "put2" ELSE "take"
    BY <1>1 DEF TypeOK
  <2> QED
    BY <1>1, <1>6, <2>1, <2>2, <2>3, <2>4 DEF Copying, Half, Shared
<1>10. EmptyHanded' /\ AboutToSucceed'
  <2>1. Under' = Under
    BY <1>1, UnderSame DEF daemon
  <2> QED
    BY <1>1, <1>6, <2>1 DEF daemon, EmptyHanded, AboutToSucceed, TypeOK
<1>11. MixedOnlyIfMet' /\ SuccessKept'
  BY <1>1, Remaining DEF daemon
<1>12. Saving'
  <2>1. CASE cn[s] = Store
    <3>1. Tolerances' = Tolerances
      BY <1>1, <2>1 DEF Put
    <3>2. \A t \in Sites : pc[t] = "put2" /\ cn[t] = Setting
                            => pc'[t] = "put2" /\ cn'[t] = Setting
      BY <1>6, <2>1 DEF Store, Setting
    <3>3. HalfPut # {} => HalfPut' # {}
      BY <3>2 DEF HalfPut
    <3> QED BY <1>1, <3>1, <3>3, SavingRemains DEF setting
  <2>2. CASE cn[s] = Setting /\ pc[s] = "put1"
    <3>0. Shared(cn[s]) = Tolerances /\ Shared(cn[s])' = Tolerances'
      BY <1>1, <2>2 DEF Shared, Store, Setting
    <3>1. Tolerances'[2] = Tolerances[2]
      BY <1>5, <2>2, <3>0
    <3>2. pc'[s] = "put2" /\ cn'[s] = Setting
      BY <1>1, <2>2 DEF TypeOK
    <3>3. HalfPut' # {}
      BY <3>2 DEF HalfPut
    <3> QED BY <1>1, <3>1, <3>3 DEF Saving, Known, setting
  <2>3. CASE cn[s] = Setting /\ pc[s] = "put2"
    <3>0. Shared(cn[s]) = Tolerances /\ Shared(cn[s])' = Tolerances'
      BY <1>1, <2>3 DEF Shared, Store, Setting
    <3>1. Tolerances'[1] = Tolerances[1] /\ Tolerances'[2] = Id(s)
      BY <1>5, <2>3, <3>0
    <3>2. Half(Tolerances[1], Id(s))
      BY <2>3 DEF Copying, Shared, Store, Setting
    <3>3. Known(Tolerances)'
      BY <1>1, <3>1, <3>2 DEF Known, Half
    <3>4. page' = page /\ pageOut' = pageOut
      BY <1>1 DEF setting
    <3>5. page = "copy2" => Id(s) \in met'
      BY <1>1, <2>3
    <3> QED BY <1>1, <3>1, <3>3, <3>4, <3>5 DEF Saving, Known
  <2> QED BY <1>1, <1>2, <2>1, <2>2, <2>3
<1> QED BY <1>7, <1>8, <1>9, <1>10, <1>11, <1>12

(* The record is copied out of the segment.                                 *)
LEMMA TakeKeeps ==
  ASSUME IInv, NEW s \in Sites, Take(s)
  PROVE  IInv'
<1> USE DEF IInv
<1>1. /\ pc[s] = "take"
      /\ pc' = [pc EXCEPT ![s] = IF cn[s] = Store THEN "send" ELSE "save"]
      /\ out' = [out EXCEPT ![s] = Shared(cn[s])]
      /\ UNCHANGED <<setting, got, cn, tries, segment, file, queue, daemon, history>>
  BY DEF Take, To
<1>2. Shared(cn[s]) \in Records
  BY DEF Shared, TypeOK
<1>3. \A t \in Sites : /\ Id(t)' = Id(t) /\ cn'[t] = cn[t]
                       /\ t # s => pc'[t] = pc[t] /\ out'[t] = out[t]
  BY <1>1 DEF Id, TypeOK
<1>4. \A x : Shared(x)' = Shared(x)
  BY <1>1 DEF Shared, segment
<1>5. TypeOK'
  BY <1>1, <1>2 DEF TypeOK, setting, segment, daemon, history
<1>6. Serving'
  BY <1>1, <1>3 DEF Serving, TypeOK
<1>7. Meeting'
  BY <1>1, <1>3 DEF Meeting, history, TypeOK
<1>8. Copying'
  <2>1. out'[s] = Shared(cn[s]) /\ met' = met
    BY <1>1 DEF TypeOK, history
  <2>2. pc'[s] \in {"send", "save"}
    BY <1>1 DEF TypeOK
  <2> QED
    BY <1>1, <1>3, <1>4, <2>1, <2>2 DEF Copying, Half
<1>9. EmptyHanded' /\ AboutToSucceed'
  <2>1. Under' = Under
    BY <1>1, UnderSame DEF daemon
  <2> QED
    BY <1>1, <1>3, <2>1 DEF daemon, history, EmptyHanded, AboutToSucceed, TypeOK
<1>10. MixedOnlyIfMet' /\ SuccessKept'
  BY <1>1, Remaining DEF daemon, history
<1>11. Saving'
  <2>1. \A t \in Sites : pc[t] = "put2" => pc'[t] = "put2"
    BY <1>1, <1>3
  <2>2. HalfPut # {} => HalfPut' # {}
    BY <1>3, <2>1 DEF HalfPut
  <2> QED BY <1>1, <2>2, SavingRemains DEF setting, segment, history
<1> QED BY <1>5, <1>6, <1>7, <1>8, <1>9, <1>10, <1>11

(* The copy goes into the parameter file.                                   *)
LEMMA SaveKeeps ==
  ASSUME IInv, NEW s \in Sites, Save(s)
  PROVE  IInv'
<1> USE DEF IInv
<1>1. /\ pc[s] = "save" /\ cn[s] = Setting
      /\ pc' = [pc EXCEPT ![s] = "answer"] /\ file' = out[s]
      /\ out' = [out EXCEPT ![s] = Empty]
      /\ UNCHANGED <<setting, got, cn, tries, segment, queue, daemon, history>>
  BY DEF Save, To, Serving
<1>2. /\ pc'[s] = "answer" /\ cn' = cn /\ met' = met
      /\ dropped' = dropped /\ \A x : Shared(x)' = Shared(x)
      /\ \A t \in Sites :
           Id(t)' = Id(t) /\ (t # s => pc'[t] = pc[t] /\ out'[t] = out[t])
  BY <1>1 DEF Id, TypeOK, Shared, segment, history
<1>3. TypeOK'
  BY <1>1, Pairs DEF TypeOK, setting, segment, daemon, history
<1>4. Serving' /\ Meeting'
  BY <1>1, <1>2 DEF Serving, Meeting
<1>5. Copying'
  BY <1>1, <1>2 DEF Copying, Half
<1>6. Under' = Under
  BY <1>1, UnderSame DEF daemon
<1>7. EmptyHanded' /\ AboutToSucceed'
  BY <1>1, <1>2, <1>6
  DEF daemon, EmptyHanded, AboutToSucceed, Store, Setting
<1>8. MixedOnlyIfMet'
  <2>1. file'[1] # file'[2] => {file'[1], file'[2]} \cap met # {}
    BY <1>1, GoodHalves DEF Copying
  <2>2. queue' = queue /\ met' = met
    BY <1>1 DEF history
  <2> QED BY <1>6, <2>1, <2>2 DEF MixedOnlyIfMet
<1>9. SuccessKept'
  BY <1>1, <1>6 DEF SuccessKept, history
<1>10. Saving'
  <2>1. \A t \in Sites : pc[t] = "put2" => pc'[t] = "put2"
    BY <1>1, <1>2
  <2>2. HalfPut # {} => HalfPut' # {}
    BY <1>2, <2>1 DEF HalfPut
  <2> QED BY <1>1, <2>2, SavingRemains DEF setting, segment, history
<1> QED BY <1>3, <1>4, <1>5, <1>7, <1>8, <1>9, <1>10

(* The message joins its site's queue.                                      *)
LEMMA EnqueueKeeps ==
  ASSUME IInv, NEW s \in Sites, Enqueue(s)
  PROVE  IInv'
<1> USE DEF IInv
<1>1. /\ pc[s] = "send" /\ Len(queue[s]) < Cap
      /\ queue' = [queue EXCEPT ![s] = Append(queue[s], out[s])]
      /\ tries' = [tries EXCEPT ![s] = 0] /\ pc' = [pc EXCEPT ![s] = "answer"]
      /\ out' = [out EXCEPT ![s] = Empty]
      /\ UNCHANGED <<setting, got, cn, segment, file, daemon, history>>
  BY DEF Enqueue, SendEnds, To
<1>2. queue[s] \in Seq(Records) /\ out[s] \in Records /\ Len(queue[s]) \in Nat
  BY DEF TypeOK
<1>3. PICK q \in Seq(Records) :
        /\ q = Append(queue[s], out[s]) /\ Len(q) = Len(queue[s]) + 1
        /\ \A i \in 1..Len(queue[s]) : q[i] = queue[s][i]
        /\ q[Len(queue[s]) + 1] = out[s]
  BY <1>2, Appended, ZenonT(40)
<1>4. queue'[s] = q /\ \A t \in Sites : t # s => queue'[t] = queue[t]
  BY <1>1, <1>3 DEF TypeOK
<1>5. \A t \in Sites :
        Id(t)' = Id(t) /\ (t # s => pc'[t] = pc[t] /\ out'[t] = out[t])
  BY <1>1 DEF Id, TypeOK
<1>6. \A i \in 1..Len(q) : i \in 1..Len(queue[s]) \/ i = Len(queue[s]) + 1
  BY <1>2, <1>3
<1>7. Under' = Under \cup {out[s]}
  <2>1. Waiting' = Waiting \cup {out[s]}
    <3>1. ASSUME NEW r \in Waiting' PROVE r \in Waiting \cup {out[s]}
      <4>1. PICK t \in Sites : \E i \in 1..Len(queue'[t]) : r = queue'[t][i]
        BY <3>1 DEF Waiting
      <4> QED BY SMTT(30), <1>3, <1>4, <1>6, <4>1 DEF Waiting
    <3>2. ASSUME NEW r \in Waiting PROVE r \in Waiting'
      <4>0. PICK t \in Sites : \E i \in 1..Len(queue[t]) : r = queue[t][i]
        BY <3>2 DEF Waiting
      <4>1. PICK i \in 1..Len(queue[t]) : r = queue[t][i]
        BY <4>0
      <4>2. t = s => i \in 1..Len(q)
        BY <1>2, <1>3, <4>1
      <4>3. i \in 1..Len(queue'[t]) /\ r = queue'[t][i]
        BY <1>3, <1>4, <4>1, <4>2
      <4> QED BY <4>3 DEF Waiting
    <3>3. out[s] \in Waiting'
      <4>1. Len(queue[s]) + 1 \in 1..Len(q)
        BY <1>2, <1>3
      <4> QED BY <1>3, <1>4, <4>1 DEF Waiting
    <3> QED BY <3>1, <3>2, <3>3
  <2> QED BY <1>1, <2>1 DEF Under, daemon
<1>8. TypeOK'
  <2>1. \A t \in Sites : Len(queue'[t]) <= Cap
    BY <1>1, <1>2, <1>3, <1>4, Numbers DEF TypeOK
  <2>2. queue' \in [Sites -> Seq(Records)]
    BY <1>1, <1>3 DEF TypeOK
  <2>3. 0 \in 0..(Retries - 1)
    BY Numbers
  <2>4. out' \in [Sites -> Records]
    BY <1>1, Pairs DEF TypeOK
  <2> QED
    BY <1>1, <2>1, <2>2, <2>3, <2>4 DEF TypeOK, setting, segment, daemon, history
<1>9. Serving' /\ Meeting'
  BY <1>1, <1>5 DEF Serving, Meeting, history, TypeOK
<1>10. Copying'
  BY <1>1, <1>5 DEF Copying, Half, Shared, segment, history, TypeOK
<1>11. EmptyHanded'
  BY <1>1 DEF EmptyHanded, daemon
<1>12. AboutToSucceed'
  <2>1. Id(s) \notin met => out[s] = Whole(Id(s))
    BY <1>1, <1>2, Pairs DEF Copying, Half, Whole
  <2> QED
    BY <1>1, <1>5, <1>7, <2>1 DEF AboutToSucceed, history, TypeOK
<1>13. MixedOnlyIfMet'
  <2>1. out[s][1] # out[s][2] => {out[s][1], out[s][2]} \cap met # {}
    BY <1>1, GoodHalves DEF Copying
  <2>2. out[s][1] \in met \/ out[s][1][1] \in {0, s}
    BY <1>1, OwnSite DEF Copying, Half
  <2>3. \A t \in Sites : \A i \in 1..Len(queue'[t]) :
          queue'[t][i][1] \in met \/ queue'[t][i][1][1] \in {0, t}
    <3>1. \A i \in 1..Len(q) : q[i][1] \in met \/ q[i][1][1] \in {0, s}
      BY <1>3, <1>6, <2>2 DEF MixedOnlyIfMet
    <3> QED BY <1>4, <3>1 DEF MixedOnlyIfMet
  <2>4. met' = met /\ file' = file
    BY <1>1 DEF history
  <2> QED BY <1>7, <2>1, <2>3, <2>4 DEF MixedOnlyIfMet
<1>14. SuccessKept'
  BY <1>1, <1>7 DEF SuccessKept, history
<1>15. Saving'
  <2>1. \A t \in Sites : pc[t] = "put2" => pc'[t] = "put2"
    BY <1>1, <1>5
  <2>2. HalfPut # {} => HalfPut' # {}
    BY <1>1, <1>5, <2>1 DEF HalfPut
  <2> QED BY <1>1, <2>2, SavingRemains DEF setting, segment, history
<1> QED BY <1>8, <1>9, <1>10, <1>11, <1>12, <1>13, <1>14, <1>15

(* Another attempt, or none: what is not queued counts as dropped.          *)
LEMMA FullQueueKeeps ==
  ASSUME IInv, NEW s \in Sites, RetrySend(s) \/ GiveUp(s)
  PROVE  IInv'
<1> USE DEF IInv
<1>1. /\ pc[s] = "send" /\ dropped \subseteq dropped'
      /\ UNCHANGED <<setting, got, cn, segment, file, queue, daemon, success, met>>
  BY DEF RetrySend, GiveUp, history
<1>2. /\ Under' = Under
      /\ \A x : Shared(x)' = Shared(x)
      /\ \A t \in Sites : Id(t)' = Id(t)
  BY <1>1, UnderSame DEF daemon, Shared, segment, Id
<1>3. \/ pc' = pc /\ dropped' = dropped /\ out' = out
      \/ /\ pc' = [pc EXCEPT ![s] = "answer"]
         /\ dropped' = dropped \cup {Id(s)}
         /\ out' = [out EXCEPT ![s] = Empty]
  BY DEF RetrySend, GiveUp, SendEnds, To, history
<1>4. \A t \in Sites : t # s => pc'[t] = pc[t] /\ out'[t] = out[t]
  BY <1>3 DEF TypeOK
<1>5. pc'[s] \in {"send", "answer"}
  BY <1>1, <1>3 DEF TypeOK
<1>6. TypeOK'
  <2>1. tries[s] \in 0..(Retries - 1)
    BY DEF TypeOK
  <2>2. tries' \in [Sites -> 0..(Retries - 1)]
    <3>1. CASE RetrySend(s)
      <4>1. tries[s] + 1 \in 0..(Retries - 1)
        BY <2>1, <3>1, Numbers DEF RetrySend
      <4> QED BY <3>1, <4>1 DEF RetrySend, TypeOK
    <3>2. CASE GiveUp(s)
      <4>1. 0 \in 0..(Retries - 1)
        BY Numbers
      <4> QED BY <3>2, <4>1 DEF GiveUp, SendEnds, TypeOK
    <3> QED BY <3>1, <3>2
  <2>3. dropped' \subseteq Ids
    BY <1>1, <1>3 DEF Serving, TypeOK
  <2>4. pc' \in [Sites -> {"idle", "put1", "put2", "take", "save", "send", "answer"}]
    BY <1>3 DEF TypeOK
  <2>5. out' \in [Sites -> Records]
    <3>1. out \in [Sites -> Records] /\ Empty \in Records
      BY Pairs DEF TypeOK
    <3>2. out' = out \/ out' = [out EXCEPT ![s] = Empty]
      BY <1>3
    <3> QED BY <3>1, <3>2
  <2> QED
    BY <1>1, <2>2, <2>3, <2>4, <2>5 DEF TypeOK, setting, segment, daemon
<1>7. Serving' /\ Meeting'
  BY <1>1, <1>2, <1>4, <1>5 DEF Serving, Meeting
<1>8. Copying'
  <2>1. pc'[s] = "send" => out' = out
    BY <1>1, <1>3 DEF TypeOK
  <2> QED BY <1>1, <1>2, <1>4, <1>5, <2>1 DEF Copying, Half
<1>9. EmptyHanded'
  BY <1>1 DEF EmptyHanded, daemon
<1>10. AboutToSucceed'
  <2>1. pc'[s] = "answer" => Id(s) \in dropped'
    BY <1>1, <1>3
  <2> QED BY <1>1, <1>2, <1>4, <2>1 DEF AboutToSucceed
<1>11. MixedOnlyIfMet' /\ SuccessKept'
  BY <1>1, Remaining DEF daemon
<1>12. Saving'
  <2>1. \A t \in Sites : pc[t] = "put2" => pc'[t] = "put2"
    BY <1>1, <1>4
  <2>2. HalfPut # {} => HalfPut' # {}
    BY <1>1, <1>2, <2>1 DEF HalfPut
  <2> QED BY <1>1, <2>2, SavingRemains DEF setting, segment
<1> QED BY <1>6, <1>7, <1>8, <1>9, <1>10, <1>11, <1>12

(* The answer; and the death of up_main, which ends every request.          *)
LEMMA AnswerKeeps ==
  ASSUME IInv, NEW s \in Sites, Answer(s)
  PROVE  IInv'
<1> USE DEF IInv
<1>1. /\ pc[s] = "answer"
      /\ pc' = [pc EXCEPT ![s] = "idle"] /\ cn' = [cn EXCEPT ![s] = "none"]
      /\ success' = IF cn[s] = Store THEN success \cup {Id(s)} ELSE success
      /\ UNCHANGED <<setting, got, tries, out, segment, file, queue, daemon, dropped, met>>
  BY DEF Answer, To
<1>2. /\ Under' = Under
      /\ \A x : Shared(x)' = Shared(x)
      /\ \A t \in Sites : Id(t)' = Id(t)
  BY <1>1, UnderSame DEF daemon, Shared, segment, Id
<1>3. /\ pc'[s] = "idle"
      /\ \A t \in Sites : t # s => pc'[t] = pc[t] /\ cn'[t] = cn[t]
  BY <1>1 DEF TypeOK
<1>4. TypeOK'
  BY <1>1, Pairs DEF TypeOK, Serving, setting, segment, daemon
<1>5. Serving' /\ Meeting'
  BY <1>1, <1>2, <1>3 DEF Serving, Meeting
<1>6. Copying'
  BY <1>1, <1>2, <1>3 DEF Copying, Half
<1>7. EmptyHanded' /\ AboutToSucceed'
  BY <1>1, <1>2, <1>3 DEF EmptyHanded, AboutToSucceed, daemon
<1>8. MixedOnlyIfMet'
  BY <1>1, <1>2 DEF MixedOnlyIfMet
<1>9. SuccessKept'
  BY <1>1, <1>2 DEF SuccessKept, AboutToSucceed
<1>10. Saving'
  <2>1. \A t \in Sites : pc[t] = "put2" => pc'[t] = "put2" /\ cn'[t] = cn[t]
    BY <1>1, <1>3
  <2>2. HalfPut # {} => HalfPut' # {}
    BY <2>1 DEF HalfPut
  <2> QED BY <1>1, <2>2, SavingRemains DEF setting, segment
<1> QED BY <1>4, <1>5, <1>6, <1>7, <1>8, <1>9, <1>10

LEMMA UpMainKeeps ==
  ASSUME IInv, UpMainDies
  PROVE  IInv'
<1> USE DEF IInv
<1>1. /\ pc' = [t \in Sites |-> "idle"] /\ cn' = [t \in Sites |-> "none"]
      /\ tries' = [t \in Sites |-> 0] /\ out' = [t \in Sites |-> Empty]
      /\ UNCHANGED <<setting, got, segment, file, queue, daemon, success, dropped>>
      /\ met' = met \cup HalfPut
  BY DEF UpMainDies
<1>2. \A t \in Sites : pc'[t] = "idle"
  BY <1>1
<1>3. TypeOK'
  <2>1. 0 \in 0..(Retries - 1)
    BY Numbers
  <2> QED BY <1>1, <2>1, Pairs, HalfPutFacts DEF TypeOK, setting, segment, daemon
<1>4. Serving' /\ Meeting' /\ Copying' /\ AboutToSucceed' /\ EmptyHanded'
  BY <1>1, <1>2 DEF Serving, Meeting, Copying, AboutToSucceed, EmptyHanded, daemon
<1>5. MixedOnlyIfMet' /\ SuccessKept'
  BY <1>1, Remaining DEF daemon
<1>6. Saving'
  <2>1. Known(Tolerances)'
    BY <1>1, NowKnown DEF Known, segment
  <2> QED BY <1>1, <2>1 DEF Saving, Known, setting, segment
<1> QED BY <1>3, <1>4, <1>5, <1>6

(* A step that leaves up_main and the segment alone, and nothing of what is *)
(* under way behind, but what it counts as dropped.                         *)
LEMMA DataprocFrame ==
  ASSUME IInv, UNCHANGED <<thread, setting, segment, file, success, met>>,
         dropped \subseteq dropped',
         \A x \in Ids : Whole(x) \in Under => x \in dropped' \/ Whole(x) \in Under'
  PROVE  Serving' /\ Meeting' /\ Copying' /\ Saving' /\ AboutToSucceed' /\ SuccessKept'
<1> USE DEF IInv
<1>1. /\ \A x : Shared(x)' = Shared(x)
      /\ \A t \in Sites : Id(t)' = Id(t)
      /\ UNCHANGED <<got, pc, cn, out, met, success>>
  BY DEF Shared, segment, Id, thread
<1>2. Serving' /\ Meeting' /\ Copying'
  BY <1>1 DEF Serving, Meeting, Copying, Half
<1>3. AboutToSucceed'
  BY <1>1 DEF AboutToSucceed, Serving
<1>4. SuccessKept'
  BY <1>1 DEF SuccessKept, TypeOK
<1>5. Saving'
  <2>1. HalfPut' = HalfPut
    BY <1>1 DEF HalfPut, Id
  <2> QED BY <1>1, <2>1, SavingRemains DEF setting, segment
<1> QED BY <1>2, <1>3, <1>4, <1>5

LEMMA NextSiteKeeps ==
  ASSUME IInv, NextSite
  PROVE  at' \in Sites
  BY Numbers DEF IInv, TypeOK, NextSite, Sites

(* dataproc turns without a message.                                        *)
LEMMA TurnKeeps ==
  ASSUME IInv, Start \/ Skip \/ NullQueue
  PROVE  IInv'
<1> USE DEF IInv
<1>1. UNCHANGED <<thread, setting, segment, file, queue, msg, stored, history>>
  BY DEF Start, Skip, NullQueue
<1>2. Under' = Under
  BY <1>1, UnderSame
<1>3. /\ at' \in Sites /\ known' \subseteq Sites /\ dpc' \in {"start", "read", "store"}
      /\ dpc' # "store" => dpc # "store"
  <2>1. 1 \in Sites
    BY Numbers DEF Sites
  <2>2. CASE Skip
    BY <2>2, NextSiteKeeps DEF Skip, TypeOK
  <2>3. CASE Start \/ NullQueue
    BY <2>1, <2>3 DEF Start, NullQueue, TypeOK
  <2> QED BY <2>2, <2>3
<1>4. TypeOK'
  BY <1>1, <1>3 DEF TypeOK, thread, setting, segment, history
<1>5. Serving' /\ Meeting' /\ Copying' /\ Saving' /\ AboutToSucceed' /\ SuccessKept'
  BY <1>1, <1>2, DataprocFrame DEF history
<1>6. EmptyHanded'
  BY <1>1, <1>3 DEF EmptyHanded
<1>7. MixedOnlyIfMet'
  BY <1>1, Remaining DEF history
<1> QED BY <1>4, <1>5, <1>6, <1>7

(* The head of a queue goes into dataproc's hand.                           *)
LEMMA ReceiveKeeps ==
  ASSUME IInv, Receive
  PROVE  IInv'
<1> USE DEF IInv
<1>1. /\ dpc = "read" /\ queue[at] # <<>> /\ at \in Sites
      /\ msg' = Head(queue[at]) /\ queue' = [queue EXCEPT ![at] = Tail(queue[at])]
      /\ dpc' = "store"
      /\ UNCHANGED <<thread, setting, segment, file, at, known, stored, history>>
  BY DEF Receive, TypeOK
<1>2. msg = Empty
  BY <1>1 DEF EmptyHanded
<1>3. queue[at] \in Seq(Records)
  BY <1>1 DEF TypeOK
<1>4. PICK q \in Seq(Records) :
        /\ q = Tail(queue[at]) /\ Len(q) = Len(queue[at]) - 1
        /\ \A i \in 1..Len(q) : q[i] = queue[at][i + 1]
  BY <1>1, <1>3, Tailed
<1>5. /\ msg' = queue[at][1] /\ msg' \in Records
      /\ Len(queue[at]) \in Nat /\ Len(queue[at]) > 0
  BY <1>1, <1>3, Tailed
<1>6. queue'[at] = q /\ \A t \in Sites : t # at => queue'[t] = queue[t]
  BY <1>1, <1>4 DEF TypeOK
<1>7. \A t \in Sites : \A i \in 1..Len(queue'[t]) :
        \E j \in 1..Len(queue[t]) : queue'[t][i] = queue[t][j]
  <2>1. \A i \in 1..Len(q) : i + 1 \in 1..Len(queue[at]) /\ q[i] = queue[at][i + 1]
    BY <1>4, <1>5
  <2> QED BY <1>6, <2>1
<1>8. Under' \subseteq Under
  <2>1. Waiting' \subseteq Waiting
    BY <1>7 DEF Waiting
  <2>2. msg' \in Waiting
    <3>1. 1 \in 1..Len(queue[at])
      BY <1>5
    <3> QED BY <1>1, <1>5, <3>1 DEF Waiting
  <2> QED BY <1>1, <2>1, <2>2 DEF Under
<1>9. \A x \in Ids : Whole(x) \in Under => Whole(x) \in Under'
  <2>1. ASSUME NEW r \in Waiting PROVE r \in Waiting' \/ r = msg'
    <3>1. PICK t \in Sites : \E i \in 1..Len(queue[t]) : r = queue[t][i]
      BY <2>1 DEF Waiting
    <3>2. PICK i \in 1..Len(queue[t]) : r = queue[t][i]
      BY <3>1
    <3>3. CASE t # at
      BY <1>6, <3>2, <3>3 DEF Waiting
    <3>4. CASE t = at /\ i = 1
      BY <1>5, <3>2, <3>4
    <3>5. CASE t = at /\ i # 1
      <4>1. i - 1 \in 1..Len(q) /\ (i - 1) + 1 = i
        BY <1>4, <1>5, <3>2, <3>5
      <4>2. q[i - 1] = r
        BY <1>4, <3>2, <3>5, <4>1
      <4>3. i - 1 \in 1..Len(queue'[t]) /\ r = queue'[t][i - 1]
        BY <1>6, <3>5, <4>1, <4>2
      <4> QED BY SMTT(30), <4>3 DEF Waiting
    <3> QED BY <3>3, <3>4, <3>5
  <2> QED BY <1>1, <1>2, <2>1, NotNone DEF Under
<1>10. TypeOK'
  <2>1. \A t \in Sites : Len(queue'[t]) <= Cap
    <3>1. Len(queue[at]) <= Cap /\ \A t \in Sites : Len(queue[t]) <= Cap
      BY <1>1 DEF TypeOK
    <3>2. Len(q) <= Cap
      BY <1>4, <1>5, <3>1, Numbers
    <3> QED BY <1>6, <3>1, <3>2
  <2>2. queue' \in [Sites -> Seq(Records)]
    BY <1>1, <1>4 DEF TypeOK
  <2> QED BY <1>1, <1>5, <2>1, <2>2 DEF TypeOK, thread, setting, segment, history
<1>11. Serving' /\ Meeting' /\ Copying' /\ Saving' /\ AboutToSucceed' /\ SuccessKept'
  BY <1>1, <1>9, DataprocFrame DEF history
<1>12. EmptyHanded'
  BY <1>1 DEF EmptyHanded
<1>13. MixedOnlyIfMet'
  <2>1. met' = met /\ file' = file
    BY <1>1 DEF history
  <2>2. \A t \in Sites : \A i \in 1..Len(queue'[t]) :
          queue'[t][i][1] \in met \/ queue'[t][i][1][1] \in {0, t}
    BY <1>7 DEF MixedOnlyIfMet
  <2> QED BY <1>8, <2>1, <2>2 DEF MixedOnlyIfMet
<1> QED BY <1>10, <1>11, <1>12, <1>13

(* What is in hand is stored, or lost with dataproc.                        *)
LEMMA HandKeeps ==
  ASSUME IInv, Insert \/ DataprocDies
  PROVE  IInv'
<1> USE DEF IInv
<1>1. /\ msg' = Empty /\ dpc' \in {"start", "read"}
      /\ UNCHANGED <<thread, setting, segment, file, queue, known, success, met>>
      /\ at' \in Sites
      /\ \/ stored' = stored \cup {msg} /\ dropped' = dropped
         \/ /\ stored' = stored
            /\ dropped' = dropped \cup (Ids \cap {msg[1], msg[2]})
  BY NextSiteKeeps DEF Insert, DataprocDies, history, TypeOK
<1>2. Waiting' = Waiting
  BY <1>1 DEF Waiting
<1>3. TypeOK'
  BY <1>1, Pairs DEF TypeOK, thread, setting, segment
<1>4. Under' \subseteq Under \cup {Empty}
  BY <1>1, <1>2 DEF Under
<1>5. \A x \in Ids : Whole(x) \in Under => x \in dropped' \/ Whole(x) \in Under'
  BY <1>1, <1>2 DEF Under, Whole
<1>6. Serving' /\ Meeting' /\ Copying' /\ Saving' /\ AboutToSucceed' /\ SuccessKept'
  BY <1>1, <1>5, DataprocFrame
<1>7. EmptyHanded'
  BY <1>1 DEF EmptyHanded
<1>8. MixedOnlyIfMet'
  BY <1>1, <1>4, Pairs DEF MixedOnlyIfMet
<1> QED BY <1>3, <1>6, <1>7, <1>8

(* The settings page copies the tolerances and writes the file.             *)
LEMMA SettingsKeep ==
  ASSUME IInv, Settings
  PROVE  IInv'
<1> USE DEF IInv
<1>1. /\ UNCHANGED <<thread, segment, queue, daemon, success, dropped>>
      /\ met' = met \/ (Copy1 /\ met' = met \cup HalfPut)
      /\ file' = file \/ (Write /\ file' = pageOut /\ met' = met)
  BY DEF Settings, SaveSite, SaveOther, Copy1, Copy2, Write, InterfaceDies, history
<1>2. /\ \A x : Shared(x)' = Shared(x)
      /\ \A t \in Sites : Id(t)' = Id(t)
      /\ UNCHANGED <<got, pc, cn, tries, out>>
      /\ Under' = Under /\ met \subseteq met' /\ met' \subseteq Ids
  BY <1>1, UnderSame, HalfPutFacts DEF Shared, segment, Id, thread, daemon, TypeOK
<1>3. TypeOK'
  <2>1. /\ ServerOpen' \in [Sites -> BOOLEAN]
        /\ page' \in {"idle", "copy1", "copy2", "write"}
    BY Numbers
    DEF Settings, SaveSite, SaveOther, Copy1, Copy2, Write, InterfaceDies, TypeOK
  <2>2. pageOut' \in Records /\ file' \in Records
    <3>1. Tolerances \in Records /\ pageOut \in Records
      BY DEF TypeOK
    <3>2. \A x, y \in Records : <<x[1], y[2]>> \in Records /\ <<x[1], None>> \in Records
      BY DEF Records
    <3>3. CASE Copy1
      BY <3>1, <3>2, <3>3 DEF Copy1, TypeOK
    <3>4. CASE Copy2
      BY <3>1, <3>2, <3>4 DEF Copy2, TypeOK
    <3>5. CASE Write \/ InterfaceDies
      BY <3>1, <3>5, Pairs DEF Write, InterfaceDies, TypeOK
    <3>6. CASE SaveOther \/ \E t \in Switched : SaveSite(t)
      BY <3>1, <3>6 DEF SaveOther, SaveSite, TypeOK
    <3> QED BY <3>3, <3>4, <3>5, <3>6 DEF Settings
  <2> QED BY <1>1, <1>2, <2>1, <2>2 DEF TypeOK, segment, daemon
<1>4. Serving' /\ Meeting' /\ Copying' /\ AboutToSucceed' /\ EmptyHanded'
  BY <1>1, <1>2 DEF Serving, Meeting, Copying, Half, AboutToSucceed, EmptyHanded, daemon
<1>5. Saving'
  <2>1. Tolerances' = Tolerances /\ HalfPut' = HalfPut
    BY <1>1, <1>2 DEF segment, HalfPut
  <2>2. (Known(Tolerances) \/ HalfPut # {})'
    BY <1>2, <2>1 DEF Saving, Known
  <2>3. CASE Copy1
    <3>1. page' = "copy2" /\ pageOut'[1] = Tolerances[1] /\ met' = met \cup HalfPut
      BY <2>3, Pairs DEF Copy1, TypeOK
    <3>2. Known(<<pageOut[1], Tolerances[2]>>)'
      BY <2>1, <3>1, NowKnown DEF Known
    <3> QED BY <2>2, <3>1, <3>2 DEF Saving
  <2>4. CASE Copy2
    <3>1. /\ page = "copy2" /\ page' = "write" /\ met' = met
          /\ pageOut' = <<pageOut[1], Tolerances[2]>>
      BY <2>4 DEF Copy2, history
    <3> QED BY <2>1, <2>2, <3>1 DEF Saving, Known
  <2>5. CASE ~Copy1 /\ ~Copy2
    <3>1. page' \in {"idle", "copy1"}
      BY <2>5 DEF Settings, SaveSite, SaveOther, Write, InterfaceDies
    <3> QED BY <2>2, <3>1 DEF Saving
  <2> QED BY <2>3, <2>4, <2>5
<1>6. MixedOnlyIfMet'
  <2>1. file'[1] # file'[2] => {file'[1], file'[2]} \cap met' # {}
    <3>1. CASE file' = file
      BY <1>2, <3>1 DEF MixedOnlyIfMet
    <3>2. CASE Write /\ file' = pageOut
      BY <1>2, <3>2 DEF Write, Saving, Known
    <3> QED BY <1>1, <3>1, <3>2
  <2> QED BY <1>1, <1>2, <2>1 DEF MixedOnlyIfMet
<1>7. SuccessKept'
  BY <1>1, <1>2 DEF SuccessKept
<1> QED BY <1>3, <1>4, <1>5, <1>6, <1>7

LEMMA StepKeeps ==
  ASSUME IInv, [Next]_vars
  PROVE  IInv'
<1>1. CASE \/ \E s \in Sites, c \in {Store, Setting} : Accept(s, c)
           \/ (\E s \in Sites : Handler(s)) \/ UpMainDies
  BY <1>1, AcceptKeeps, PutKeeps, TakeKeeps, SaveKeeps, EnqueueKeeps,
     FullQueueKeeps, AnswerKeeps, UpMainKeeps
  DEF Handler
<1>2. CASE Dataproc \/ DataprocDies \/ Settings
  BY <1>2, TurnKeeps, ReceiveKeeps, HandKeeps, SettingsKeep DEF Dataproc
<1>3. CASE UNCHANGED vars
  <2>1. /\ UNCHANGED <<thread, setting, segment, file, queue, daemon, history>>
        /\ Under' = Under
    BY <1>3, UnderSame DEF vars, daemon
  <2>2. TypeOK'
    BY <2>1 DEF IInv, TypeOK, thread, setting, segment, daemon, history
  <2>3. Serving' /\ Meeting' /\ Copying' /\ Saving' /\ AboutToSucceed' /\ SuccessKept'
    BY <2>1, DataprocFrame DEF history
  <2>4. EmptyHanded' /\ MixedOnlyIfMet'
    BY <2>1, Remaining DEF IInv, EmptyHanded, daemon, history
  <2> QED BY <2>2, <2>3, <2>4 DEF IInv
<1> QED BY <1>1, <1>2, <1>3 DEF Next

-----------------------------------------------------------------------------
(* How far every record is its request's own, in the segment, in a thread   *)
(* and under way (protocl_gb212.c 949-1001).                                *)
THEOREM RequestInvariant == Spec => []IInv
<1>1. Init => IInv
  BY InitHolds
<1>2. IInv /\ [Next]_vars => IInv'
  BY StepKeeps
<1> QED BY <1>1, <1>2, PTL DEF Spec

(* Every variable keeps its range.                                          *)
THEOREM TypeCorrect == Spec => []TypeOK
  BY RequestInvariant, PTL DEF IInv

(* Records are mixed, or sent for another's, only when requests met one     *)
(* another, or tolerances met a save of the settings page or the death of   *)
(* up_main (protocl_gb212.c 949-950, 997-1001, frmconfig.cpp 462).          *)
THEOREM OnlyMetMix == Spec => []MixedOnlyIfMet
  BY RequestInvariant, PTL DEF IInv

(* Data answered with success are stored or on their way, if nobody met     *)
(* them, the queue had room and dataproc did not die with them.             *)
THEOREM SuccessIsKept == Spec => []SuccessKept
  BY RequestInvariant, PTL DEF IInv
=============================================================================

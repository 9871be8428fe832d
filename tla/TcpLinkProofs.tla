--------------------------- MODULE TcpLinkProofs ---------------------------
(* Proofs about TcpLink, for every number of sites and descriptors.         *)
EXTENDS TcpLink, TLAPS

(* Where a thread must have a descriptor, and where it has none.            *)
Standing ==
  \A s \in Sites :
    /\ pc[s] \in {"connect", "raise", "give_up", "close"} => dev_fd[s] \in Fds
    /\ pc[s] = "socket" => dev_fd[s] \notin Fds

(* The socket a thread holds: new and on its way, or connected to its own   *)
(* platform once.                                                           *)
Fresh(s, f) == sock[f].st = "fresh" /\ pc[s] \in {"connect", "give_up"}
Own(s, f)   == sock[f].st \notin {"free", "fresh"} /\ sock[f].site = s
Held        == \A s \in Sites, f \in Fds : Holds(s, f) => Fresh(s, f) \/ Own(s, f)

(* While nobody shut it, the descriptor read for sending is still held.     *)
Sent == spc = "send" /\ ~shut /\ sfd \in Fds => Holds(to, sfd)

IInv == TypeOK /\ Standing /\ Held /\ SocketsOwned /\ FlagEarned /\ Sent

-----------------------------------------------------------------------------
LEMMA FirstSite == 1 \in Sites /\ Free \in [st : States, site : Sites \cup {0}]
<1>1. NSites \in Nat /\ NSites # 0
  BY TcpLinkAssumption DEF TcpLinkAssumption
<1> QED BY <1>1 DEF Sites, Free, States

LEMMA InitHolds == ASSUME Init PROVE IInv
<1> USE DEF Init
<1>1. TypeOK
  BY FirstSite DEF TypeOK
<1>2. \A s \in Sites, f \in Fds : ~Holds(s, f)
  BY DEF Holds
<1> QED
  BY <1>1, <1>2 DEF IInv, Standing, Held, SocketsOwned, FlagEarned, Sent, Fds, Free

(* socket(): the thread held nothing, and nobody held the number it gets.   *)
LEMMA SocketKeeps ==
  ASSUME IInv, NEW s \in Sites, Socket(s)
  PROVE  IInv'
<1> USE DEF IInv, Sites, Fds
<1>1. CASE /\ dev_fd' = [dev_fd EXCEPT ![s] = -1]
           /\ pc' = [pc EXCEPT ![s] = Stop(s)] /\ sock' = sock
  BY <1>1 DEF Socket, Stop, TypeOK, Standing, Held, SocketsOwned, FlagEarned,
              Sent, Holds, Fresh, Own, sender
<1>2. ASSUME NEW g \in FreeFds,
             dev_fd' = [dev_fd EXCEPT ![s] = g],
             pc' = [pc EXCEPT ![s] = "connect"],
             sock' = [sock EXCEPT ![g] = [st |-> "fresh", site |-> 0]]
      PROVE  IInv'
  <2>1. g \in Fds /\ sock[g].st = "free" /\ pc[s] \in {"socket", "reopen"}
    BY DEF Socket, FreeFds
  <2>2. \A t \in Sites : ~Holds(t, g)
    BY <2>1 DEF Held, Fresh, Own
  <2>3. TypeOK'
    BY <1>2, <2>1 DEF Socket, TypeOK, States, sender
  <2>4. \A t \in Sites, f \in Fds :
          Holds(t, f)' <=> \/ t = s /\ f = g
                           \/ t # s /\ f # g /\ Holds(t, f)
    BY <1>2, <2>1, <2>2 DEF Holds, TypeOK
  <2>5. \A f \in Fds : ~Holds(s, f)
    BY <2>1 DEF Holds
  <2>6. Standing'
    BY <1>2, <2>1 DEF Standing, TypeOK
  <2>7. Held'
    BY <1>2, <2>1, <2>4 DEF Held, Fresh, Own, TypeOK
  <2>8. SocketsOwned'
    BY <1>2, <2>1, <2>4, <2>5 DEF SocketsOwned, TypeOK
  <2>9. FlagEarned'
    <3>1. \A t \in Sites : pc[t] = "recv" /\ dev_fd[t] \in Fds => dev_fd[t] # g
      BY <2>2 DEF Holds
    <3>2. inner' = inner /\ isConnected' = isConnected
      BY DEF Socket
    <3>3. ASSUME NEW t \in Sites, inner'[t], isConnected'[t] = 1
          PROVE  t # s /\ pc[t] = "recv" /\ dev_fd[t] \in Fds /\ sock[dev_fd[t]].site = t
      BY <2>1, <3>2, <3>3 DEF FlagEarned
    <3>4. ASSUME NEW t \in Sites, inner'[t], isConnected'[t] = 1
          PROVE  /\ pc'[t] = pc[t] /\ dev_fd'[t] = dev_fd[t]
                 /\ sock'[dev_fd[t]] = sock[dev_fd[t]]
      BY <1>2, <3>1, <3>3, <3>4 DEF TypeOK
    <3> QED BY <3>3, <3>4 DEF FlagEarned
  <2>10. Sent'
    BY <1>2, <2>1, <2>2, <2>4, <2>5 DEF Sent, Socket, sender, TypeOK
  <2> QED
    BY <2>3, <2>6, <2>7, <2>8, <2>9, <2>10
<1> QED
  BY <1>1, <1>2 DEF Socket

(* Steps of a thread that keep its socket: connect, and raising the flag.   *)
LEMMA ConnectKeeps ==
  ASSUME IInv, NEW s \in Sites, Connect(s)
  PROVE  IInv'
<1> USE DEF IInv
<1>1. pc[s] = "connect" /\ dev_fd[s] \in Fds /\ Holds(s, dev_fd[s])
  BY DEF Connect, Standing, Holds
<1>2. pc' \in {[pc EXCEPT ![s] = "raise"], [pc EXCEPT ![s] = "give_up"]}
  BY DEF Connect
<1>3. \A t \in Sites, f \in Fds : Holds(t, f)' <=> Holds(t, f)
  BY <1>1, <1>2 DEF Holds, Connect, TypeOK, sender
<1>4. sock' = sock \/ sock' = [sock EXCEPT ![dev_fd[s]] = [st |-> "up", site |-> s]]
  BY DEF Connect
<1>5. TypeOK'
  BY <1>1, <1>2, <1>4 DEF TypeOK, States, Connect, sender
<1>6. Standing'
  BY <1>1, <1>2 DEF Standing, Connect, TypeOK, sender
<1>7. Held'
  <2>1. CASE CanConnect(s)
    <3>1. sock' = [sock EXCEPT ![dev_fd[s]] = [st |-> "up", site |-> s]]
      BY <2>1 DEF Connect
    <3>2. \A f \in Fds : Holds(s, f) => Own(s, f)'
      BY <1>1, <3>1 DEF Own, Holds, TypeOK
    <3>3. ASSUME NEW t \in Sites, NEW f \in Fds, Holds(t, f), t # s
          PROVE  Fresh(t, f)' \/ Own(t, f)'
      <4>1. f # dev_fd[s]
        BY <1>1, <3>3 DEF SocketsOwned
      <4>2. sock'[f] = sock[f] /\ pc'[t] = pc[t]
        BY <1>2, <3>1, <3>3, <4>1 DEF TypeOK
      <4> QED BY <3>3, <4>2 DEF Held, Fresh, Own
    <3> QED BY <1>3, <3>2, <3>3 DEF Held
  <2>2. CASE ~CanConnect(s)
    <3>1. sock' = sock /\ pc' = [pc EXCEPT ![s] = "give_up"]
      BY <2>2 DEF Connect
    <3> QED BY <1>1, <1>3, <3>1 DEF Held, Fresh, Own, TypeOK
  <2> QED BY <2>1, <2>2
<1>8. SocketsOwned'
  BY <1>1, <1>3, <1>4 DEF SocketsOwned, TypeOK
<1>9. FlagEarned'
  <2>1. \A t \in Sites : pc[t] = "recv" /\ dev_fd[t] \in Fds => dev_fd[t] # dev_fd[s]
    BY <1>1 DEF SocketsOwned, Holds
  <2> QED
    BY <1>1, <1>2, <1>4, <2>1 DEF FlagEarned, TypeOK, Connect
<1>10. Sent'
  BY <1>3 DEF Sent, Connect, TypeOK, sender
<1> QED BY <1>5, <1>6, <1>7, <1>8, <1>9, <1>10

LEMMA RaiseKeeps ==
  ASSUME IInv, NEW s \in Sites, Raise(s)
  PROVE  IInv'
<1> USE DEF IInv, Sites, Fds
<1>1. Holds(s, dev_fd[s]) /\ dev_fd[s] \in Fds
  BY DEF Raise, At, Standing, Holds
<1>2. Own(s, dev_fd[s])
  BY <1>1 DEF Held, Fresh, Raise, At
<1> QED
  BY <1>1, <1>2 DEF Raise, At, TypeOK, Standing, Held, SocketsOwned, FlagEarned,
                    Sent, Holds, Fresh, Own, sender

(* close(): the thread gives up the only claim there is on the socket.      *)
LEMMA ShutKeeps ==
  ASSUME IInv, NEW s \in Sites, Shut(s),
         \/ At(s, "give_up", "drop")
         \/ At(s, "close", "reopen")
  PROVE  IInv'
<1> USE DEF IInv, Sites, Fds
<1>1. dev_fd[s] \in Fds /\ Holds(s, dev_fd[s])
  BY DEF At, Standing, Holds
<1>2. TypeOK'
  BY <1>1 DEF TypeOK, At, Shut, Free, States
<1>3. \A t \in Sites, f \in Fds : Holds(t, f)' <=> t # s /\ Holds(t, f)
  BY DEF Holds, At, Shut, TypeOK
<1>4. \A t \in Sites, f \in Fds : Holds(t, f)' => f # dev_fd[s]
  BY <1>1, <1>3 DEF SocketsOwned
<1>5. Standing'
  BY DEF Standing, At, Shut, TypeOK
<1>6. Held'
  <2>1. ASSUME NEW t \in Sites, NEW f \in Fds, Holds(t, f)'
        PROVE  /\ Holds(t, f) /\ sock'[f] = sock[f] /\ pc'[t] = pc[t]
    BY <1>3, <1>4, <2>1 DEF Shut, At, TypeOK
  <2> QED BY <2>1 DEF Held, Fresh, Own
<1>7. SocketsOwned'
  BY <1>1, <1>3, <1>4 DEF SocketsOwned, Shut, Free, TypeOK, Holds
<1>8. FlagEarned'
  <2>1. \A t \in Sites : t # s /\ pc[t] = "recv" /\ dev_fd[t] \in Fds
                           => dev_fd[t] # dev_fd[s]
    BY <1>1 DEF SocketsOwned, Holds
  <2> QED BY <1>1, <2>1, ZenonT(40) DEF FlagEarned, Shut, At, TypeOK
<1>9. Sent'
  BY <1>3 DEF Sent, Shut, TypeOK
<1> QED BY <1>2, <1>5, <1>6, <1>7, <1>8, <1>9

LEMMA DropKeeps ==
  ASSUME IInv, NEW s \in Sites, Drop(s)
  PROVE  IInv'
  BY DEF IInv, Sites, Fds, Drop, At, Stop, TypeOK, Standing, Held, SocketsOwned,
         FlagEarned, Sent, Holds, Fresh, Own, sender

(* recv: only a thread without a descriptor forgets it.                     *)
LEMMA RecvKeeps ==
  ASSUME IInv, NEW s \in Sites, RecvFails(s)
  PROVE  IInv'
<1> USE DEF IInv
<1>1. /\ pc[s] = "recv"
      /\ pc' = [pc EXCEPT ![s] = AfterRecv(s)]
      /\ AfterRecv(s) \in {"reopen", "close", "connect"}
      /\ AfterRecv(s) = "reopen" <=> dev_fd[s] \notin Fds
  <2>1. dev_fd[s] \in Fds => sock[dev_fd[s]].st # "none"
    BY DEF TypeOK, States
  <2> QED BY <2>1 DEF RecvFails, AfterRecv, Conn
<1>2. \A t \in Sites, f \in Fds : Holds(t, f)' <=> Holds(t, f)
  BY <1>1 DEF Holds, RecvFails, TypeOK
<1>3. TypeOK'
  BY <1>1 DEF TypeOK, RecvFails, sender
<1>4. Standing'
  BY <1>1 DEF Standing, RecvFails, TypeOK
<1>5. Held'
  <2>1. \A t \in Sites, f \in Fds : Fresh(t, f) => t # s
    BY <1>1 DEF Fresh
  <2>2. \A t \in Sites : t # s => pc'[t] = pc[t]
    BY <1>1 DEF TypeOK
  <2> QED BY <1>2, <2>1, <2>2 DEF Held, Fresh, Own, RecvFails
<1>6. SocketsOwned'
  BY <1>2 DEF SocketsOwned, RecvFails
<1>7. FlagEarned'
  BY <1>1 DEF FlagEarned, RecvFails, TypeOK
<1>8. Sent'
  BY <1>2 DEF Sent, RecvFails, TypeOK, sender
<1> QED BY <1>3, <1>4, <1>5, <1>6, <1>7, <1>8

(* The sending thread holds nothing; what it sends changes a state only.    *)
LEMMA SocketStateKeeps ==
  ASSUME IInv, UNCHANGED <<thread, isConnected>>,
         \A f \in Fds : /\ sock'[f].site = sock[f].site
                       /\ \/ sock'[f].st = sock[f].st
                          \/ {sock[f].st, sock'[f].st} \cap {"free", "fresh"} = {}
  PROVE  (Standing /\ Held /\ SocketsOwned /\ FlagEarned)'
<1> USE DEF IInv, thread
<1>1. \A t \in Sites, f \in Fds : Holds(t, f)' <=> Holds(t, f)
  BY DEF Holds
<1>2. Standing'
  BY DEF Standing
<1>3. Held'
  BY <1>1 DEF Held, Fresh, Own
<1>4. SocketsOwned'
  BY <1>1 DEF SocketsOwned
<1>5. FlagEarned'
  BY DEF FlagEarned
<1> QED BY <1>2, <1>3, <1>4, <1>5

LEMMA NextSiteKeeps ==
  ASSUME IInv, NextSite
  PROVE  to' \in Sites /\ spc' = "flag" /\ sfd' = -1 /\ shut' = FALSE
  BY TcpLinkAssumption DEF TcpLinkAssumption, IInv, TypeOK, NextSite, Sites

LEMMA SenderKeeps ==
  ASSUME IInv, Sender
  PROVE  IInv'
<1> USE DEF IInv
<1>1. CASE Skip
  <2>1. (Standing /\ Held /\ SocketsOwned /\ FlagEarned)'
    BY <1>1, SocketStateKeeps DEF Skip
  <2>2. TypeOK' /\ Sent'
    BY <1>1, NextSiteKeeps DEF Skip, TypeOK, Sent, thread
  <2> QED BY <2>1, <2>2
<1>2. CASE Tested
  <2>1. (Standing /\ Held /\ SocketsOwned /\ FlagEarned)'
    BY <1>2, SocketStateKeeps DEF Tested
  <2>2. TypeOK' /\ Sent'
    BY <1>2 DEF Tested, TypeOK, Sent, thread
  <2> QED BY <2>1, <2>2
<1>3. CASE ReadFd
  <2>1. (Standing /\ Held /\ SocketsOwned /\ FlagEarned)'
    BY <1>3, SocketStateKeeps DEF ReadFd
  <2>2. TypeOK'
    BY <1>3 DEF ReadFd, TypeOK, thread
  <2>3. Sent'
    <3>1. pc[to] \in {"drop", "reopen"} \/ Holds(to, dev_fd[to])
          \/ dev_fd[to] \notin Fds \/ pc[to] = "socket"
      BY DEF TypeOK, Holds
    <3> QED BY <1>3, <3>1 DEF ReadFd, Sent, Holds, TypeOK, Standing, thread
  <2> QED BY <2>1, <2>2, <2>3
<1>4. CASE Send
  <2>1. \A st \in States : /\ AfterSend(st) \in States
                           /\ \/ AfterSend(st) = st
                              \/ {st, AfterSend(st)} \cap {"free", "fresh"} = {}
    BY DEF AfterSend, States
  <2>2. \/ sock' = sock
        \/ sfd \in Fds /\ sock' = [sock EXCEPT ![sfd].st = AfterSend(@)]
    BY <1>4 DEF Send
  <2>3. TypeOK' /\ Sent'
    <3>1. /\ NextSite /\ UNCHANGED <<pc, inner, dev_fd, isConnected, reach>>
      BY <1>4 DEF Send, thread
    <3>2. /\ to' \in Sites /\ spc' = "flag" /\ sfd' = -1 /\ shut' = FALSE
      BY <3>1, NextSiteKeeps
    <3>3. sock' \in [Fds -> [st : States, site : Sites \cup {0}]]
      <4>1. CASE sock' = sock
        BY <4>1 DEF TypeOK
      <4>2. CASE sfd \in Fds /\ sock' = [sock EXCEPT ![sfd].st = AfterSend(@)]
        BY <2>1, <4>2 DEF TypeOK
      <4> QED BY <2>2, <4>1, <4>2
    <3> QED BY <3>1, <3>2, <3>3 DEF TypeOK, Sent
  <2>4. (Standing /\ Held /\ SocketsOwned /\ FlagEarned)'
    <3>1. \A f \in Fds : /\ sock'[f].site = sock[f].site
                         /\ \/ sock'[f].st = sock[f].st
                            \/ {sock[f].st, sock'[f].st} \cap {"free", "fresh"} = {}
      BY <2>1, <2>2 DEF TypeOK
    <3> QED BY <1>4, <3>1, SocketStateKeeps DEF Send
  <2> QED BY <2>3, <2>4
<1> QED BY <1>1, <1>2, <1>3, <1>4 DEF Sender

(* The world: a connection changes its state, and stays somebody's.         *)
LEMMA WorldKeeps ==
  ASSUME IInv,
         \/ \E s \in Sites : Outage(s)
         \/ \E f \in Fds : KernelGivesUp(f)
         \/ \E f \in Fds, st \in {"fin", "rst", "gone"} : Breaks(f, st)
  PROVE  IInv'
<1> USE DEF IInv
<1>1. ASSUME NEW s \in Sites, Outage(s) PROVE IInv'
  <2>1. (Standing /\ Held /\ SocketsOwned /\ FlagEarned)'
    BY <1>1, SocketStateKeeps DEF Outage
  <2>2. TypeOK' /\ Sent'
    BY <1>1 DEF Outage, TypeOK, Sent, Holds, thread, sender
  <2> QED BY <2>1, <2>2
<1>2. ASSUME NEW f \in Fds, NEW st \in {"fin", "rst", "gone"},
             sock[f].st \in {"up", "doomed"},
             sock' = [sock EXCEPT ![f].st = st],
             UNCHANGED <<thread, isConnected, reach, sender>>
      PROVE  IInv'
  <2>1. \A g \in Fds : /\ sock'[g].site = sock[g].site
                       /\ \/ sock'[g].st = sock[g].st
                          \/ {sock[g].st, sock'[g].st} \cap {"free", "fresh"} = {}
    BY <1>2 DEF TypeOK
  <2>2. (Standing /\ Held /\ SocketsOwned /\ FlagEarned)'
    BY <1>2, <2>1, SocketStateKeeps
  <2>3. TypeOK' /\ Sent'
    BY <1>2 DEF TypeOK, States, Sent, Holds, thread, sender
  <2> QED BY <2>2, <2>3
<1> QED BY <1>1, <1>2 DEF KernelGivesUp, Breaks

LEMMA DieKeeps ==
  ASSUME IInv, Die
  PROVE  IInv'
<1>1. TypeOK'
  BY FirstSite DEF IInv, Die, TypeOK
<1>2. \A s \in Sites, f \in Fds : ~Holds(s, f)'
  BY DEF Die, Holds
<1> QED
  BY <1>1, <1>2
  DEF IInv, Fds, Die, Free, Standing, Held, SocketsOwned, FlagEarned, Sent

LEMMA StepKeeps ==
  ASSUME IInv, [Next]_vars
  PROVE  IInv'
<1>1. ASSUME NEW s \in Sites, Receiver(s) PROVE IInv'
  BY <1>1, SocketKeeps, ConnectKeeps, RaiseKeeps, ShutKeeps, DropKeeps, RecvKeeps
  DEF Receiver, GiveUp, Close
<1>2. CASE UNCHANGED vars
  BY <1>2 DEF IInv, vars, thread, sender, TypeOK, Standing, Held, SocketsOwned,
              FlagEarned, Sent, Holds, Fresh, Own
<1> QED BY <1>1, <1>2, SenderKeeps, WorldKeeps, DieKeeps DEF Next

-----------------------------------------------------------------------------
(* The threads, their sockets and the sending thread's copy of a descriptor *)
(* stand in the relation IInv always (tcp_client.c 44-67 and 179-297).      *)
THEOREM LinkInvariant == Spec => []IInv
<1>1. Init => IInv
  BY InitHolds
<1>2. IInv /\ [Next]_vars => IInv'
  BY StepKeeps
<1> QED BY <1>1, <1>2, PTL DEF Spec

(* Every variable keeps its range.                                          *)
THEOREM TypeCorrect == Spec => []TypeOK
  BY LinkInvariant, PTL DEF IInv

(* Each open socket is the dev_fd of exactly one thread, through every      *)
(* order of failures of connect and recv (tcp_client.c 191-297).            *)
THEOREM SocketsAreOwned == Spec => []SocketsOwned
  BY LinkInvariant, PTL DEF IInv

(* isConnected, once the thread is in its inner loop, was set for the       *)
(* socket that dev_fd names (tcp_client.c 227, 291, 294).                   *)
THEOREM FlagsEarned == Spec => []FlagEarned
  BY LinkInvariant, PTL DEF IInv

(* A message reaches another platform only through the window between the   *)
(* test of isConnected and the send (tcp_client.c 56-57).                   *)
THEOREM OnlyShutStrays == Spec => []StraysOnlyIfShut
<1>1. IInv => StraysOnlyIfShut
  BY DEF IInv, TypeOK, Sent, Held, Fresh, Own, StraysOnlyIfShut
<1> QED BY <1>1, LinkInvariant, PTL
=============================================================================

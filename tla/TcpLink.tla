------------------------------ MODULE TcpLink ------------------------------
(***************************************************************************)
(* The connections of up_main.  One receiving thread per open site makes   *)
(* the socket, connects, receives, and reconnects when recv fails; the one *)
(* sending thread goes round the sites and sends on dev_fd when isConnected*)
(* says so.  Nothing orders the two: the sending thread reads the flag,    *)
(* then the descriptor, then calls send, and a descriptor number closed in *)
(* between may already belong to the connection of another site.           *)
(*                                                                         *)
(* isConnected lives in the parameter segment and survives up_main;        *)
(* dev_fd does not, and is 0 until the thread has its first socket.        *)
(* Data that is received changes nothing here.                             *)
(***************************************************************************)
EXTENDS Integers

CONSTANTS NSites,    \* sites that are open
          NFds       \* descriptor numbers left to sockets: 1..NFds

ASSUME TcpLinkAssumption == NSites \in Nat \ {0} /\ NFds \in Nat

Sites == 1..NSites
Fds   == 1..NFds

(* A socket: not connected yet; up; closed or reset by the platform; or     *)
(* dead without a word ("gone"), which the kernel finds out only after      *)
(* something was sent ("doomed").                                           *)
States == {"free", "fresh", "up", "fin", "rst", "gone", "doomed"}
Free   == [st |-> "free", site |-> 0]

VARIABLES
  pc,            \* where each receiving thread is
  inner,         \* it has entered the inner loop
  dev_fd,        \* the descriptor of each site, -1 for none
  isConnected,   \* SitePara[].isConnected
  sock,          \* what a descriptor number stands for in the kernel
  reach,         \* the platform can be reached
  spc, to, sfd,  \* the sending thread: step, site, the descriptor it read
  shut           \* history: the descriptor it read is not the site's any more

thread == <<pc, inner, dev_fd>>
sender == <<spc, to, sfd, shut>>
vars   == <<thread, isConnected, sock, reach, sender>>

Init ==
  /\ pc = [s \in Sites |-> "socket"]
  /\ inner = [s \in Sites |-> FALSE]
  /\ dev_fd = [s \in Sites |-> 0]
  /\ isConnected \in [Sites -> {0, 1}]
  /\ sock = [f \in Fds |-> Free]
  /\ reach \in [Sites -> BOOLEAN]
  /\ spc = "flag" /\ to = 1 /\ sfd = -1 /\ shut = FALSE

-----------------------------------------------------------------------------
(* A receiving thread.                                                      *)

At(s, here, there) == pc[s] = here /\ pc' = [pc EXCEPT ![s] = there]
Stop(s) == IF inner[s] THEN "recv" ELSE "socket"   \* where a failure leads

(* socket() takes a free number, or fails.  That it is the lowest one       *)
(* matters to nothing here.                                                 *)
FreeFds == {f \in Fds : sock[f].st = "free"}

Socket(s) ==
  /\ pc[s] \in {"socket", "reopen"}
  /\ \/ /\ FreeFds = {}
        /\ dev_fd' = [dev_fd EXCEPT ![s] = -1]
        /\ pc' = [pc EXCEPT ![s] = Stop(s)] /\ sock' = sock
     \/ \E f \in FreeFds :
          /\ dev_fd' = [dev_fd EXCEPT ![s] = f]
          /\ pc' = [pc EXCEPT ![s] = "connect"]
          /\ sock' = [sock EXCEPT ![f] = [st |-> "fresh", site |-> 0]]
  /\ UNCHANGED <<inner, isConnected, reach, sender>>

(* What the kernel knows of the descriptor of a site.                       *)
Conn(s) == IF dev_fd[s] \in Fds THEN sock[dev_fd[s]].st ELSE "none"

(* connect: a socket that was connected before is refused (EISCONN).        *)
CanConnect(s) == Conn(s) = "fresh" /\ reach[s]

Connect(s) ==
  /\ pc[s] = "connect"
  /\ IF CanConnect(s)
       THEN /\ pc' = [pc EXCEPT ![s] = "raise"]
            /\ sock' = [sock EXCEPT ![dev_fd[s]] = [st |-> "up", site |-> s]]
       ELSE pc' = [pc EXCEPT ![s] = "give_up"] /\ sock' = sock
  /\ UNCHANGED <<inner, dev_fd, isConnected, reach, sender>>

Raise(s) ==
  /\ At(s, "raise", "recv")
  /\ inner' = [inner EXCEPT ![s] = TRUE]
  /\ isConnected' = [isConnected EXCEPT ![s] = 1]
  /\ UNCHANGED <<dev_fd, sock, reach, sender>>

(* close().  The sending thread may have read the number just before.       *)
Shut(s) ==
  /\ sock' = [sock EXCEPT ![dev_fd[s]] = Free]
  /\ shut' = (shut \/ (spc = "send" /\ to = s))
  /\ UNCHANGED <<inner, dev_fd, isConnected, reach, spc, to, sfd>>

(* Mutant of GiveUp: the socket is not closed.                              *)
GiveUpOpen(s) == At(s, "give_up", "drop") /\ UNCHANGED <<inner, dev_fd,
                   isConnected, sock, reach, sender>>

GiveUp(s) == At(s, "give_up", "drop") /\ Shut(s)

(* Mutant of Drop: dev_fd keeps the number of the closed socket.            *)
DropKeepsFd(s) ==
  /\ At(s, "drop", Stop(s))
  /\ isConnected' = [isConnected EXCEPT ![s] = 0]
  /\ UNCHANGED <<inner, dev_fd, sock, reach, sender>>

Drop(s) ==
  /\ At(s, "drop", Stop(s))
  /\ dev_fd' = [dev_fd EXCEPT ![s] = -1]
  /\ isConnected' = [isConnected EXCEPT ![s] = 0]
  /\ UNCHANGED <<inner, sock, reach, sender>>

(* recv: -1 on a connection that was reset and on no descriptor, 0 when the *)
(* platform closed it; a full buffer is taken for a failure, too.           *)
Returns(s) == Conn(s) \in {"none", "rst", "fin", "up"}

(* Mutant of AfterRecv: only errors lead to a new connection.               *)
AfterRecvErrors(s) ==
  IF Conn(s) = "none" THEN "reopen"
  ELSE IF Conn(s) = "rst" THEN "close" ELSE "recv"

AfterRecv(s) ==
  IF Conn(s) = "none" THEN "reopen"
  ELSE IF Conn(s) = "rst" THEN "close" ELSE "connect"

(* Mutant of RecvFails: the flag is left up.                                *)
RecvFailsQuietly(s) ==
  /\ pc[s] = "recv" /\ Returns(s)
  /\ pc' = [pc EXCEPT ![s] = AfterRecv(s)]
  /\ UNCHANGED <<inner, dev_fd, isConnected, sock, reach, sender>>

RecvFails(s) ==
  /\ pc[s] = "recv" /\ Returns(s)
  /\ isConnected' = [isConnected EXCEPT ![s] = 0]
  /\ pc' = [pc EXCEPT ![s] = AfterRecv(s)]
  /\ UNCHANGED <<inner, dev_fd, sock, reach, sender>>

Close(s) == At(s, "close", "reopen") /\ Shut(s)

Receiver(s) == \/ Socket(s) \/ Connect(s) \/ Raise(s) \/ GiveUp(s) \/ Drop(s)
               \/ RecvFails(s) \/ Close(s)

-----------------------------------------------------------------------------
(* The sending thread: one message to every site, round and round.  The     *)
(* flag is looked at for up to three seconds, and once more before sending. *)

NextSite ==
  /\ to' = IF to = NSites THEN 1 ELSE to + 1
  /\ spc' = "flag" /\ sfd' = -1 /\ shut' = FALSE

Skip ==
  /\ spc = "flag" /\ isConnected[to] = 0
  /\ NextSite
  /\ UNCHANGED <<thread, isConnected, sock, reach>>

Tested ==
  /\ spc = "flag" /\ isConnected[to] = 1
  /\ spc' = "read"
  /\ UNCHANGED <<thread, isConnected, sock, reach, to, sfd, shut>>

(* dev_fd keeps the number of a closed socket until it is assigned again.   *)
ReadFd ==
  /\ spc = "read"
  /\ spc' = "send" /\ sfd' = dev_fd[to]
  /\ shut' = (pc[to] \in {"drop", "reopen"})
  /\ UNCHANGED <<thread, isConnected, sock, reach, to>>

(* What is sent into a dead connection makes the kernel find out.           *)
AfterSend(st) ==
  IF st = "fin" THEN "rst" ELSE IF st = "gone" THEN "doomed" ELSE st

Send ==
  /\ spc = "send"
  /\ sock' = IF sfd \in Fds
               THEN [sock EXCEPT ![sfd].st = AfterSend(@)] ELSE sock
  /\ NextSite
  /\ UNCHANGED <<thread, isConnected, reach>>

Sender == Skip \/ Tested \/ ReadFd \/ Send

-----------------------------------------------------------------------------
(* Networks and platforms.  A connection breaks only while its platform     *)
(* cannot be reached.                                                       *)

Outage(s) ==
  /\ reach' = [reach EXCEPT ![s] = ~@]
  /\ UNCHANGED <<thread, isConnected, sock, sender>>

Breaks(f, st) ==
  /\ sock[f].st = "up" /\ ~reach[sock[f].site]
  /\ sock' = [sock EXCEPT ![f].st = st]
  /\ UNCHANGED <<thread, isConnected, reach, sender>>

KernelGivesUp(f) ==
  /\ sock[f].st = "doomed"
  /\ sock' = [sock EXCEPT ![f].st = "rst"]
  /\ UNCHANGED <<thread, isConnected, reach, sender>>

(* up_main dies and is started again: the kernel closes its sockets, the    *)
(* flags stay as they are.                                                  *)
Die ==
  /\ pc' = [s \in Sites |-> "socket"]
  /\ inner' = [s \in Sites |-> FALSE]
  /\ dev_fd' = [s \in Sites |-> 0]
  /\ sock' = [f \in Fds |-> Free]
  /\ spc' = "flag" /\ to' = 1 /\ sfd' = -1 /\ shut' = FALSE
  /\ UNCHANGED <<isConnected, reach>>

Next ==
  \/ \E s \in Sites : Receiver(s) \/ Outage(s)
  \/ Sender
  \/ \E f \in Fds : KernelGivesUp(f)
                    \/ \E st \in {"fin", "rst", "gone"} : Breaks(f, st)
  \/ Die

Spec == Init /\ [][Next]_vars

(* The threads run and the kernel's retransmissions end.                    *)
FairSpec ==
  /\ Spec
  /\ \A s \in Sites : WF_vars(Receiver(s))
  /\ WF_vars(Sender)
  /\ \A f \in Fds : WF_vars(KernelGivesUp(f))

-----------------------------------------------------------------------------
TypeOK ==
  /\ pc \in [Sites -> {"socket", "connect", "raise", "give_up", "drop", "recv",
                       "close", "reopen"}]
  /\ inner \in [Sites -> BOOLEAN]
  /\ dev_fd \in [Sites -> Fds \cup {-1, 0}]
  /\ isConnected \in [Sites -> {0, 1}]
  /\ sock \in [Fds -> [st : States, site : Sites \cup {0}]]
  /\ reach \in [Sites -> BOOLEAN]
  /\ spc \in {"flag", "read", "send"}
  /\ to \in Sites
  /\ sfd \in Fds \cup {-1, 0}
  /\ shut \in BOOLEAN

(* The thread of site s has an open socket under dev_fd.                    *)
Holds(s, f) ==
  dev_fd[s] = f /\ pc[s] \in {"connect", "raise", "give_up", "recv", "close"}

(* Sockets are neither leaked nor shared (tcp_client.c 191-297): through    *)
(* every order of failures each open socket is the dev_fd of exactly one    *)
(* thread, so reconnecting for years uses no more numbers than sites.       *)
SocketsOwned ==
  \A f \in Fds :
    /\ sock[f].st # "free" => \E s \in Sites : Holds(s, f)
    /\ \A s, t \in Sites : Holds(s, f) /\ Holds(t, f) => s = t

(* A thread that made its descriptor still has it in the kernel, and one    *)
(* whose flag is up in the inner loop was connected to its own platform     *)
(* (tcp_client.c 227, 291, 294): the flag is only wrong about what became   *)
(* of that connection, or about a former life of up_main.                   *)
FlagEarned ==
  \A s \in Sites : inner[s] /\ isConnected[s] = 1 =>
    pc[s] = "recv" /\ dev_fd[s] \in Fds /\ sock[dev_fd[s]].site = s

(* A message reaches another site's platform only when the descriptor the   *)
(* sending thread read had been closed by its owner, before the read and    *)
(* not replaced yet, or between the read and the send (tcp_client.c 56-57   *)
(* against 243-247 and 289-290); otherwise only its own.                    *)
StraysOnlyIfShut ==
  spc = "send" /\ ~shut /\ sfd \in Fds /\ sock[sfd].st = "up"
    => sock[sfd].site = to

Up(s) == isConnected[s] = 1 /\ dev_fd[s] \in Fds
         /\ sock[dev_fd[s]] = [st |-> "up", site |-> s]

(* A platform that can be reached again gets its link back, whatever broke  *)
(* it: a connection that died without a word is found out because something *)
(* is sent on it every minute (tcp_client.c 156-177, 206-270).              *)
LinkComesBack ==
  \A s \in Sites : <>[]reach[s] /\ <>[][~Die]_vars => []<>Up(s)
=============================================================================

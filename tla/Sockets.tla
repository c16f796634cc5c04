------------------------------ MODULE Sockets ------------------------------
(***************************************************************************)
(* The part of the Linux kernel that both chat programs stand on: one      *)
(* process's descriptor table and the TCP endpoints its descriptors name.  *)
(* It is not code of the repository; it is modelled from how the programs  *)
(* call socket, accept, connect, recv, send and close.                     *)
(*                                                                         *)
(* Three facts matter to the programs and are kept:                        *)
(*   - a descriptor is a small number, always the LOWEST free one, and is  *)
(*     given out again as soon as it has been closed;                      *)
(*   - close() frees the number at once, but a recv() already in progress  *)
(*     keeps the endpoint itself alive and is not woken: the connection    *)
(*     ends (the peer sees FIN) only when the last reference is gone;      *)
(*   - the peer is another process: it may connect, send and close at any  *)
(*     moment, and what it sent is readable before its end-of-file is.     *)
(* An endpoint is a number that is never used twice, so that properties    *)
(* can say WHICH connection a descriptor names.                            *)
(***************************************************************************)
EXTENDS Integers, FiniteSets

CONSTANTS
  MaxFd,     \* descriptors are 0..MaxFd (stdio and the listener not counted)
  MaxSock,   \* bound: TCP endpoints created in a behaviour
  MaxQueue   \* bound: peer messages waiting unread on one endpoint

ASSUME SocketsAssumption ==
  /\ MaxFd \in Nat
  /\ MaxSock \in Nat \ {0}
  /\ MaxQueue \in Nat

Fd     == 0 .. MaxFd
Sock   == 1 .. MaxSock
NoSock == 0             \* "no endpoint": a closed descriptor
NotTcp == MaxSock + 1   \* any other socket: get_my_ip's datagram socket, a listener

VARIABLES
  fdtab,   \* what each descriptor names
  nsock,   \* number of TCP endpoints created so far
  st,      \* "none", "queued" (waiting for accept), "fresh", "est", "failed"
  unread,  \* number of peer messages that recv has not yet taken
  eof,     \* endpoints whose peer has closed its end
  rst      \* endpoints whose peer has answered a message with a reset

netVars == <<fdtab, nsock, st, unread, eof, rst>>

NetTypeOK ==
  /\ fdtab \in [Fd -> Sock \cup {NoSock, NotTcp}]
  /\ nsock \in 0 .. MaxSock
  /\ st \in [Sock -> {"none", "queued", "fresh", "est", "failed"}]
  /\ unread \in [Sock -> 0 .. MaxQueue]
  /\ eof \subseteq Sock
  /\ rst \subseteq Sock

NetInit ==
  /\ fdtab = [f \in Fd |-> NoSock]
  /\ nsock = 0
  /\ st = [s \in Sock |-> "none"]
  /\ unread = [s \in Sock |-> 0]
  /\ eof = {}
  /\ rst = {}

-----------------------------------------------------------------------------
(* Descriptors. *)

\* f is the descriptor the next socket() or accept() returns.
LowestFree(f) ==
  /\ fdtab[f] = NoSock
  /\ \A g \in Fd : g < f => fdtab[g] # NoSock

Bind(f, s) == fdtab' = [fdtab EXCEPT ![f] = s]

\* close(f); closing a descriptor that is not open (EBADF) changes nothing.
Close(f) == fdtab' = [fdtab EXCEPT ![f] = NoSock]

\* close() of every descriptor in F.
CloseAll(F) == fdtab' = [f \in Fd |-> IF f \in F THEN NoSock ELSE fdtab[f]]

Named(s) == \E f \in Fd : fdtab[f] = s

-----------------------------------------------------------------------------
(* Endpoints, as the program's own calls change them. *)

\* socket(AF_INET, SOCK_STREAM): a new, unconnected endpoint on descriptor f.
NewSocket(f, s) ==
  /\ nsock < MaxSock
  /\ s = nsock + 1
  /\ LowestFree(f)
  /\ Bind(f, s)
  /\ nsock' = s
  /\ st' = [st EXCEPT ![s] = "fresh"]
  /\ UNCHANGED <<unread, eof, rst>>

\* connect() succeeds.
Connected(s) ==
  /\ st' = [st EXCEPT ![s] = "est"]
  /\ UNCHANGED <<fdtab, nsock, unread, eof, rst>>

\* connect() fails and its caller closes the descriptor: the endpoint is dead.
Refused(s, f) ==
  /\ st' = [st EXCEPT ![s] = "failed"]
  /\ Close(f)
  /\ UNCHANGED <<nsock, unread, eof, rst>>

\* accept(): the oldest waiting connection, on descriptor f.
Accepted(f, s) ==
  /\ st[s] = "queued"
  /\ \A r \in Sock : r < s => st[r] # "queued"
  /\ LowestFree(f)
  /\ Bind(f, s)
  /\ st' = [st EXCEPT ![s] = "est"]
  /\ UNCHANGED <<nsock, unread, eof, rst>>

\* recv() on s can return: with data, with end-of-file or with an error.
Readable(s) == unread[s] > 0 \/ s \in eof \/ st[s] = "failed"

\* recv() takes everything that has arrived (buffers hold ten full messages).
Drain(s) ==
  /\ unread[s] > 0
  /\ unread' = [unread EXCEPT ![s] = 0]
  /\ UNCHANGED <<fdtab, nsock, st, eof, rst>>

\* send() on s: a peer that has closed answers with a reset, which may or may
\* not have arrived by the next send(); that one raises SIGPIPE.
Transmit(s) ==
  /\ rst' \in {rst, rst \cup (eof \cap {s})}
  /\ UNCHANGED <<fdtab, nsock, st, unread, eof>>

-----------------------------------------------------------------------------
(* The peers.  What a peer sends, or that it closes, while its connection   *)
(* still waits to be accepted cannot be told from the same thing happening *)
(* right after accept: nothing looks at an endpoint in between.            *)

PeerConnect ==
  /\ nsock < MaxSock
  /\ nsock' = nsock + 1
  /\ st' = [st EXCEPT ![nsock + 1] = "queued"]
  /\ UNCHANGED <<fdtab, unread, eof, rst>>

PeerSend(s) ==
  /\ st[s] = "est"
  /\ s \notin eof
  /\ unread[s] < MaxQueue
  /\ unread' = [unread EXCEPT ![s] = @ + 1]
  /\ UNCHANGED <<fdtab, nsock, st, eof, rst>>

PeerClose(s) ==
  /\ st[s] = "est"
  /\ s \notin eof
  /\ eof' = eof \cup {s}
  /\ UNCHANGED <<fdtab, nsock, st, unread, rst>>
=============================================================================

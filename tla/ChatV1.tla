------------------------------ MODULE ChatV1 ------------------------------
(***************************************************************************)
(* mid_project/chat.c: one process of the peer-to-peer chat.  Its threads: *)
(*   main            reads commands and carries each of them out;          *)
(*   accept_thread   accepts connections and enters them in the table;     *)
(*   recv_handler    one per table entry, started by add_connection.       *)
(* They share the table conns[], next_id and the descriptors.  What runs   *)
(* between lock and unlock of conns_mutex is one step here, but for a send *)
(* that blocks, which keeps the mutex until it returns; every access made  *)
(* without the mutex (recv, accept, close of a connection that was not     *)
(* added, the id read at the end of add_connection) is its own step.       *)
(*                                                                         *)
(* The recv thread started for connection id t is thread t.  home[t] is    *)
(* the endpoint id t was given to and seen[t] the first id that was still  *)
(* free when the connect that got id t made its duplicate check: they are  *)
(* not variables of the program, only the means to say whose id, whose     *)
(* thread and whose message, and what a check could have found.            *)
(*                                                                         *)
(* An operator X_Bug... stands before the X it is a wrong version of; it   *)
(* is used by no other definition, only to try the properties on.          *)
(***************************************************************************)
EXTENDS Sockets

CONSTANTS
  MaxConn,        \* MAX_CONN
  Dest,           \* destinations the user may type after "connect"
  Caller,         \* addresses incoming connections are made from
  MyIp,           \* this program's address, as get_my_ip reports it
  Loopback,       \* 127.0.0.1 with this program's port
  MallocMayFail   \* whether add_connection's malloc may return NULL

Slot == 0 .. MaxConn - 1
Id   == Sock           \* bound on next_id: every id costs an endpoint
Seen == 0 .. MaxSock + 1   \* 0: accepted, not connected to
NoRoute == "0.0.0.0"   \* get_my_ip's answer when connect() fails
NoDest  == "none"
Address == Dest \cup Caller \cup {NoDest}

ASSUME ChatV1Assumption ==
  /\ MaxConn \in Nat \ {0}
  /\ (Dest \cup Caller) \cap {NoRoute, NoDest} = {}
  /\ MallocMayFail \in BOOLEAN

VARIABLES
  used, cid, cfd, addr, next_id,   \* conns[] (used: the slots in use), next_id
  home, seen,                      \* what an id was given to: see above
  rpc, rslot, rfd, rsock,          \* recv threads: idx, fd, endpoint in recv
  mpc, mfd, msock, mdest,          \* main
  mseen,                           \* next_id at main's duplicate check
  apc, afd, asock, aslot,     \* accept thread
  server_running, listening,       \* the flag; server_sock is open
  proc                             \* "running", "exited", "killed"

tblVars  == <<used, cid, cfd, addr, next_id, home, seen>>
recvVars == <<rpc, rslot, rfd, rsock>>
mainVars == <<mpc, mfd, msock, mdest, mseen>>
accVars  == <<apc, afd, asock, aslot>>
runVars  == <<server_running, listening, proc>>
vars == <<netVars, tblVars, recvVars, mainVars, accVars, runVars>>

TypeOK ==
  /\ NetTypeOK
  /\ used \subseteq Slot
  /\ cid \in [Slot -> Id \cup {0}]
  /\ cfd \in [Slot -> Fd]
  /\ addr \in [Slot -> Address]
  /\ next_id \in 1 .. MaxSock + 1
  /\ home \in [Id -> Sock \cup {NoSock}]
  /\ seen \in [Id -> Seen]
  /\ rpc \in [Id -> {"none", "top", "call", "in", "err", "done"}]
  /\ rslot \in [Id -> Slot]
  /\ rfd \in [Id -> Fd]
  /\ rsock \in [Id -> Sock \cup {NoSock, NotTcp}]
  /\ mpc \in {"prompt", "check", "dup", "socket", "connect", "add", "drop",
              "close", "closeall", "goodbye", "send", "dead"}
  /\ mfd \in Fd
  /\ msock \in Sock \cup {NoSock}
  /\ mdest \in Dest \cup {NoDest}
  /\ mseen \in Seen
  /\ apc \in {"accept", "add", "report", "drop", "done"}
  /\ afd \in Fd
  /\ asock \in Sock \cup {NoSock}
  /\ aslot \in Slot
  /\ server_running \in BOOLEAN
  /\ listening \in BOOLEAN
  /\ proc \in {"running", "exited", "killed"}

\* main() has created, bound and put the listener in the listening state and
\* has started the accept thread; the table is empty.
Init ==
  /\ NetInit
  /\ used = {}
  /\ cid = [i \in Slot |-> 0]
  /\ cfd = [i \in Slot |-> 0]
  /\ addr = [i \in Slot |-> NoDest]
  /\ next_id = 1
  /\ home = [t \in Id |-> NoSock]
  /\ seen = [t \in Id |-> 0]
  /\ rpc = [t \in Id |-> "none"]
  /\ rslot = [t \in Id |-> 0]
  /\ rfd = [t \in Id |-> 0]
  /\ rsock = [t \in Id |-> NoSock]
  /\ mpc = "prompt" /\ mfd = 0 /\ msock = NoSock /\ mdest = NoDest /\ mseen = 0
  /\ apc = "accept" /\ afd = 0 /\ asock = NoSock /\ aslot = 0
  /\ server_running = TRUE
  /\ listening = TRUE
  /\ proc = "running"

-----------------------------------------------------------------------------
(* The table. *)

\* find_slot_by_id: the slot whose entry is in use and has this id.
HasId(i, id) == i \in used /\ cid[i] = id

\* The slot add_connection's loop stops at, and the case in which it does not.
FirstFree(i) == i \notin used /\ \A j \in Slot : j < i => j \in used
TableFull    == used = Slot

NewId_BugSlot(i)      == i + 1         \* id = i + 1
NewId(i)              == next_id       \* id = next_id++

\* What add_connection stores in slot i before malloc and pthread_create,
\* but for used.
Enter(i, f, a, k) ==
  /\ FirstFree(i)
  /\ next_id \in Id
  /\ cfd' = [cfd EXCEPT ![i] = f]
  /\ addr' = [addr EXCEPT ![i] = a]
  /\ cid' = [cid EXCEPT ![i] = NewId(i)]
  /\ seen' = [seen EXCEPT ![next_id] = k]
  /\ next_id' = next_id + 1

\* add_connection, for endpoint s on descriptor f: it starts recv thread
\* next_id on slot i.
AddOk(i, f, s, a, k) ==
  /\ Enter(i, f, a, k)
  /\ used' = used \cup {i}
  /\ home' = [home EXCEPT ![next_id] = s]
  /\ rpc' = [rpc EXCEPT ![next_id] = "top"]
  /\ rslot' = [rslot EXCEPT ![next_id] = i]
  /\ UNCHANGED <<rfd, rsock>>

\* add_connection returns -1: no free slot; pthread_create fails and the slot
\* is given back, its id used up; or malloc fails and the slot stays in use.
AddFails(f, s, a, k) ==
  \/ /\ TableFull
     /\ UNCHANGED tblVars
  \/ /\ \E i \in Slot : Enter(i, f, a, k)
     /\ UNCHANGED <<used, home>>
  \/ /\ MallocMayFail
     /\ \E i \in Slot : Enter(i, f, a, k) /\ used' = used \cup {i}
     /\ home' = [home EXCEPT ![next_id] = s]

\* used = 0 under the mutex; the other fields keep their values.
Free(i) ==
  /\ used' = used \ {i}
  /\ UNCHANGED <<cid, cfd, addr, next_id, home, seen>>

\* The process ends: its descriptors, table and threads are gone.
Vanish(how) ==
  /\ proc' = how
  /\ fdtab' = [f \in Fd |-> NoSock]
  /\ st' = [s \in Sock |-> "none"]
  /\ unread' = [s \in Sock |-> 0]
  /\ eof' = {}
  /\ rst' = {}
  /\ used' = {}
  /\ cid' = [i \in Slot |-> 0]
  /\ cfd' = [i \in Slot |-> 0]
  /\ addr' = [i \in Slot |-> NoDest]
  /\ rpc' = [t \in Id |-> IF rpc[t] = "none" THEN "none" ELSE "done"]
  /\ rslot' = [t \in Id |-> 0]
  /\ rfd' = [t \in Id |-> 0]
  /\ rsock' = [t \in Id |-> NoSock]
  /\ mpc' = "dead" /\ mfd' = 0 /\ msock' = NoSock /\ mdest' = NoDest /\ mseen' = 0
  /\ apc' = "done" /\ afd' = 0 /\ asock' = NoSock /\ aslot' = 0
  /\ server_running' = FALSE /\ listening' = FALSE
  /\ UNCHANGED <<nsock, next_id, home, seen>>

-----------------------------------------------------------------------------
(* recv_handler *)

\* No send that blocks keeps conns_mutex from the other threads.
MutexFree == mpc # "send"

ThreadEnds(t) ==
  /\ rpc' = [rpc EXCEPT ![t] = "done"]
  /\ rslot' = [rslot EXCEPT ![t] = 0]

\* Under the mutex: leave if the slot is free, else read its descriptor.
RecvTop(t) ==
  /\ rpc[t] = "top"
  /\ MutexFree
  /\ IF rslot[t] \in used
     THEN /\ rpc' = [rpc EXCEPT ![t] = "call"]
          /\ rfd' = [rfd EXCEPT ![t] = cfd[rslot[t]]]
          /\ UNCHANGED rslot
     ELSE /\ ThreadEnds(t)
          /\ UNCHANGED rfd
  /\ UNCHANGED <<rsock, netVars, tblVars, mainVars, accVars, runVars>>

\* recv(fd) starts, without the mutex: the kernel looks up what the descriptor
\* names NOW.  Nothing: EBADF.  A socket that is not connected yet: ENOTCONN,
\* or a wait if its connect() is under way.
RecvCall(t) ==
  /\ rpc[t] = "call"
  /\ LET x == fdtab[rfd[t]] IN
       \/ /\ x # NoSock
          /\ rpc' = [rpc EXCEPT ![t] = "in"]
          /\ rsock' = [rsock EXCEPT ![t] = x]
       \/ /\ x = NoSock \/ (x \in Sock /\ st[x] = "fresh")
          /\ rpc' = [rpc EXCEPT ![t] = "err"]
          /\ UNCHANGED rsock
  /\ rfd' = [rfd EXCEPT ![t] = 0]
  /\ UNCHANGED <<rslot, netVars, tblVars, mainVars, accVars, runVars>>

AfterData_BugLeaves == "done"   \* the loop ends after one message
AfterData == "top"

\* recv returns n > 0, the message is printed and the loop goes round.
RecvData(t) ==
  /\ rpc[t] = "in"
  /\ rsock[t] \in Sock
  /\ Drain(rsock[t])
  /\ rpc' = [rpc EXCEPT ![t] = AfterData]
  /\ rsock' = [rsock EXCEPT ![t] = NoSock]
  /\ UNCHANGED <<rslot, rfd, tblVars, mainVars, accVars, runVars>>

AfterEnd_BugZero == "top"   \* n = 0 is not taken for the end
AfterEnd == "err"

\* recv returns n <= 0.
RecvEnd(t) ==
  /\ rpc[t] = "in"
  /\ rsock[t] \in Sock
  /\ Readable(rsock[t])
  /\ unread[rsock[t]] = 0
  /\ rpc' = [rpc EXCEPT ![t] = AfterEnd]
  /\ rsock' = [rsock EXCEPT ![t] = NoSock]
  /\ UNCHANGED <<rslot, rfd, netVars, tblVars, mainVars, accVars, runVars>>

Occupied_BugUnchecked(t) == TRUE   \* without "if (conns[idx].used)"
Occupied(t) == rslot[t] \in used

Release_BugKept(i) == UNCHANGED tblVars   \* without used = 0
Release(i) == Free(i)

\* Under the mutex: close the descriptor of slot idx and free the slot, if it
\* is in use; the thread ends.
RecvDrop(t) ==
  /\ rpc[t] = "err"
  /\ MutexFree
  /\ ThreadEnds(t)
  /\ IF Occupied(t)
     THEN Close(cfd[rslot[t]]) /\ Release(rslot[t])
     ELSE UNCHANGED <<fdtab, tblVars>>
  /\ UNCHANGED <<nsock, st, unread, eof, rst, rfd, rsock,
                 mainVars, accVars, runVars>>

RecvThread(t) ==
  \/ RecvTop(t)
  \/ RecvCall(t)
  \/ RecvData(t)
  \/ RecvEnd(t)
  \/ RecvDrop(t)

-----------------------------------------------------------------------------
(* accept_thread *)

\* while (server_running): the test at the end of a round.
AccAgain == apc' = IF server_running THEN "accept" ELSE "done"

\* accept returns a connection; one that was already waiting in accept when
\* the listener was closed may still do so.
AccReturn ==
  /\ apc = "accept"
  /\ \E f \in Fd, s \in Sock :
       /\ Accepted(f, s)
       /\ afd' = f
       /\ asock' = s
  /\ apc' = "add"
  /\ UNCHANGED <<aslot, tblVars, recvVars, mainVars, runVars>>

\* accept fails, on the closed listener or for want of a descriptor for a
\* waiting connection: with server_running 0 the thread ends, else it retries.
AccError ==
  /\ apc = "accept"
  /\ ~server_running
  /\ \/ ~listening
     \/ (\E s \in Sock : st[s] = "queued") /\ (\A f \in Fd : fdtab[f] # NoSock)
  /\ apc' = "done"
  /\ UNCHANGED <<afd, asock, aslot, netVars, tblVars, recvVars, mainVars,
                 runVars>>

\* add_connection up to its unlock, with the address accept has filled in.
AccAdd ==
  /\ apc = "add"
  /\ MutexFree
  /\ \E a \in Caller :
       \/ \E i \in Slot :
            /\ AddOk(i, afd, asock, a, 0)
            /\ aslot' = i
            /\ afd' = 0
            /\ apc' = "report"
       \/ /\ AddFails(afd, asock, a, 0)
          /\ apc' = "drop"
          /\ UNCHANGED <<afd, aslot, recvVars>>
  /\ UNCHANGED <<asock, netVars, mainVars, runVars>>

\* return conns[i].id, read after the unlock, and printf("ID: %d\n", id).
AccReport ==
  /\ apc = "report"
  /\ AccAgain
  /\ asock' = NoSock /\ aslot' = 0
  /\ UNCHANGED <<afd, netVars, tblVars, recvVars, mainVars, runVars>>

CloseNew_BugOpen == UNCHANGED fdtab   \* without close(clientfd)
CloseNew == Close(afd)

\* close(clientfd) of a connection that was not added.
AccDrop ==
  /\ apc = "drop"
  /\ CloseNew
  /\ AccAgain
  /\ afd' = 0 /\ asock' = NoSock
  /\ UNCHANGED <<aslot, nsock, st, unread, eof, rst, tblVars, recvVars,
                 mainVars, runVars>>

AcceptThread ==
  \/ AccReturn
  \/ AccError
  \/ AccAdd
  \/ AccReport
  \/ AccDrop

-----------------------------------------------------------------------------
(* main: the commands.  help, myport and list change nothing. *)

MainUnchanged == UNCHANGED <<recvVars, accVars, runVars>>
Prompt == mpc' = "prompt" /\ mfd' = 0 /\ msock' = NoSock /\ mdest' = NoDest /\ mseen' = 0

\* cmd_terminate, all of it under the mutex.
CmdTerminate(id) ==
  /\ mpc = "prompt"
  /\ \E i \in Slot : HasId(i, id) /\ Close(cfd[i]) /\ Free(i)
  /\ UNCHANGED <<nsock, st, unread, eof, rst, mainVars>>
  /\ MainUnchanged

\* The peer does not read and the buffers on the way to it are full: send()
\* waits, with the mutex held.
SendBlocks(s) ==
  /\ st[s] = "est" /\ s \notin eof
  /\ mpc' = "send" /\ msock' = s
  /\ UNCHANGED <<mfd, mdest, mseen, netVars, tblVars>>
  /\ MainUnchanged

\* cmd_send, under the mutex: on a connection the peer has reset, SIGPIPE ends
\* the process; otherwise send returns (with an error if the descriptor is
\* closed), or blocks.
CmdSend(id) ==
  /\ mpc = "prompt"
  /\ \E i \in Slot :
       /\ HasId(i, id)
       /\ fdtab[cfd[i]] \in Sock
       /\ LET s == fdtab[cfd[i]] IN
          \/ /\ s \in rst
             /\ Vanish("killed")
          \/ /\ s \notin rst
             /\ Transmit(s)
             /\ UNCHANGED <<tblVars, mainVars>>
             /\ MainUnchanged
          \/ SendBlocks(s)

\* The blocked send fails, because the peer has closed without reading: with
\* an error, or with SIGPIPE.
SendFails ==
  /\ mpc = "send"
  /\ msock \in eof
  /\ \/ Vanish("killed")
     \/ Transmit(msock) /\ Prompt /\ UNCHANGED tblVars /\ MainUnchanged

\* get_my_ip, called by myip and by cmd_connect: socket() of a datagram socket.
Probe(d) ==
  /\ mpc = "prompt"
  /\ \E f \in Fd : LowestFree(f) /\ Bind(f, NotTcp) /\ mfd' = f
  /\ mpc' = "check"
  /\ mdest' = d
  /\ UNCHANGED <<msock, mseen, nsock, st, unread, eof, rst, tblVars>>
  /\ MainUnchanged

CmdMyIp      == Probe(NoDest)
CmdConnect   == \E d \in Dest : Probe(d)

\* get_my_ip when socket() fails: 127.0.0.1 is taken for the own address.
CmdConnectNoProbe ==
  /\ mpc = "prompt"
  /\ \E d \in Dest \ {Loopback} : mdest' = d
  /\ mpc' = "dup"
  /\ UNCHANGED <<mfd, msock, mseen, netVars, tblVars>>
  /\ MainUnchanged

\* get_my_ip closes its socket; cmd_connect refuses its own address.
SelfCheck ==
  /\ mpc = "check"
  /\ Close(mfd)
  /\ \/ /\ mdest \in {NoDest, MyIp}
        /\ Prompt
     \/ /\ mdest # NoDest
        /\ \E ip \in {MyIp, NoRoute} : mdest # ip
        /\ mpc' = "dup"
        /\ mfd' = 0
        /\ UNCHANGED <<msock, mdest, mseen>>
  /\ UNCHANGED <<nsock, st, unread, eof, rst, tblVars>>
  /\ MainUnchanged

Duplicate_BugNever == FALSE
Duplicate == \E i \in used : addr[i] = mdest

\* cmd_connect refuses an address that is in the table (under the mutex).
DupCheck ==
  /\ mpc = "dup"
  /\ IF Duplicate
     THEN Prompt
     ELSE mpc' = "socket" /\ mseen' = next_id /\ UNCHANGED <<mfd, msock, mdest>>
  /\ UNCHANGED <<netVars, tblVars>>
  /\ MainUnchanged

\* socket() for the connection.
MainSocket ==
  /\ mpc = "socket"
  /\ \E f \in Fd, s \in Sock :
       /\ NewSocket(f, s)
       /\ mfd' = f
       /\ msock' = s
  /\ mpc' = "connect"
  /\ UNCHANGED <<mdest, mseen, tblVars>>
  /\ MainUnchanged

\* socket() fails.
MainNoSocket ==
  /\ mpc = "socket"
  /\ Prompt
  /\ UNCHANGED <<netVars, tblVars>>
  /\ MainUnchanged

\* connect() succeeds, or it or inet_pton fails and the socket is closed.
MainConnect ==
  /\ mpc = "connect"
  /\ \/ Connected(msock) /\ mpc' = "add" /\ UNCHANGED <<mfd, msock, mdest, mseen>>
     \/ Refused(msock, mfd) /\ Prompt
  /\ UNCHANGED tblVars
  /\ MainUnchanged

\* add_connection; its result is only compared with 0.
MainAdd ==
  /\ mpc = "add"
  /\ \/ \E i \in Slot : AddOk(i, mfd, msock, mdest, mseen) /\ Prompt
     \/ /\ AddFails(mfd, msock, mdest, mseen)
        /\ mpc' = "drop"
        /\ UNCHANGED <<mfd, msock, mdest, mseen, recvVars>>
  /\ UNCHANGED <<netVars, accVars, runVars>>

\* close(sock) of a connection that was not added.
MainDrop ==
  /\ mpc = "drop"
  /\ Close(mfd)
  /\ Prompt
  /\ UNCHANGED <<nsock, st, unread, eof, rst, tblVars>>
  /\ MainUnchanged

-----------------------------------------------------------------------------
(* main: cleanup_and_exit, after "exit" or end of input. *)

CmdExit ==
  /\ mpc = "prompt"
  /\ server_running' = FALSE
  /\ mpc' = "close"
  /\ UNCHANGED <<mfd, msock, mdest, mseen, listening, proc, netVars, tblVars,
                 recvVars, accVars>>

CloseListener ==
  /\ mpc = "close"
  /\ listening' = FALSE
  /\ mpc' = "closeall"
  /\ UNCHANGED <<mfd, msock, mdest, mseen, server_running, proc, netVars, tblVars,
                 recvVars, accVars>>

ToClose_BugStops == {cfd[i] : i \in {j \in used : \A k \in Slot : k < j => k \in used}}
ToClose == {cfd[i] : i \in used}

\* The loop over the table, under the mutex.
CloseConnections ==
  /\ mpc = "closeall"
  /\ CloseAll(ToClose)
  /\ used' = {}
  /\ mpc' = "goodbye"
  /\ UNCHANGED <<mfd, msock, mdest, mseen, nsock, st, unread, eof, rst,
                 cid, cfd, addr, next_id, home, seen>>
  /\ MainUnchanged

\* "All connections closed. Exiting." and exit(0).
Exit ==
  /\ mpc = "goodbye"
  /\ Vanish("exited")

Command ==
  \/ \E id \in Id : CmdTerminate(id) \/ CmdSend(id)
  \/ CmdMyIp
  \/ CmdConnect
  \/ CmdConnectNoProbe
  \/ CmdExit

\* The steps main takes by itself once a command has been given.
MainStep ==
  \/ SendFails
  \/ SelfCheck
  \/ DupCheck
  \/ MainSocket
  \/ MainNoSocket
  \/ MainConnect
  \/ MainAdd
  \/ MainDrop
  \/ CloseListener
  \/ CloseConnections
  \/ Exit

-----------------------------------------------------------------------------
(* Everything together. *)

\* s still exists here: it waits to be accepted, a descriptor names it or a
\* recv on it is in progress.  Otherwise its peer has seen the end of it and
\* what the peer does no longer matters.
Held(s) ==
  \/ st[s] = "queued"
  \/ Named(s)
  \/ \E t \in Id : rsock[t] = s
  \/ mpc = "send" /\ msock = s

\* A closed listener lives on while an accept on it is in progress.
Listening == listening \/ apc = "accept"

\* The peer of a blocked send reads, and send() returns with its message sent.
PeerReads ==
  /\ mpc = "send"
  /\ msock \notin eof
  /\ Prompt
  /\ UNCHANGED <<netVars, tblVars>>
  /\ MainUnchanged

Peer ==
  /\ proc = "running"
  /\ \/ Listening /\ PeerConnect
     \/ \E s \in Sock : Held(s) /\ (PeerSend(s) \/ PeerClose(s))
  /\ UNCHANGED <<tblVars, mainVars>>
  /\ MainUnchanged

Terminated ==
  /\ proc # "running"
  /\ UNCHANGED vars

Next ==
  \/ Command
  \/ MainStep
  \/ AcceptThread
  \/ \E t \in Id : RecvThread(t)
  \/ Peer
  \/ PeerReads
  \/ Terminated

Spec == Init /\ [][Next]_vars

\* The scheduler runs every thread that can run.  The mutex is free while the
\* user types and comes round to every recv thread that waits for it, however
\* many commands take it in between.  Nothing is assumed of the user and of the
\* peers: a peer need not read, and a send to it then never returns.
Fairness ==
  /\ WF_vars(MainStep)
  /\ WF_vars(AcceptThread)
  /\ \A t \in Id : WF_vars(RecvThread(t)) /\ SF_vars(RecvTop(t) \/ RecvDrop(t))

FairSpec == Spec /\ Fairness

-----------------------------------------------------------------------------
(* Properties. *)

\* The connection of entry i.
Connection(i) == home[cid[i]]

\* Descriptors main and the accept thread hold outside the table.
MainHolds == mpc \in {"check", "connect", "add", "drop"}
AccHolds  == apc \in {"add", "drop"}
MainNames == IF mpc = "check" THEN NotTcp ELSE msock

\* An entry in use owns its descriptor: it names the connection the entry's id
\* was given to, and no other entry has it.  A recv thread that closes what
\* its slot holds NOW (line 135) must not leave an entry behind whose number
\* the kernel has handed to someone else.
TableMatchesDescriptors ==
  \A i \in used :
    /\ fdtab[cfd[i]] = Connection(i)
    /\ Connection(i) # NoSock
    /\ \A j \in used : j # i => cfd[j] # cfd[i] /\ cid[j] # cid[i]

\* No descriptor is lost and none is shared: what is open belongs to exactly
\* one of the table, main and the accept thread, also when a connection could
\* not be added.
DescriptorsOwned ==
  /\ \A f \in Fd : fdtab[f] # NoSock =>
       \/ \E i \in used : cfd[i] = f
       \/ MainHolds /\ mfd = f
       \/ AccHolds /\ afd = f
  /\ \A i \in used :
       ~(MainHolds /\ mfd = cfd[i]) /\ ~(AccHolds /\ afd = cfd[i])
  /\ ~(MainHolds /\ AccHolds /\ mfd = afd)

\* Every entry in use is served by the thread add_connection started for it,
\* on the right descriptor and the right connection, whatever stale threads of
\* earlier occupants of the slot are doing meanwhile.
ServedByOwnThread ==
  \A i \in used :
    /\ rslot[cid[i]] = i
    /\ \/ rpc[cid[i]] = "top"
       \/ rpc[cid[i]] = "call" /\ rfd[cid[i]] = cfd[i]
       \/ rpc[cid[i]] = "in" /\ rsock[cid[i]] = Connection(i)
       \/ rpc[cid[i]] = "err" /\ Connection(i) \in eof

\* The user connected to entry i; the others were accepted.
Dialed(i) == seen[cid[i]] > 0

\* The duplicate check, the connect and the entry in the table are three
\* critical sections (lines 254, 282, 66).  Between them the accept thread may
\* enter a connection that was made from the very address: the check then has
\* missed it, and the address is listed twice.  That is all that can happen:
\* the user never has two connections to one address, and what the check
\* should have refused was not in the table when it was made.
NoDuplicateDestination ==
  \A i, j \in used :
    i # j /\ addr[i] = addr[j] /\ Dialed(i) =>
      ~Dialed(j) /\ cid[j] >= seen[cid[i]]

\* The id the accept thread announces, read after the unlock (line 90), is the
\* one its connection was given as long as that connection is in the table:
\* only one that has ended meanwhile can be announced by another's id.
AnnouncedIdIsOwn ==
  [][AccReport => \/ Connection(aslot) = asock
                  \/ \A i \in used : fdtab[cfd[i]] # asock]_vars

\* "All connections closed. Exiting." (line 311) is true of every connection
\* the user made and of all that were in the table when exit began: what can
\* still be open is what the accept thread holds or has added after the loop.
GoodbyeLeavesAccepted ==
  mpc = "goodbye" =>
    \A f \in Fd : fdtab[f] # NoSock =>
      \/ AccHolds /\ afd = f
      \/ \E i \in used : cfd[i] = f /\ ~Dialed(i)

\* The table implements the abstract registry.
Members == {<<cid[i], Connection(i)>> : i \in used}

Registry ==
  INSTANCE ConnRegistry WITH Capacity <- MaxConn, MaxId <- MaxSock, Conn <- Sock,
                             members <- Members, last <- next_id - 1
RegistrySpec == Registry!RegSpec

\* Main is in a send whose peer neither reads nor closes.
SendStuck == mpc = "send" /\ msock \notin eof

\* A connection whose peer has gone is taken out of the table, unless a send
\* to another one, which keeps the mutex, never returns.
PeerCloseDelists ==
  []<>~SendStuck =>
    \A i \in Slot, s \in Sock :
      (i \in used /\ Connection(i) = s /\ s \in eof)
        ~> (proc # "running" \/ ~(i \in used /\ Connection(i) = s))

\* Every message that arrives on a listed connection is read, unless the
\* connection is first taken out of the table or a send never returns.
MessagesAreRead ==
  []<>~SendStuck =>
    \A i \in Slot, s \in Sock :
      (i \in used /\ Connection(i) = s /\ unread[s] > 0)
        ~> (proc # "running" \/ unread[s] = 0 \/ ~(i \in used /\ Connection(i) = s))

-----------------------------------------------------------------------------
(* The inductive invariant, when malloc does not fail. *)

\* Ids are given out in order; only one that was given has a thread.
IdsGiven ==
  /\ \A t \in Id : t >= next_id => rpc[t] = "none" /\ home[t] = NoSock
  /\ \A i \in used : cid[i] \in Id /\ cid[i] < next_id

\* What main and the accept thread hold is what they believe it to be.
HeldNamed ==
  /\ MainHolds => fdtab[mfd] = MainNames /\ MainNames # NoSock
  /\ AccHolds => fdtab[afd] = asock /\ asock # NoSock

\* The state each endpoint in the program's hands is in.
EndpointStates ==
  /\ \A s \in Sock : s > nsock => st[s] = "none"
  /\ \A i \in used : st[Connection(i)] = "est"
  /\ mpc = "connect" => st[msock] = "fresh"
  /\ mpc \in {"add", "drop"} => st[msock] = "est"
  /\ AccHolds => st[asock] = "est"

\* No two descriptors name one endpoint; an endpoint still waiting for accept
\* has none.
OneDescriptorEach ==
  \A f, g \in Fd : fdtab[f] \in Sock =>
    /\ st[fdtab[f]] \in {"fresh", "est"}
    /\ fdtab[g] = fdtab[f] => g = f

IInv ==
  /\ TypeOK
  /\ IdsGiven
  /\ TableMatchesDescriptors
  /\ DescriptorsOwned
  /\ HeldNamed
  /\ ServedByOwnThread
  /\ EndpointStates
  /\ OneDescriptorEach

-----------------------------------------------------------------------------
(* What the program's text says and the program does not do. *)

\* Line 134, "The peer at port %d has disconnected.": a recv thread takes an
\* entry out of the table only when that entry's peer has closed.
DropsOnlyItsPeer ==
  [][\A t \in Id, i \in Slot :
       RecvDrop(t) /\ rslot[t] = i /\ i \in used => Connection(i) \in eof]_vars
=============================================================================

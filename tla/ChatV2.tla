------------------------------ MODULE ChatV2 ------------------------------
(***************************************************************************)
(* midProject_v2: one process of the second chat program.  Its threads:    *)
(*   main                  (main.c) reads and carries out commands;        *)
(*   server_listen_thread  (server.c) opens the listener and accepts;      *)
(*   receive_handler       (message.c), TWO per accepted connection: one   *)
(*       started by add_connection, one by the listen thread; one per      *)
(*       connection made with "connect".                                   *)
(* The table is connections[] of client.c under conn_lock.  Unlike the     *)
(* first program a receive thread keeps the descriptor it was started      *)
(* with, send uses a descriptor after the lock is released, and several    *)
(* places close a descriptor that somebody else has closed before.         *)
(*                                                                         *)
(* Handler <<t, 1>> is the one add_connection starts for connection id t,  *)
(* <<t, 2>> the other.  home[t] is the endpoint id t was given to: it is   *)
(* no variable of the program.  X_Bug... are wrong versions of X.          *)
(***************************************************************************)
EXTENDS Sockets

CONSTANTS
  MaxConn,    \* MAX_CONN
  ExitBound   \* "exit" removes the ids below this one (1000 in main.c)

Slot    == 0 .. MaxConn - 1
Id      == Sock            \* bound on next_id: every id costs an endpoint
Handler == Id \X {1, 2}
NoFd    == -1

ASSUME ChatV2Assumption ==
  /\ MaxConn \in Nat \ {0}
  /\ ExitBound \in Nat

VARIABLES
  active, cid, cfd, next_id,   \* connections[] (active: the slots in use)
  home,                        \* the endpoint an id was given to
  hpc, hfd, hin,               \* handlers: state, sockfd, endpoint in recv
  mpc, mfd, msock, mid,        \* main: state, sock, its endpoint, id or i
  lpc, lfd, lsock, lid,        \* listen thread: state, new_fd, conn_id
  listen_fd,
  proc                         \* "running", "exited", "killed"

tblVars  == <<active, cid, cfd, next_id, home>>
handVars == <<hpc, hfd, hin>>
mainVars == <<mpc, mfd, msock, mid>>
lisVars  == <<lpc, lfd, lsock, lid>>
vars == <<netVars, tblVars, handVars, mainVars, lisVars, listen_fd, proc>>

TypeOK ==
  /\ NetTypeOK
  /\ active \subseteq Slot
  /\ cid \in [Slot -> Id \cup {0}]
  /\ cfd \in [Slot -> Fd]
  /\ next_id \in 1 .. MaxSock + 1
  /\ home \in [Id -> Sock \cup {NoSock}]
  /\ hpc \in [Handler -> {"none", "call", "in", "remove", "close", "done"}]
  /\ hfd \in [Handler -> Fd]
  /\ hin \in [Handler -> Sock \cup {NoSock}]
  /\ mpc \in {"prompt", "connect", "add", "drop", "send", "blocked", "exit",
              "stop", "unset", "bye", "dead"}
  /\ mfd \in Fd
  /\ msock \in Sock \cup {NoSock}
  /\ mid \in 0 .. MaxSock + ExitBound
  /\ lpc \in {"open", "bind", "call", "error", "wait", "add", "spawn", "drop",
              "done", "failed"}
  /\ lfd \in Fd
  /\ lsock \in Sock \cup {NoSock}
  /\ lid \in Id \cup {0}
  /\ listen_fd \in Fd \cup {NoFd}
  /\ proc \in {"running", "exited", "killed"}

\* start_listen has created the listen thread, which has not run yet; main
\* has printed "Server started" and shows its prompt.
Init ==
  /\ NetInit
  /\ active = {}
  /\ cid = [i \in Slot |-> 0]
  /\ cfd = [i \in Slot |-> 0]
  /\ next_id = 1
  /\ home = [t \in Id |-> NoSock]
  /\ hpc = [h \in Handler |-> "none"]
  /\ hfd = [h \in Handler |-> 0]
  /\ hin = [h \in Handler |-> NoSock]
  /\ mpc = "prompt" /\ mfd = 0 /\ msock = NoSock /\ mid = 0
  /\ lpc = "open" /\ lfd = 0 /\ lsock = NoSock /\ lid = 0
  /\ listen_fd = NoFd
  /\ proc = "running"

-----------------------------------------------------------------------------
(* client.c: the table. *)

FirstFree(i) == i \notin active /\ \A j \in Slot : j < i => j \in active
HasId(i, id) == i \in active /\ cid[i] = id

NewId_BugIncrement(i) == next_id + 1   \* id = ++next_id
NewId_BugSlot(i)      == i + 1         \* id = idx + 1
NewId(i)              == next_id       \* id = next_id++

\* What add_connection stores in the free slot i, but for active.
Enter(i, f) ==
  /\ FirstFree(i)
  /\ next_id \in Id
  /\ cfd' = [cfd EXCEPT ![i] = f]
  /\ cid' = [cid EXCEPT ![i] = NewId(i)]
  /\ next_id' = next_id + 1

\* add_connection succeeds and starts handler <<next_id, 1>>.
AddOk(i, f, s) ==
  /\ Enter(i, f)
  /\ active' = active \cup {i}
  /\ home' = [home EXCEPT ![next_id] = s]
  /\ hpc' = [hpc EXCEPT ![<<next_id, 1>>] = "call"]
  /\ hfd' = [hfd EXCEPT ![<<next_id, 1>>] = f]
  /\ UNCHANGED <<hin, fdtab>>

\* add_connection returns -1: the table is full; or pthread_create fails and
\* the descriptor is closed, the slot given back and the id used up.
AddFails(f) ==
  \/ /\ active = Slot
     /\ UNCHANGED <<tblVars, fdtab>>
  \/ /\ \E i \in Slot : Enter(i, f)
     /\ Close(f)
     /\ UNCHANGED <<active, home>>

\* remove_connection_by_id, all of it under conn_lock.
Remove(id) ==
  \/ \E i \in Slot :
       /\ HasId(i, id)
       /\ Close(cfd[i])
       /\ active' = active \ {i}
       /\ UNCHANGED <<cid, cfd, next_id, home>>
  \/ /\ ~\E i \in Slot : HasId(i, id)
     /\ UNCHANGED <<fdtab, tblVars>>

NetKept == UNCHANGED <<nsock, st, unread, eof, rst>>   \* all but fdtab

\* The process ends: its descriptors, table and threads are gone.
Vanish(how) ==
  /\ proc' = how
  /\ fdtab' = [f \in Fd |-> NoSock]
  /\ st' = [s \in Sock |-> "none"]
  /\ unread' = [s \in Sock |-> 0]
  /\ eof' = {} /\ rst' = {}
  /\ active' = {}
  /\ cid' = [i \in Slot |-> 0]
  /\ cfd' = [i \in Slot |-> 0]
  /\ hpc' = [h \in Handler |-> IF hpc[h] = "none" THEN "none" ELSE "done"]
  /\ hfd' = [h \in Handler |-> 0]
  /\ hin' = [h \in Handler |-> NoSock]
  /\ mpc' = "dead" /\ mfd' = 0 /\ msock' = NoSock /\ mid' = 0
  /\ lpc' = "done" /\ lfd' = 0 /\ lsock' = NoSock /\ lid' = 0
  /\ listen_fd' = NoFd
  /\ UNCHANGED <<nsock, next_id, home>>

-----------------------------------------------------------------------------
(* message.c: receive_handler *)

HandlerOnly ==
  UNCHANGED <<netVars, tblVars, mainVars, lisVars, listen_fd, proc>>

\* recv(sock) starts: the kernel looks up what the descriptor names now.
HandlerCall(h) ==
  /\ hpc[h] = "call"
  /\ LET x == fdtab[hfd[h]] IN
       \/ /\ x \in Sock
          /\ hpc' = [hpc EXCEPT ![h] = "in"]
          /\ hin' = [hin EXCEPT ![h] = x]
       \/ /\ x \in {NoSock, NotTcp} \/ (x \in Sock /\ st[x] = "fresh")
          /\ hpc' = [hpc EXCEPT ![h] = "remove"]
          /\ UNCHANGED hin
  /\ UNCHANGED hfd
  /\ HandlerOnly

AfterData_BugLeaves == "done"   \* the loop ends after one message
AfterData == "call"

\* recv returns r > 0: the message is printed.
HandlerData(h) ==
  /\ hpc[h] = "in"
  /\ Drain(hin[h])
  /\ hpc' = [hpc EXCEPT ![h] = AfterData]
  /\ hin' = [hin EXCEPT ![h] = NoSock]
  /\ UNCHANGED <<hfd, tblVars, mainVars, lisVars, listen_fd, proc>>

AfterEnd_BugZero == "call"   \* r = 0 is not taken for the end
AfterEnd == "remove"

\* recv returns r <= 0.
HandlerEnd(h) ==
  /\ hpc[h] = "in"
  /\ Readable(hin[h])
  /\ unread[hin[h]] = 0
  /\ hpc' = [hpc EXCEPT ![h] = AfterEnd]
  /\ hin' = [hin EXCEPT ![h] = NoSock]
  /\ UNCHANGED hfd
  /\ HandlerOnly

TakeOut_BugSkipped(id) == UNCHANGED <<fdtab, tblVars>>
TakeOut(id) == Remove(id)

\* remove_connection_by_id(conn_id)
HandlerRemove(h) ==
  /\ hpc[h] = "remove"
  /\ TakeOut(h[1])
  /\ hpc' = [hpc EXCEPT ![h] = "close"]
  /\ NetKept
  /\ UNCHANGED <<hfd, hin, mainVars, lisVars, listen_fd, proc>>

\* close(sock), without the lock; the thread ends.
HandlerClose(h) ==
  /\ hpc[h] = "close"
  /\ Close(hfd[h])
  /\ hpc' = [hpc EXCEPT ![h] = "done"]
  /\ hfd' = [hfd EXCEPT ![h] = 0]
  /\ NetKept
  /\ UNCHANGED <<hin, tblVars, mainVars, lisVars, listen_fd, proc>>

ReceiveHandler(h) ==
  \/ HandlerCall(h)
  \/ HandlerData(h)
  \/ HandlerEnd(h)
  \/ HandlerRemove(h)
  \/ HandlerClose(h)

-----------------------------------------------------------------------------
(* server.c: server_listen_thread *)

\* socket(); its failure ends the thread.
ListenOpen ==
  /\ lpc = "open"
  /\ \/ /\ \E f \in Fd : LowestFree(f) /\ Bind(f, NotTcp) /\ listen_fd' = f
        /\ lpc' = "bind"
     \/ /\ lpc' = "failed"
        /\ UNCHANGED <<fdtab, listen_fd>>
  /\ NetKept
  /\ UNCHANGED <<lfd, lsock, lid, tblVars, handVars, mainVars, proc>>

\* bind() and listen(); when one fails the socket is closed and the thread ends.
ListenBind ==
  /\ lpc = "bind"
  /\ \/ /\ listen_fd # NoFd /\ fdtab[listen_fd] = NotTcp
        /\ lpc' = "call"
        /\ UNCHANGED <<fdtab, listen_fd>>
     \/ /\ lpc' = "failed"
        /\ IF listen_fd = NoFd THEN UNCHANGED fdtab ELSE Close(listen_fd)
        /\ listen_fd' = NoFd
  /\ NetKept
  /\ UNCHANGED <<lfd, lsock, lid, tblVars, handVars, mainVars, proc>>

ListenOnly ==
  UNCHANGED <<lfd, lsock, lid, netVars, tblVars, handVars, mainVars, listen_fd,
              proc>>

\* accept(listen_fd) starts; a descriptor that is no listener is an error.
ListenCall ==
  /\ lpc = "call"
  /\ lpc' = IF listen_fd # NoFd /\ fdtab[listen_fd] = NotTcp
            THEN "wait" ELSE "error"
  /\ ListenOnly

\* accept failed: was the listener closed intentionally?
ListenError ==
  /\ lpc = "error"
  /\ lpc' = IF listen_fd = NoFd THEN "done" ELSE "call"
  /\ ListenOnly

\* accept returns a connection, also after the listener was closed.
ListenReturn ==
  /\ lpc = "wait"
  /\ \E f \in Fd, s \in Sock :
       /\ Accepted(f, s)
       /\ lfd' = f
       /\ lsock' = s
  /\ lpc' = "add"
  /\ UNCHANGED <<lid, tblVars, handVars, mainVars, listen_fd, proc>>

\* ... or fails: there is no descriptor for the connection that waits.
ListenStarved ==
  /\ lpc = "wait"
  /\ \E s \in Sock : st[s] = "queued"
  /\ \A f \in Fd : fdtab[f] # NoSock
  /\ lpc' = "error"
  /\ ListenOnly

ListenAdd ==
  /\ lpc = "add"
  /\ \/ /\ \E i \in Slot : AddOk(i, lfd, lsock)
        /\ lid' = next_id
        /\ lpc' = "spawn"
     \/ /\ AddFails(lfd)
        /\ lpc' = "drop"
        /\ UNCHANGED <<lid, handVars>>
  /\ NetKept
  /\ UNCHANGED <<lfd, lsock, mainVars, listen_fd, proc>>

\* The listen thread's own pthread_create; its result is not looked at.
ListenSpawn ==
  /\ lpc = "spawn"
  /\ \/ /\ hpc' = [hpc EXCEPT ![<<lid, 2>>] = "call"]
        /\ hfd' = [hfd EXCEPT ![<<lid, 2>>] = lfd]
     \/ UNCHANGED <<hpc, hfd>>
  /\ lpc' = "call" /\ lfd' = 0 /\ lsock' = NoSock /\ lid' = 0
  /\ UNCHANGED <<hin, netVars, tblVars, mainVars, listen_fd, proc>>

CloseNew_BugOpen == UNCHANGED fdtab   \* without close(new_fd)
CloseNew == Close(lfd)

\* close(new_fd) of a connection that was not added.
ListenDrop ==
  /\ lpc = "drop"
  /\ CloseNew
  /\ lpc' = "call" /\ lfd' = 0 /\ lsock' = NoSock
  /\ NetKept
  /\ UNCHANGED <<lid, tblVars, handVars, mainVars, listen_fd, proc>>

ListenThread ==
  \/ ListenOpen
  \/ ListenBind
  \/ ListenCall
  \/ ListenError
  \/ ListenReturn
  \/ ListenStarved
  \/ ListenAdd
  \/ ListenSpawn
  \/ ListenDrop

-----------------------------------------------------------------------------
(* main.c, client.c: the commands.  help, myip, myport, list change nothing. *)

Prompt == mpc' = "prompt" /\ mfd' = 0 /\ msock' = NoSock /\ mid' = 0
Others == UNCHANGED <<lisVars, listen_fd, proc>>

\* terminate <id>
CmdTerminate(id) ==
  /\ mpc = "prompt"
  /\ Remove(id)
  /\ NetKept
  /\ UNCHANGED <<handVars, mainVars>>
  /\ Others

\* send <id> <msg>: send_to_connection_id finds the descriptor and unlocks.
CmdSend(id) ==
  /\ mpc = "prompt"
  /\ \E i \in Slot : HasId(i, id) /\ mfd' = cfd[i]
  /\ mpc' = "send"
  /\ mid' = id
  /\ UNCHANGED <<msock, netVars, tblVars, handVars>>
  /\ Others

\* Then send(), without the lock.  A connection the peer has reset, or a
\* socket that is not connected, raises SIGPIPE; a closed descriptor is only
\* an error; a peer that does not read makes it block, with no lock held.
SendOut ==
  /\ mpc = "send"
  /\ LET x == fdtab[mfd] IN
       \/ /\ x = NotTcp \/ x \in rst
          /\ Vanish("killed")
       \/ /\ x = NoSock
          /\ Prompt
          /\ UNCHANGED <<netVars, tblVars, handVars>>
          /\ Others
       \/ /\ x \in Sock \ rst
          /\ Transmit(x)
          /\ Prompt
          /\ UNCHANGED <<tblVars, handVars>>
          /\ Others
       \/ /\ x \in Sock \ eof
          /\ mpc' = "blocked" /\ mfd' = 0 /\ msock' = x
          /\ UNCHANGED <<mid, netVars, tblVars, handVars>>
          /\ Others

\* The blocked send fails, because the peer has closed without reading: with
\* an error, or with SIGPIPE.
SendFails ==
  /\ mpc = "blocked"
  /\ msock \in eof
  /\ \/ Vanish("killed")
     \/ Transmit(msock) /\ Prompt /\ UNCHANGED <<tblVars, handVars>> /\ Others

\* connect <ip> <port>, not to this program itself: connect_to_peer's socket().
CmdConnect ==
  /\ mpc = "prompt"
  /\ \E f \in Fd, s \in Sock :
       /\ NewSocket(f, s)
       /\ mfd' = f
       /\ msock' = s
  /\ mpc' = "connect"
  /\ UNCHANGED <<mid, tblVars, handVars>>
  /\ Others

\* connect_to_peer's connect(), or its failure (inet_pton's too), closing sock.
MainConnect ==
  /\ mpc = "connect"
  /\ \/ Connected(msock) /\ mpc' = "add" /\ UNCHANGED <<mfd, msock, mid>>
     \/ Refused(msock, mfd) /\ Prompt
  /\ UNCHANGED <<tblVars, handVars>>
  /\ Others

MainAdd ==
  /\ mpc = "add"
  /\ \/ \E i \in Slot : AddOk(i, mfd, msock) /\ Prompt
     \/ /\ AddFails(mfd)
        /\ mpc' = "drop"
        /\ UNCHANGED <<mfd, msock, mid, handVars>>
  /\ NetKept
  /\ Others

\* close(sock) of a connection that was not added.
MainDrop ==
  /\ mpc = "drop"
  /\ Close(mfd)
  /\ Prompt
  /\ NetKept
  /\ UNCHANGED <<tblVars, handVars>>
  /\ Others

\* exit
CmdExit ==
  /\ mpc = "prompt"
  /\ mpc' = "exit"
  /\ UNCHANGED <<mfd, msock, mid, netVars, tblVars, handVars>>
  /\ Others

\* End of input: the loop is left at once.
EndOfInput ==
  /\ mpc = "prompt"
  /\ mpc' = "bye"
  /\ UNCHANGED <<mfd, msock, mid, netVars, tblVars, handVars>>
  /\ Others

\* for (i = 0; i < 1000; ++i) remove_connection_by_id(i)
ExitLoop ==
  /\ mpc = "exit"
  /\ \/ /\ mid < ExitBound
        /\ Remove(mid)
        /\ mid' = mid + 1
        /\ UNCHANGED <<mpc, mfd, msock>>
     \/ /\ mid = ExitBound
        /\ mpc' = "stop"
        /\ mid' = 0
        /\ UNCHANGED <<mfd, msock, fdtab, tblVars>>
  /\ NetKept
  /\ UNCHANGED handVars
  /\ Others

\* stop_listen: close(listen_fd) ...
StopListen ==
  /\ mpc = "stop"
  /\ IF listen_fd # NoFd
     THEN Close(listen_fd) /\ mpc' = "unset"
     ELSE UNCHANGED fdtab /\ mpc' = "bye"
  /\ NetKept
  /\ UNCHANGED <<mfd, msock, mid, tblVars, handVars>>
  /\ Others

\* ... and listen_fd = -1, which the listen thread reads without a lock.
UnsetListen ==
  /\ mpc = "unset"
  /\ listen_fd' = NoFd
  /\ mpc' = "bye"
  /\ UNCHANGED <<mfd, msock, mid, netVars, tblVars, handVars, lisVars, proc>>

\* sleep(1) is over, main returns.
Exit ==
  /\ mpc = "bye"
  /\ Vanish("exited")

Command ==
  \/ \E id \in Id : CmdTerminate(id) \/ CmdSend(id)
  \/ CmdConnect
  \/ CmdExit
  \/ EndOfInput

MainStep ==
  \/ SendOut
  \/ SendFails
  \/ MainConnect
  \/ MainAdd
  \/ MainDrop
  \/ ExitLoop
  \/ StopListen
  \/ UnsetListen
  \/ Exit

-----------------------------------------------------------------------------
(* Everything together. *)

\* s still exists in this process (as in ChatV1).
Held(s) ==
  \/ st[s] = "queued"
  \/ Named(s)
  \/ \E h \in Handler : hin[h] = s
  \/ mpc = "blocked" /\ msock = s

\* There is a listener a peer can connect to.
Listening ==
  \/ lpc = "wait"
  \/ /\ lpc \in {"call", "error", "add", "spawn", "drop"}
     /\ listen_fd # NoFd
     /\ fdtab[listen_fd] = NotTcp

Peer ==
  /\ proc = "running"
  /\ \/ Listening /\ PeerConnect
     \/ \E s \in Sock : Held(s) /\ (PeerSend(s) \/ PeerClose(s))
  /\ UNCHANGED <<tblVars, handVars, mainVars>>
  /\ Others

\* The peer of a blocked send reads, and send() returns with its message sent.
PeerReads ==
  /\ mpc = "blocked"
  /\ msock \notin eof
  /\ Prompt
  /\ UNCHANGED <<netVars, tblVars, handVars>>
  /\ Others

Terminated ==
  /\ proc # "running"
  /\ UNCHANGED vars

Next ==
  \/ Command
  \/ MainStep
  \/ ListenThread
  \/ \E h \in Handler : ReceiveHandler(h)
  \/ Peer
  \/ PeerReads
  \/ Terminated

Spec == Init /\ [][Next]_vars

\* The scheduler runs every thread that can run.  No lock is held across a call
\* that can block, so weak fairness is enough.  Nothing is assumed of the user
\* and of the peers, who need not read.
Fairness ==
  /\ WF_vars(MainStep)
  /\ WF_vars(ListenThread)
  /\ \A h \in Handler : WF_vars(ReceiveHandler(h))

FairSpec == Spec /\ Fairness

-----------------------------------------------------------------------------
(* Properties. *)

Connection(i) == home[cid[i]]
Alive(h) == hpc[h] \notin {"none", "done"}

\* No descriptor leaks, in spite of all the double and misdirected closes:
\* what is open is the listener, is in the table, or is in the hands of main
\* or the listen thread, who will enter or close it.
DescriptorsAccounted ==
  \A f \in Fd : fdtab[f] # NoSock =>
    \/ f = listen_fd
    \/ \E i \in active : cfd[i] = f
    \/ mpc \in {"connect", "add", "drop"} /\ mfd = f
    \/ lpc \in {"add", "drop"} /\ lfd = f

\* Whatever two handlers of one connection, handlers of reused descriptors and
\* "terminate" do, an entry is in the table only as long as the handler that
\* will take it out is alive.
ListedHasHandler ==
  \A i \in active : hpc[<<cid[i], 1>>] \in {"call", "in", "remove"}

\* The table implements the same abstract registry as the first program's.
Members == {<<cid[i], Connection(i)>> : i \in active}

Registry ==
  INSTANCE ConnRegistry WITH Capacity <- MaxConn, MaxId <- MaxSock, Conn <- Sock,
                             members <- Members, last <- next_id - 1
RegistrySpec == Registry!RegSpec

\* A handler whose peer has gone ends, or has strayed to another connection
\* that was given the number of its descriptor.
HandlerEndsOrStrays ==
  \A h \in Handler :
    (Alive(h) /\ home[h[1]] \in eof)
      ~> (~Alive(h) \/ hin[h] \notin {NoSock, home[h[1]]})

-----------------------------------------------------------------------------
(* The inductive invariant: no step breaks it, however many handlers are on *)
(* one descriptor.                                                           *)

\* Who owns descriptor f.  stop_listen closes the listener's number before it
\* forgets it ("unset"), and from then on listen_fd accounts for nothing.
Accounted(f) ==
  \/ f = listen_fd /\ mpc # "unset"
  \/ \E i \in active : cfd[i] = f
  \/ mpc \in {"connect", "add", "drop"} /\ mfd = f
  \/ lpc \in {"add", "drop"} /\ lfd = f

DescInv ==
  /\ \A f \in Fd : fdtab[f] # NoSock => Accounted(f)
  /\ lpc = "open" => listen_fd = NoFd /\ mpc # "unset"

\* Ids are given out in order, one entry each, so that a handler that ends its
\* loop takes out no entry but its own.
TableInv ==
  /\ \A i \in active : cid[i] \in Id /\ cid[i] < next_id
  /\ \A i, j \in active : cid[i] = cid[j] => i = j
  /\ ListedHasHandler

\* A connection is listed once, and what main and the listen thread are about
\* to enter is a connection of its own.
Unlisted(s) == s \in Sock /\ \A i \in active : Connection(i) # s

ListInv ==
  /\ \A i \in active : Connection(i) \in Sock /\ st[Connection(i)] = "est"
  /\ \A i, j \in active : Connection(i) = Connection(j) => i = j

HandsInv ==
  /\ \A s \in Sock : s > nsock => st[s] = "none"
  /\ mpc = "connect" => Unlisted(msock) /\ st[msock] = "fresh"
  /\ mpc = "add" => Unlisted(msock) /\ st[msock] = "est"
  /\ lpc = "add" => Unlisted(lsock) /\ st[lsock] = "est"
  /\ mpc = "add" /\ lpc = "add" => msock # lsock

IInv == TypeOK /\ DescInv /\ TableInv /\ ListInv /\ HandsInv

-----------------------------------------------------------------------------
(* What the program's text says and the program does not do. *)

\* message.c:26-27, "peer closed or error", "remove from connection list by
\* conn_id": a connection whose peer has closed is taken out of the table.
PeerCloseDelists ==
  \A i \in Slot, s \in Sock :
    (i \in active /\ Connection(i) = s /\ s \in eof)
      ~> (proc # "running" \/ ~(i \in active /\ Connection(i) = s))

\* message.c:26-28: the descriptor a handler closes is its own connection's, or
\* closed already.
ClosesOnlyItsOwn ==
  \A h \in Handler : hpc[h] = "close" => fdtab[hfd[h]] \in {NoSock, home[h[1]]}
=============================================================================

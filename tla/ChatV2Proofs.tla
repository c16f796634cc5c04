---------------------------- MODULE ChatV2Proofs ----------------------------
(***************************************************************************)
(* Theorems about ChatV2, for every number of slots, descriptors,          *)
(* endpoints and queued messages and every bound of the loop of "exit".    *)
(***************************************************************************)
EXTENDS ChatV2, FiniteSetTheorems, TLAPS

USE SocketsAssumption, ChatV2Assumption
    DEF SocketsAssumption, ChatV2Assumption

\* The facts about the constant sets that the steps need.
LEMMA Sets ==
  /\ 0 \in Slot
  /\ 0 \in Fd
  /\ Id = Sock
  /\ Sock \subseteq Nat \ {0}
  /\ Fd \subseteq Nat
  /\ NoFd \notin Fd
  /\ NoSock \notin Sock
  /\ NotTcp \notin Sock
  /\ NotTcp # NoSock
  BY DEF Slot, Fd, Id, Sock, NoSock, NotTcp, NoFd

-----------------------------------------------------------------------------
(* Types. *)

TableTypes ==
  /\ active \subseteq Slot
  /\ cid \in [Slot -> Id \cup {0}]
  /\ cfd \in [Slot -> Fd]
  /\ next_id \in 1 .. MaxSock + 1
  /\ home \in [Id -> Sock \cup {NoSock}]

HandTypes ==
  /\ hpc \in [Handler -> {"none", "call", "in", "remove", "close", "done"}]
  /\ hfd \in [Handler -> Fd]
  /\ hin \in [Handler -> Sock \cup {NoSock}]

LEMMA InitTypeOK == Init => TypeOK
  BY Sets DEF Init, NetInit, TypeOK, NetTypeOK, Sock

LEMMA EnterTypes ==
  ASSUME TypeOK, NEW i \in Slot, NEW f \in Fd, Enter(i, f)
  PROVE  /\ cid' \in [Slot -> Id \cup {0}]
         /\ cfd' \in [Slot -> Fd]
         /\ next_id' \in 1 .. MaxSock + 1
<1>1. cid' \in [Slot -> Id \cup {0}]
  BY DEF TypeOK, Enter, NewId
<1>2. cfd' \in [Slot -> Fd]
  BY DEF TypeOK, Enter
<1>3. next_id' \in 1 .. MaxSock + 1
  BY DEF TypeOK, Enter, Id, Sock
<1> QED BY <1>1, <1>2, <1>3

LEMMA AddOkTypes ==
  ASSUME TypeOK, NEW i \in Slot, NEW f \in Fd, NEW s \in Sock \cup {NoSock},
         AddOk(i, f, s)
  PROVE  TableTypes' /\ HandTypes' /\ fdtab' = fdtab
<1>1. active' \subseteq Slot /\ home' \in [Id -> Sock \cup {NoSock}]
  BY DEF TypeOK, AddOk
<1>2. TableTypes'
  BY <1>1, EnterTypes DEF TableTypes, AddOk
<1>3. hpc' \in [Handler -> {"none", "call", "in", "remove", "close", "done"}]
  BY DEF TypeOK, AddOk
<1>4. hfd' \in [Handler -> Fd] /\ hin' = hin
  BY DEF TypeOK, AddOk
<1> QED BY <1>2, <1>3, <1>4 DEF HandTypes, TypeOK, AddOk

LEMMA AddFailsTypes ==
  ASSUME TypeOK, NEW f \in Fd, AddFails(f)
  PROVE  TableTypes' /\ fdtab' \in [Fd -> Sock \cup {NoSock, NotTcp}]
<1>1. CASE UNCHANGED <<tblVars, fdtab>>
  BY <1>1 DEF TypeOK, NetTypeOK, TableTypes, tblVars
<1>2. ASSUME NEW i \in Slot, Enter(i, f), Close(f), UNCHANGED <<active, home>>
      PROVE  TableTypes' /\ fdtab' \in [Fd -> Sock \cup {NoSock, NotTcp}]
  BY <1>2, EnterTypes DEF TypeOK, NetTypeOK, TableTypes, Close
<1> QED BY <1>1, <1>2 DEF AddFails

LEMMA RemoveTypes ==
  ASSUME TypeOK, NEW id, Remove(id)
  PROVE  TableTypes' /\ fdtab' \in [Fd -> Sock \cup {NoSock, NotTcp}]
BY DEF TypeOK, NetTypeOK, TableTypes, Remove, Close, tblVars

LEMMA VanishTypes ==
  ASSUME TypeOK, NEW how \in {"exited", "killed"}, Vanish(how)
  PROVE  TypeOK'
<1>1. NetTypeOK'
  BY Sets DEF TypeOK, NetTypeOK, Vanish
<1>2. TableTypes'
  BY Sets DEF TypeOK, TableTypes, Vanish
<1>3. HandTypes'
  BY Sets DEF TypeOK, HandTypes, Vanish
<1> QED BY <1>1, <1>2, <1>3, Sets DEF TypeOK, TableTypes, HandTypes, Vanish

\* A new descriptor for a new or an accepted endpoint.
LEMMA NewSocketTypes ==
  ASSUME NetTypeOK, NEW f \in Fd, NEW s \in Sock, NewSocket(f, s)
  PROVE  NetTypeOK'
<1>1. fdtab' \in [Fd -> Sock \cup {NoSock, NotTcp}]
  BY DEF NetTypeOK, NewSocket, Bind
<1>2. nsock' \in 0 .. MaxSock
  BY DEF NewSocket, Sock
<1>3. st' \in [Sock -> {"none", "queued", "fresh", "est", "failed"}]
  BY DEF NetTypeOK, NewSocket
<1> QED BY <1>1, <1>2, <1>3 DEF NetTypeOK, NewSocket

LEMMA AcceptedTypes ==
  ASSUME NetTypeOK, NEW f \in Fd, NEW s \in Sock, Accepted(f, s)
  PROVE  NetTypeOK'
<1>1. fdtab' \in [Fd -> Sock \cup {NoSock, NotTcp}]
  BY DEF NetTypeOK, Accepted, Bind
<1>2. st' \in [Sock -> {"none", "queued", "fresh", "est", "failed"}]
  BY DEF NetTypeOK, Accepted
<1> QED BY <1>1, <1>2 DEF NetTypeOK, Accepted

LEMMA HandlerTypes ==
  ASSUME TypeOK, NEW h \in Handler, ReceiveHandler(h)
  PROVE  TypeOK'
<1> USE DEF TypeOK, NetTypeOK, mainVars, lisVars
<1>1. CASE HandlerCall(h)
  BY <1>1 DEF HandlerCall, HandlerOnly, netVars, tblVars
<1>2. CASE HandlerData(h)
  <2>1. unread' \in [Sock -> 0 .. MaxQueue]
    <3>1. 0 \in 0 .. MaxQueue /\ unread' = [unread EXCEPT ![hin[h]] = 0]
      BY <1>2 DEF HandlerData, Drain
    <3> QED BY <3>1
  <2>2. HandTypes'
    BY <1>2, Sets DEF HandTypes, HandlerData, AfterData
  <2> QED BY <1>2, <2>1, <2>2 DEF HandTypes, HandlerData, Drain, tblVars
<1>3. CASE HandlerEnd(h)
  BY <1>3, Sets DEF HandlerEnd, AfterEnd, HandlerOnly, netVars, tblVars
<1>4. CASE HandlerRemove(h)
  BY <1>4, RemoveTypes DEF HandlerRemove, TakeOut, NetKept, TableTypes
<1>5. CASE HandlerClose(h)
  BY <1>5, Sets DEF HandlerClose, Close, NetKept, tblVars
<1> QED BY <1>1, <1>2, <1>3, <1>4, <1>5 DEF ReceiveHandler

LEMMA ListenTypes ==
  ASSUME TypeOK, ListenThread
  PROVE  TypeOK'
<1> USE Sets DEF TypeOK, NetTypeOK, mainVars, handVars, NetKept
<1>1. CASE ListenOpen
  BY <1>1 DEF ListenOpen, Bind, tblVars
<1>2. CASE ListenBind
  BY <1>2 DEF ListenBind, Close, tblVars
<1>3. CASE ListenCall
  BY <1>3 DEF ListenCall, ListenOnly, netVars, tblVars
<1>4. CASE ListenError \/ ListenStarved
  BY <1>4 DEF ListenError, ListenStarved, ListenOnly, netVars, tblVars
<1>5. CASE ListenReturn
  <2>1. PICK f \in Fd, s \in Sock : Accepted(f, s) /\ lfd' = f /\ lsock' = s
    BY <1>5 DEF ListenReturn
  <2>2. NetTypeOK'
    BY <2>1, AcceptedTypes
  <2> QED BY <1>5, <2>1, <2>2 DEF ListenReturn, tblVars
<1>6. CASE ListenAdd
  <2>1. ASSUME NEW i \in Slot, AddOk(i, lfd, lsock), lid' = next_id, lpc' = "spawn"
        PROVE  TypeOK'
    <3>1. next_id \in Id
      BY <2>1 DEF AddOk, Enter
    <3> QED BY <1>6, <2>1, <3>1, AddOkTypes DEF ListenAdd, TableTypes, HandTypes
  <2>2. CASE AddFails(lfd) /\ lpc' = "drop" /\ UNCHANGED <<lid, handVars>>
    BY <1>6, <2>2, AddFailsTypes DEF ListenAdd, TableTypes
  <2> QED BY <1>6, <2>1, <2>2 DEF ListenAdd
<1>7. CASE ListenSpawn
  BY <1>7 DEF ListenSpawn, netVars, tblVars
<1>8. CASE ListenDrop
  BY <1>8 DEF ListenDrop, CloseNew, Close, tblVars
<1> QED BY <1>1, <1>2, <1>3, <1>4, <1>5, <1>6, <1>7, <1>8 DEF ListenThread

LEMMA CommandTypes ==
  ASSUME TypeOK, Command
  PROVE  TypeOK'
<1> USE Sets DEF TypeOK, NetTypeOK, mainVars, handVars, lisVars, NetKept, Others
<1>1. ASSUME NEW id \in Id, CmdTerminate(id)
      PROVE  TypeOK'
  BY <1>1, RemoveTypes DEF CmdTerminate, TableTypes
<1>2. ASSUME NEW id \in Id, CmdSend(id)
      PROVE  TypeOK'
  <2>1. mid' \in 0 .. MaxSock + ExitBound
    BY <1>2 DEF CmdSend, Id, Sock
  <2> QED BY <1>2, <2>1 DEF CmdSend, netVars, tblVars
<1>3. CASE CmdConnect
  <2>1. PICK f \in Fd, s \in Sock : NewSocket(f, s) /\ mfd' = f /\ msock' = s
    BY <1>3 DEF CmdConnect
  <2>2. NetTypeOK'
    BY <2>1, NewSocketTypes
  <2> QED BY <1>3, <2>1, <2>2 DEF CmdConnect, tblVars
<1>4. CASE CmdExit
  BY <1>4 DEF CmdExit, netVars, tblVars
<1>5. CASE EndOfInput
  BY <1>5 DEF EndOfInput, netVars, tblVars
<1> QED BY <1>1, <1>2, <1>3, <1>4, <1>5 DEF Command

LEMMA MainTypes ==
  ASSUME TypeOK, MainStep
  PROVE  TypeOK'
<1> USE Sets DEF TypeOK, NetTypeOK, mainVars, handVars, lisVars, NetKept, Others
<1>0. 0 \in 0 .. MaxSock + ExitBound
  OBVIOUS
<1>1. CASE SendOut
  <2>1. CASE Vanish("killed")
    BY <2>1, VanishTypes
  <2>2. ASSUME NEW x \in Sock, Transmit(x), Prompt, UNCHANGED <<tblVars, handVars>>,
               Others
        PROVE  TypeOK'
    BY <2>2, <1>0 DEF Transmit, Prompt, tblVars
  <2>3. CASE Prompt /\ UNCHANGED <<netVars, tblVars, handVars>> /\ Others
    BY <2>3, <1>0 DEF Prompt, netVars, tblVars
  <2>4. ASSUME NEW x \in Sock, mpc' = "blocked", mfd' = 0, msock' = x,
               UNCHANGED <<mid, netVars, tblVars, handVars>>, Others
        PROVE  TypeOK'
    BY <2>4 DEF netVars, tblVars
  <2> QED BY <1>1, <2>1, <2>2, <2>3, <2>4 DEF SendOut
<1>2. CASE MainConnect
  <2>1. ASSUME Connected(msock), mpc' = "add", UNCHANGED <<mfd, msock, mid, tblVars, handVars>>,
               Others
        PROVE  TypeOK'
    BY <2>1 DEF Connected, tblVars
  <2>2. ASSUME Refused(msock, mfd), Prompt, UNCHANGED <<tblVars, handVars>>, Others
        PROVE  TypeOK'
    BY <2>2, <1>0 DEF Refused, Close, Prompt, tblVars
  <2> QED BY <1>2, <2>1, <2>2 DEF MainConnect
<1>3. CASE MainAdd
  <2>1. ASSUME NEW i \in Slot, AddOk(i, mfd, msock), Prompt
        PROVE  TypeOK'
    BY <1>3, <2>1, <1>0, AddOkTypes DEF MainAdd, Prompt, TableTypes, HandTypes
  <2>2. CASE AddFails(mfd) /\ mpc' = "drop" /\ UNCHANGED <<mfd, msock, mid, handVars>>
    BY <1>3, <2>2, AddFailsTypes DEF MainAdd, TableTypes
  <2> QED BY <1>3, <2>1, <2>2 DEF MainAdd
<1>4. CASE MainDrop
  BY <1>4, <1>0 DEF MainDrop, Close, Prompt, tblVars
<1>5. CASE ExitLoop
  <2>1. CASE mid < ExitBound /\ Remove(mid) /\ mid' = mid + 1 /\ UNCHANGED <<mpc, mfd, msock>>
    <3>1. mid' \in 0 .. MaxSock + ExitBound
      BY <2>1
    <3> QED BY <1>5, <2>1, <3>1, RemoveTypes DEF ExitLoop, TableTypes
  <2>2. CASE mpc' = "stop" /\ mid' = 0 /\ UNCHANGED <<mfd, msock, fdtab, tblVars>>
    BY <1>5, <2>2, <1>0 DEF ExitLoop, tblVars
  <2> QED BY <1>5, <2>1, <2>2 DEF ExitLoop
<1>6. CASE StopListen
  BY <1>6 DEF StopListen, Close, tblVars
<1>7. CASE UnsetListen
  BY <1>7 DEF UnsetListen, netVars, tblVars
<1>8. CASE Exit
  BY <1>8, VanishTypes DEF Exit
<1>9. CASE SendFails
  <2>1. CASE Vanish("killed")
    BY <2>1, VanishTypes
  <2>2. CASE Transmit(msock) /\ Prompt /\ UNCHANGED <<tblVars, handVars>> /\ Others
    BY <2>2, <1>0 DEF Transmit, Prompt, tblVars
  <2> QED BY <1>9, <2>1, <2>2 DEF SendFails
<1> QED BY <1>1, <1>2, <1>3, <1>4, <1>5, <1>6, <1>7, <1>8, <1>9 DEF MainStep

LEMMA PeerTypes ==
  ASSUME TypeOK, Peer
  PROVE  TypeOK'
<1> USE DEF TypeOK, NetTypeOK, Peer, mainVars, handVars, lisVars, tblVars, Others
<1>1. CASE PeerConnect
  <2>1. nsock' \in 0 .. MaxSock
    BY <1>1 DEF PeerConnect
  <2>2. st' \in [Sock -> {"none", "queued", "fresh", "est", "failed"}]
    BY <1>1 DEF PeerConnect
  <2> QED BY <1>1, <2>1, <2>2 DEF PeerConnect
<1>2. ASSUME NEW s \in Sock, PeerSend(s)
      PROVE  TypeOK'
  BY <1>2 DEF PeerSend
<1>3. ASSUME NEW s \in Sock, PeerClose(s)
      PROVE  TypeOK'
  BY <1>3 DEF PeerClose
<1> QED BY <1>1, <1>2, <1>3

LEMMA PeerReadsTypes ==
  ASSUME TypeOK, PeerReads
  PROVE  TypeOK'
<1>1. 0 \in 0 .. MaxSock + ExitBound
  OBVIOUS
<1> QED BY <1>1, Sets DEF TypeOK, NetTypeOK, PeerReads, Prompt, netVars, tblVars,
                          handVars, lisVars, Others

LEMMA NextTypes ==
  ASSUME TypeOK, [Next]_vars
  PROVE  TypeOK'
<1>1. CASE UNCHANGED vars
  BY <1>1 DEF TypeOK, NetTypeOK, vars, netVars, tblVars, handVars, mainVars, lisVars
<1> QED BY <1>1, CommandTypes, MainTypes, ListenTypes, HandlerTypes, PeerTypes,
           PeerReadsTypes DEF Next, Terminated

-----------------------------------------------------------------------------
(* No descriptor leaks.                                                     *)
(*                                                                          *)
(* DescriptorsAccounted is not inductive: stop_listen closes the listener's *)
(* number before it forgets it ("unset"), and a number it has just closed   *)
(* may be given out again.  From then on listen_fd accounts for nothing.    *)

\* An attempt to enter f in the table does not lose sight of the other entries.
LEMMA AddFailsAccounts ==
  ASSUME TypeOK, NEW f \in Fd, AddFails(f)
  PROVE  /\ active' = active
         /\ \A i \in active : cfd'[i] = cfd[i]
         /\ \A g \in Fd : fdtab'[g] # NoSock => fdtab[g] # NoSock
BY DEF TypeOK, NetTypeOK, AddFails, Enter, FirstFree, Close, tblVars

LEMMA AddOkAccounts ==
  ASSUME TypeOK, NEW i \in Slot, NEW f \in Fd, NEW s, AddOk(i, f, s)
  PROVE  /\ active' = active \cup {i}
         /\ cfd'[i] = f
         /\ \A j \in active : cfd'[j] = cfd[j]
         /\ fdtab' = fdtab
BY DEF TypeOK, AddOk, Enter, FirstFree

LEMMA RemoveAccounts ==
  ASSUME TypeOK, NEW id, Remove(id)
  PROVE  /\ cfd' = cfd
         /\ \A g \in Fd : fdtab'[g] # NoSock =>
              /\ fdtab[g] # NoSock
              /\ \A i \in active : cfd[i] = g => i \in active'
BY DEF TypeOK, NetTypeOK, Remove, Close, tblVars

LEMMA VanishAccounts ==
  ASSUME NEW how, Vanish(how)
  PROVE  DescInv'
BY DEF Vanish, DescInv

LEMMA InitDescriptors == Init => DescInv
BY Sets DEF Init, NetInit, DescInv

LEMMA HandlerDescriptors ==
  ASSUME TypeOK, DescInv, NEW h \in Handler, ReceiveHandler(h)
  PROVE  DescInv'
<1> USE DEF DescInv, Accounted, mainVars, lisVars
<1>1. CASE HandlerCall(h) \/ HandlerEnd(h)
  BY <1>1 DEF HandlerCall, HandlerEnd, HandlerOnly, netVars, tblVars
<1>2. CASE HandlerData(h)
  BY <1>2 DEF HandlerData, Drain, tblVars
<1>3. CASE HandlerRemove(h)
  BY <1>3, RemoveAccounts DEF HandlerRemove, TakeOut
<1>4. CASE HandlerClose(h)
  BY <1>4 DEF HandlerClose, Close, tblVars, TypeOK, NetTypeOK
<1> QED BY <1>1, <1>2, <1>3, <1>4 DEF ReceiveHandler

LEMMA ListenDescriptors ==
  ASSUME TypeOK, DescInv, ListenThread
  PROVE  DescInv'
<1> USE Sets DEF TypeOK, NetTypeOK, DescInv, Accounted, mainVars, handVars
<1>1. CASE ListenOpen
  BY <1>1 DEF ListenOpen, Bind, tblVars
<1>2. CASE ListenBind
  BY <1>2 DEF ListenBind, Close, tblVars
<1>3. CASE ListenCall \/ ListenError \/ ListenStarved
  BY <1>3 DEF ListenCall, ListenError, ListenStarved, ListenOnly, netVars, tblVars
<1>4. CASE ListenReturn
  BY <1>4 DEF ListenReturn, Accepted, Bind, tblVars
<1>5. CASE ListenAdd
  <2>1. ASSUME NEW i \in Slot, AddOk(i, lfd, lsock), lpc' = "spawn"
        PROVE  DescInv'
    BY <1>5, <2>1, AddOkAccounts DEF ListenAdd
  <2>2. CASE AddFails(lfd) /\ lpc' = "drop"
    BY <1>5, <2>2, AddFailsAccounts DEF ListenAdd
  <2> QED BY <1>5, <2>1, <2>2 DEF ListenAdd
<1>6. CASE ListenSpawn
  BY <1>6 DEF ListenSpawn, netVars, tblVars
<1>7. CASE ListenDrop
  BY <1>7 DEF ListenDrop, CloseNew, Close, tblVars
<1> QED BY <1>1, <1>2, <1>3, <1>4, <1>5, <1>6, <1>7 DEF ListenThread

LEMMA CommandDescriptors ==
  ASSUME TypeOK, DescInv, Command
  PROVE  DescInv'
<1> USE Sets DEF TypeOK, NetTypeOK, DescInv, Accounted, mainVars, lisVars, Others
<1>1. ASSUME NEW id \in Id, CmdTerminate(id)
      PROVE  DescInv'
  BY <1>1, RemoveAccounts DEF CmdTerminate
<1>2. ASSUME NEW id \in Id, CmdSend(id)
      PROVE  DescInv'
  BY <1>2 DEF CmdSend, netVars, tblVars
<1>3. CASE CmdConnect
  BY <1>3 DEF CmdConnect, NewSocket, Bind, tblVars
<1>4. CASE CmdExit \/ EndOfInput
  BY <1>4 DEF CmdExit, EndOfInput, netVars, tblVars
<1> QED BY <1>1, <1>2, <1>3, <1>4 DEF Command

LEMMA MainDescriptors ==
  ASSUME TypeOK, DescInv, MainStep
  PROVE  DescInv'
<1> USE Sets DEF TypeOK, NetTypeOK, DescInv, Accounted, lisVars, Others, Prompt
<1>1. CASE SendOut
  <2>1. CASE Vanish("killed")
    BY <2>1, VanishAccounts
  <2>2. CASE Prompt /\ UNCHANGED <<fdtab, tblVars>> /\ Others
    BY <1>1, <2>2 DEF SendOut, tblVars
  <2>3. CASE mpc' = "blocked" /\ UNCHANGED <<fdtab, tblVars>> /\ Others
    BY <1>1, <2>3 DEF SendOut, tblVars
  <2> QED BY <1>1, <2>1, <2>2, <2>3 DEF SendOut, Transmit, netVars
<1>2. CASE MainConnect
  BY <1>2 DEF MainConnect, Connected, Refused, Close, tblVars
<1>3. CASE MainAdd
  <2>1. ASSUME NEW i \in Slot, AddOk(i, mfd, msock), Prompt
        PROVE  DescInv'
    BY <1>3, <2>1, AddOkAccounts DEF MainAdd
  <2>2. CASE AddFails(mfd) /\ mpc' = "drop" /\ UNCHANGED mfd
    BY <1>3, <2>2, AddFailsAccounts DEF MainAdd
  <2> QED BY <1>3, <2>1, <2>2 DEF MainAdd
<1>4. CASE MainDrop
  BY <1>4 DEF MainDrop, Close, tblVars
<1>5. CASE ExitLoop
  <2>1. CASE Remove(mid) /\ UNCHANGED <<mpc, mfd>>
    BY <1>5, <2>1, RemoveAccounts DEF ExitLoop
  <2>2. CASE mpc' = "stop" /\ UNCHANGED <<fdtab, tblVars>>
    BY <1>5, <2>2 DEF ExitLoop, tblVars
  <2> QED BY <1>5, <2>1, <2>2 DEF ExitLoop
<1>6. CASE StopListen
  BY <1>6 DEF StopListen, Close, tblVars
<1>7. CASE UnsetListen
  BY <1>7 DEF UnsetListen, netVars, tblVars
<1>8. CASE Exit
  BY <1>8, VanishAccounts DEF Exit
<1>9. CASE SendFails
  <2>1. CASE Vanish("killed")
    BY <2>1, VanishAccounts
  <2>2. CASE Prompt /\ UNCHANGED <<fdtab, tblVars>> /\ Others
    BY <1>9, <2>2 DEF SendFails, tblVars
  <2> QED BY <1>9, <2>1, <2>2 DEF SendFails, Transmit
<1> QED BY <1>1, <1>2, <1>3, <1>4, <1>5, <1>6, <1>7, <1>8, <1>9 DEF MainStep

LEMMA PeerDescriptors ==
  ASSUME TypeOK, DescInv, Peer
  PROVE  DescInv'
BY DEF DescInv, Accounted, Peer, PeerConnect, PeerSend, PeerClose, mainVars,
       lisVars, tblVars, Others

LEMMA PeerReadsDescriptors ==
  ASSUME TypeOK, DescInv, PeerReads
  PROVE  DescInv'
BY DEF DescInv, Accounted, PeerReads, Prompt, netVars, tblVars, lisVars, Others

LEMMA NextDescriptors ==
  ASSUME TypeOK, DescInv, [Next]_vars
  PROVE  DescInv'
<1>1. CASE UNCHANGED vars
  BY <1>1 DEF DescInv, Accounted, vars, netVars, tblVars, mainVars, lisVars
<1> QED BY <1>1, CommandDescriptors, MainDescriptors, ListenDescriptors,
           HandlerDescriptors, PeerDescriptors, PeerReadsDescriptors DEF Next, Terminated

-----------------------------------------------------------------------------
(* An entry has a handler.                                                  *)
(*                                                                          *)
(* A handler takes out the entry of its own id only, so what has to be      *)
(* known of the table is that ids are given out in order and that no two    *)
(* entries share one.                                                       *)

\* Steps that leave the table alone and do not end a handler's loop.
LEMMA TableKept ==
  ASSUME TypeOK, TableInv, UNCHANGED tblVars,
         \A t \in Id : hpc[<<t, 1>>] \in {"call", "in", "remove"}
                         => hpc'[<<t, 1>>] \in {"call", "in", "remove"}
  PROVE  TableInv'
BY DEF TableInv, ListedHasHandler, tblVars

LEMMA AddOkTable ==
  ASSUME TypeOK, TableInv, NEW i \in Slot, NEW f, NEW s, AddOk(i, f, s)
  PROVE  TableInv'
<1>1. /\ active' = active \cup {i} /\ i \notin active
      /\ cid'[i] = next_id
      /\ \A j \in active : cid'[j] = cid[j] /\ cid[j] \in Id /\ cid[j] < next_id
      /\ next_id \in Id /\ next_id' = next_id + 1
  BY DEF TypeOK, TableInv, AddOk, Enter, NewId, FirstFree
<1>2. Id \subseteq Nat
  BY DEF Id, Sock
<1>3. ASSUME NEW j \in active'
      PROVE  cid'[j] \in Id /\ cid'[j] < next_id'
  <2>1. next_id \in Nat /\ next_id < next_id'
    BY <1>1, <1>2
  <2>2. CASE j = i
    BY <1>1, <2>1, <2>2
  <2>3. CASE j \in active
    <3>1. cid'[j] = cid[j] /\ cid[j] \in Id /\ cid[j] < next_id
      BY <1>1, <2>3
    <3>2. cid[j] \in Nat /\ next_id' = next_id + 1
      BY <1>1, <1>2, <3>1
    <3>3. cid[j] < next_id'
      BY <2>1, <3>1, <3>2
    <3> QED BY <3>1, <3>3
  <2> QED BY <1>1, <2>2, <2>3
<1>4. \A j, k \in active' : cid'[j] = cid'[k] => j = k
  BY <1>1, <1>2 DEF TableInv
<1>5. ListedHasHandler'
  <2>1. /\ hpc'[<<next_id, 1>>] = "call"
        /\ \A t \in Id : t # next_id => hpc'[<<t, 1>>] = hpc[<<t, 1>>]
    BY <1>1 DEF TypeOK, AddOk, Handler
  <2>2. \A j \in active : cid[j] # next_id
    BY <1>1, <1>2
  <2> QED BY <1>1, <2>1, <2>2 DEF TableInv, ListedHasHandler
<1> QED BY <1>3, <1>4, <1>5 DEF TableInv

LEMMA AddFailsTable ==
  ASSUME TypeOK, TableInv, NEW f, AddFails(f), hpc' = hpc
  PROVE  TableInv'
<1>1. CASE UNCHANGED tblVars
  BY <1>1 DEF TableInv, ListedHasHandler, tblVars
<1>2. ASSUME NEW i \in Slot, Enter(i, f), active' = active
      PROVE  TableInv'
  <2>1. /\ \A j \in active : cid'[j] = cid[j]
        /\ next_id' = next_id + 1
    BY <1>2 DEF TypeOK, Enter, FirstFree
  <2>2. \A j \in active : cid[j] \in Id /\ cid[j] < next_id'
    BY <2>1 DEF TypeOK, TableInv, Id, Sock
  <2> QED BY <1>2, <2>1, <2>2 DEF TableInv, ListedHasHandler
<1> QED BY <1>1, <1>2 DEF AddFails

\* Remove takes the entry out, whoever asks for it.
LEMMA RemoveTable ==
  ASSUME TypeOK, TableInv, NEW id, Remove(id)
  PROVE  /\ UNCHANGED <<cid, cfd, next_id, home>>
         /\ active' \subseteq active
         /\ \A i \in active : cid[i] = id <=> i \notin active'
BY DEF TypeOK, TableInv, Remove, HasId, tblVars

LEMMA HandlerTable ==
  ASSUME TypeOK, TableInv, NEW h \in Handler, ReceiveHandler(h)
  PROVE  TableInv'
<1> USE DEF TypeOK
<1>1. CASE HandlerCall(h)
  <2>1. /\ hpc' \in {[hpc EXCEPT ![h] = "in"], [hpc EXCEPT ![h] = "remove"]}
        /\ UNCHANGED tblVars
    BY <1>1 DEF HandlerCall, HandlerOnly
  <2>2. ASSUME NEW t \in Id, hpc[<<t, 1>>] \in {"call", "in", "remove"}
        PROVE  hpc'[<<t, 1>>] \in {"call", "in", "remove"}
    <3>1. <<t, 1>> \in Handler
      BY DEF Handler
    <3> QED BY <2>1, <2>2, <3>1
  <2> QED BY <2>1, <2>2, TableKept
<1>2. CASE HandlerData(h)
  BY <1>2, TableKept DEF HandlerData, AfterData
<1>3. CASE HandlerEnd(h)
  BY <1>3, TableKept DEF HandlerEnd, AfterEnd, HandlerOnly
<1>4. CASE HandlerRemove(h)
  <2>1. /\ UNCHANGED <<cid, cfd, next_id, home>>
        /\ active' \subseteq active
        /\ \A i \in active : cid[i] = h[1] <=> i \notin active'
    BY <1>4, RemoveTable DEF HandlerRemove, TakeOut
  <2>2. ASSUME NEW i \in active'
        PROVE  hpc'[<<cid[i], 1>>] \in {"call", "in", "remove"}
    <3>1. <<cid[i], 1>> # h
      BY <2>1, <2>2
    <3>2. hpc'[<<cid[i], 1>>] = hpc[<<cid[i], 1>>]
      BY <1>4, <2>1, <2>2, <3>1 DEF HandlerRemove, TableInv, Handler
    <3> QED BY <2>1, <2>2, <3>2 DEF TableInv, ListedHasHandler
  <2> QED BY <2>1, <2>2 DEF TableInv, ListedHasHandler
<1>5. CASE HandlerClose(h)
  BY <1>5, TableKept DEF HandlerClose
<1> QED BY <1>1, <1>2, <1>3, <1>4, <1>5 DEF ReceiveHandler

LEMMA RemoveKeeps ==
  ASSUME TypeOK, TableInv, NEW id, Remove(id), hpc' = hpc
  PROVE  TableInv'
BY RemoveTable DEF TableInv, ListedHasHandler

LEMMA VanishTable ==
  ASSUME NEW how, Vanish(how)
  PROVE  TableInv'
BY DEF Vanish, TableInv, ListedHasHandler

LEMMA ListenTable ==
  ASSUME TypeOK, TableInv, ListenThread
  PROVE  TableInv'
<1>1. CASE ListenOpen \/ ListenBind \/ ListenCall \/ ListenError \/ ListenReturn
           \/ ListenStarved \/ ListenDrop
  BY <1>1, TableKept DEF ListenOpen, ListenBind, ListenCall, ListenError,
     ListenReturn, ListenStarved, ListenDrop, ListenOnly, handVars
<1>2. CASE ListenAdd
  BY <1>2, AddOkTable, AddFailsTable DEF ListenAdd, handVars
<1>3. CASE ListenSpawn
  BY <1>3, TableKept DEF ListenSpawn, TypeOK, Handler
<1> QED BY <1>1, <1>2, <1>3 DEF ListenThread

LEMMA MainTable ==
  ASSUME TypeOK, TableInv, Command \/ MainStep
  PROVE  TableInv'
<1>1. ASSUME NEW id \in Id, CmdTerminate(id) \/ CmdSend(id)
      PROVE  TableInv'
  BY <1>1, RemoveKeeps, TableKept DEF CmdTerminate, CmdSend, handVars
<1>2. CASE CmdConnect \/ CmdExit \/ EndOfInput \/ MainConnect \/ MainDrop
           \/ StopListen \/ UnsetListen
  BY <1>2, TableKept DEF CmdConnect, CmdExit, EndOfInput, MainConnect, MainDrop,
     StopListen, UnsetListen, handVars
<1>3. CASE SendOut \/ SendFails
  BY <1>3, VanishTable, TableKept DEF SendOut, SendFails, handVars
<1>4. CASE MainAdd
  BY <1>4, AddOkTable, AddFailsTable DEF MainAdd, handVars
<1>5. CASE ExitLoop
  BY <1>5, RemoveKeeps, TableKept DEF ExitLoop, handVars
<1>6. CASE Exit
  BY <1>6, VanishTable DEF Exit
<1> QED BY <1>1, <1>2, <1>3, <1>4, <1>5, <1>6 DEF Command, MainStep

LEMMA NextTable ==
  ASSUME TypeOK, TableInv, [Next]_vars
  PROVE  TableInv'
<1>1. CASE UNCHANGED vars \/ Peer \/ PeerReads
  BY <1>1, TableKept DEF vars, Peer, PeerReads, handVars
<1> QED BY <1>1, MainTable, ListenTable, HandlerTable DEF Next, Terminated

-----------------------------------------------------------------------------
(* A connection is listed once.                                             *)
(*                                                                          *)
(* What main and the listen thread are about to enter is a connection of    *)
(* its own: established, in nobody else's hands and not in the table.       *)

\* Entries may go; nobody takes up a connection.
NothingTaken ==
  /\ active' \subseteq active
  /\ \A i \in active' : Connection(i)' = Connection(i)
  /\ mpc' \in {"connect", "add"} => UNCHANGED <<mpc, msock>>
  /\ lpc' = "add" => UNCHANGED <<lpc, lsock>>

LEMMA NothingTakenKeeps ==
  ASSUME ListInv, HandsInv, NothingTaken, UNCHANGED <<nsock, st>>
  PROVE  ListInv' /\ HandsInv'
<1>1. ListInv'
  BY DEF ListInv, NothingTaken
<1>2. \A s : Unlisted(s) => Unlisted(s)'
  BY DEF Unlisted, NothingTaken
<1> QED BY <1>1, <1>2 DEF HandsInv, NothingTaken

LEMMA SameTable ==
  ASSUME UNCHANGED tblVars
  PROVE  active' = active /\ \A i : Connection(i)' = Connection(i)
BY DEF tblVars, Connection

LEMMA AddFailsTakesNothing ==
  ASSUME TypeOK, NEW f, AddFails(f)
  PROVE  active' = active /\ \A i \in active : Connection(i)' = Connection(i)
BY DEF TypeOK, AddFails, Enter, FirstFree, Connection, tblVars

LEMMA RemoveTakesNothing ==
  ASSUME TypeOK, NEW id, Remove(id)
  PROVE  active' \subseteq active /\ \A i \in active : Connection(i)' = Connection(i)
BY DEF Remove, Connection, tblVars

LEMMA VanishConnections ==
  ASSUME NEW how, Vanish(how)
  PROVE  ListInv' /\ HandsInv'
BY DEF Vanish, ListInv, HandsInv

LEMMA AddOkConnections ==
  ASSUME TypeOK, TableInv, ListInv, NEW i \in Slot, NEW f \in Fd, NEW s,
         Unlisted(s), st[s] = "est", AddOk(i, f, s), UNCHANGED st
  PROVE  /\ ListInv'
         /\ \A r : r # s /\ Unlisted(r) => Unlisted(r)'
<1>1. /\ active' = active \cup {i} /\ i \notin active
      /\ cid'[i] = next_id /\ next_id \in Id
      /\ \A j \in active : cid'[j] = cid[j]
      /\ home' = [home EXCEPT ![next_id] = s]
  BY DEF TypeOK, AddOk, Enter, NewId, FirstFree
<1>2. Connection(i)' = s
  BY <1>1 DEF TypeOK, Connection
<1>3. ASSUME NEW j \in active
      PROVE  Connection(j)' = Connection(j)
  <2>1. cid[j] # next_id
    BY <1>1, <1>3 DEF TableInv, Id, Sock
  <2> QED BY <1>1, <2>1 DEF Connection, TypeOK
<1> QED BY <1>1, <1>2, <1>3 DEF ListInv, Unlisted

LEMMA HandlerConnections ==
  ASSUME TypeOK, ListInv, HandsInv, NEW h \in Handler, ReceiveHandler(h)
  PROVE  ListInv' /\ HandsInv'
<1>1. UNCHANGED <<nsock, st>>
  BY DEF ReceiveHandler, HandlerCall, HandlerData, HandlerEnd, HandlerRemove,
         HandlerClose, HandlerOnly, Drain, NetKept, netVars
<1>2. NothingTaken
  BY SameTable, RemoveTakesNothing
  DEF NothingTaken, ReceiveHandler, HandlerCall, HandlerData, HandlerEnd,
      HandlerRemove, TakeOut, HandlerClose, HandlerOnly, mainVars, lisVars
<1> QED BY <1>1, <1>2, NothingTakenKeeps

LEMMA ListenConnections ==
  ASSUME TypeOK, TableInv, ListInv, HandsInv, ListenThread
  PROVE  ListInv' /\ HandsInv'
<1>1. CASE ListenOpen \/ ListenBind \/ ListenCall \/ ListenError \/ ListenSpawn
           \/ ListenStarved \/ ListenDrop
  <2>1. UNCHANGED <<nsock, st, tblVars, mpc, msock>> /\ lpc' # "add"
    BY <1>1 DEF ListenOpen, ListenBind, ListenCall, ListenError, ListenOnly,
                ListenStarved, ListenSpawn, ListenDrop, NetKept, netVars, mainVars
  <2> QED BY <2>1, SameTable, NothingTakenKeeps DEF NothingTaken
<1>2. CASE ListenReturn
  <2>1. PICK s \in Sock : /\ st[s] = "queued"
                          /\ st' = [st EXCEPT ![s] = "est"]
                          /\ lsock' = s
                          /\ UNCHANGED nsock
    BY <1>2 DEF ListenReturn, Accepted
  <2>2. /\ UNCHANGED tblVars /\ UNCHANGED <<mpc, msock>> /\ lpc' = "add"
        /\ active' = active /\ \A i : Connection(i)' = Connection(i)
    BY <1>2, SameTable DEF ListenReturn, mainVars
  <2>3. ListInv'
    BY <2>1, <2>2 DEF ListInv, TypeOK, NetTypeOK
  <2>4. Unlisted(s) /\ \A r : Unlisted(r) => Unlisted(r)'
    BY <2>1, <2>2 DEF Unlisted, ListInv
  <2> QED BY <2>1, <2>2, <2>3, <2>4 DEF HandsInv, Unlisted, TypeOK, NetTypeOK
<1>3. CASE ListenAdd
  <2>1. Unlisted(lsock) /\ st[lsock] = "est" /\ lfd \in Fd
        /\ UNCHANGED <<nsock, st, mpc, msock>> /\ lpc' # "add"
    BY <1>3 DEF ListenAdd, HandsInv, NetKept, mainVars, TypeOK
  <2>2. ASSUME NEW i \in Slot, AddOk(i, lfd, lsock)
        PROVE  ListInv' /\ HandsInv'
    <3>1. ListInv' /\ \A r : r # lsock /\ Unlisted(r) => Unlisted(r)'
      BY <2>1, <2>2, AddOkConnections
    <3>2. lpc = "add"
      BY <1>3 DEF ListenAdd
    <3>3. msock = lsock => mpc \notin {"connect", "add"}
      BY <2>1, <3>2 DEF HandsInv
    <3> QED BY <2>1, <3>1, <3>3 DEF HandsInv
  <2>3. CASE AddFails(lfd)
    BY <2>1, <2>3, AddFailsTakesNothing, NothingTakenKeeps DEF NothingTaken
  <2> QED BY <1>3, <2>2, <2>3 DEF ListenAdd
<1> QED BY <1>1, <1>2, <1>3 DEF ListenThread

LEMMA MainConnections ==
  ASSUME TypeOK, TableInv, ListInv, HandsInv, Command \/ MainStep
  PROVE  ListInv' /\ HandsInv'
<1>1. ASSUME NEW id \in Id, CmdTerminate(id) \/ CmdSend(id)
      PROVE  ListInv' /\ HandsInv'
  <2>1. UNCHANGED <<nsock, st, lpc, lsock>> /\ mpc' \notin {"connect", "add"}
    BY <1>1 DEF CmdTerminate, CmdSend, NetKept, netVars, mainVars, lisVars, Others
  <2>2. active' \subseteq active /\ \A i \in active : Connection(i)' = Connection(i)
    BY <1>1, RemoveTakesNothing, SameTable DEF CmdTerminate, CmdSend
  <2> QED BY <2>1, <2>2, NothingTakenKeeps DEF NothingTaken
<1>2. CASE CmdExit \/ EndOfInput \/ MainDrop \/ StopListen \/ UnsetListen
  <2>1. UNCHANGED <<nsock, st, tblVars, lpc, lsock>> /\ mpc' \notin {"connect", "add"}
    BY <1>2 DEF CmdExit, EndOfInput, MainDrop, StopListen, UnsetListen, NetKept,
                Prompt, netVars, lisVars, Others
  <2> QED BY <2>1, SameTable, NothingTakenKeeps DEF NothingTaken
<1>3. CASE CmdConnect
  <2>1. PICK s \in Sock : /\ nsock < MaxSock /\ s = nsock + 1
                          /\ nsock' = s
                          /\ st' = [st EXCEPT ![s] = "fresh"]
                          /\ msock' = s
    BY <1>3 DEF CmdConnect, NewSocket
  <2>2. /\ UNCHANGED tblVars /\ UNCHANGED <<lpc, lsock>> /\ mpc' = "connect"
        /\ active' = active /\ \A i : Connection(i)' = Connection(i)
    BY <1>3, SameTable DEF CmdConnect, lisVars, Others
  <2>3. nsock \in Nat /\ st[s] = "none"
    BY <2>1 DEF HandsInv, TypeOK, NetTypeOK
  <2>4. ListInv'
    BY <2>1, <2>2, <2>3 DEF ListInv, TypeOK, NetTypeOK
  <2>5. Unlisted(s) /\ \A r : Unlisted(r) => Unlisted(r)'
    BY <2>1, <2>2, <2>3 DEF Unlisted, ListInv
  <2>6. \A r \in Sock : r > nsock' => r > nsock /\ r # s
    BY <2>1, <2>3 DEF Sock
  <2> QED BY <2>1, <2>2, <2>3, <2>4, <2>5, <2>6
          DEF HandsInv, Unlisted, TypeOK, NetTypeOK
<1>4. CASE SendOut \/ SendFails
  <2>1. ASSUME NEW how \in {"killed"}, Vanish(how)
        PROVE  ListInv' /\ HandsInv'
    BY <2>1, VanishConnections
  <2>2. CASE mpc' \in {"prompt", "blocked"} /\ Others /\ UNCHANGED <<nsock, st, tblVars>>
    BY <2>2, SameTable, NothingTakenKeeps
    DEF NothingTaken, Others, lisVars
  <2> QED BY <1>4, <2>1, <2>2 DEF SendOut, SendFails, Transmit, Prompt, netVars
<1>5. CASE MainConnect
  <2>1. Unlisted(msock) /\ st[msock] = "fresh"
    BY <1>5 DEF MainConnect, HandsInv
  <2>2. /\ active' = active /\ \A i : Connection(i)' = Connection(i)
        /\ UNCHANGED <<nsock, lpc, lsock>>
    BY <1>5, SameTable DEF MainConnect, Connected, Refused, Others, lisVars
  <2>3. /\ st' \in {[st EXCEPT ![msock] = "est"], [st EXCEPT ![msock] = "failed"]}
        /\ mpc' = "add" => st' = [st EXCEPT ![msock] = "est"] /\ msock' = msock
        /\ mpc' \in {"add", "prompt"}
    BY <1>5 DEF MainConnect, Connected, Refused, Prompt
  <2>4. ListInv'
    BY <2>1, <2>2, <2>3 DEF ListInv, Unlisted, TypeOK, NetTypeOK
  <2>5. \A r : Unlisted(r) => Unlisted(r)'
    BY <2>2 DEF Unlisted
  <2>6. msock <= nsock /\ (lpc = "add" => msock # lsock)
    BY <2>1 DEF HandsInv, Unlisted, TypeOK, NetTypeOK, Sock
  <2> QED BY <2>1, <2>2, <2>3, <2>4, <2>5, <2>6
          DEF HandsInv, Unlisted, TypeOK, NetTypeOK
<1>6. CASE MainAdd
  <2>1. Unlisted(msock) /\ st[msock] = "est" /\ mfd \in Fd /\ mpc = "add"
        /\ UNCHANGED <<nsock, st, lpc, lsock>> /\ mpc' \in {"prompt", "drop"}
    BY <1>6 DEF MainAdd, HandsInv, NetKept, lisVars, Others, Prompt, TypeOK
  <2>2. ASSUME NEW i \in Slot, AddOk(i, mfd, msock)
        PROVE  ListInv' /\ HandsInv'
    <3>1. ListInv' /\ \A r : r # msock /\ Unlisted(r) => Unlisted(r)'
      BY <2>1, <2>2, AddOkConnections
    <3> QED BY <2>1, <3>1 DEF HandsInv
  <2>3. CASE AddFails(mfd)
    BY <2>1, <2>3, AddFailsTakesNothing, NothingTakenKeeps DEF NothingTaken
  <2> QED BY <1>6, <2>2, <2>3 DEF MainAdd
<1>7. CASE ExitLoop
  <2>1. UNCHANGED <<nsock, st, lpc, lsock>> /\ mpc' \notin {"connect", "add"}
    BY <1>7 DEF ExitLoop, NetKept, lisVars, Others
  <2>2. active' \subseteq active /\ \A i \in active : Connection(i)' = Connection(i)
    BY <1>7, RemoveTakesNothing, SameTable DEF ExitLoop
  <2> QED BY <2>1, <2>2, NothingTakenKeeps DEF NothingTaken
<1>8. CASE Exit
  BY <1>8, VanishConnections DEF Exit
<1> QED BY <1>1, <1>2, <1>3, <1>4, <1>5, <1>6, <1>7, <1>8 DEF Command, MainStep

LEMMA PeerConnections ==
  ASSUME TypeOK, ListInv, HandsInv, Peer
  PROVE  ListInv' /\ HandsInv'
<1>1. /\ active' = active /\ \A i : Connection(i)' = Connection(i)
      /\ UNCHANGED <<mpc, msock, lpc, lsock>>
  BY SameTable DEF Peer, mainVars, lisVars, Others
<1>2. CASE UNCHANGED <<nsock, st>>
  BY <1>1, <1>2, NothingTakenKeeps DEF NothingTaken
<1>3. CASE PeerConnect
  <2>1. /\ nsock < MaxSock /\ nsock \in Nat
        /\ nsock' = nsock + 1
        /\ st' = [st EXCEPT ![nsock + 1] = "queued"]
        /\ nsock + 1 \in Sock
    BY <1>3 DEF PeerConnect, TypeOK, NetTypeOK, Sock
  <2>2. st[nsock + 1] = "none"
    BY <2>1 DEF HandsInv
  <2>3. ListInv'
    BY <1>1, <2>1, <2>2 DEF ListInv, TypeOK, NetTypeOK
  <2>4. \A r : Unlisted(r) => Unlisted(r)'
    BY <1>1 DEF Unlisted
  <2>5. \A r \in Sock : r > nsock' => r > nsock /\ r # nsock + 1
    BY <2>1 DEF Sock
  <2> QED BY <1>1, <2>1, <2>2, <2>3, <2>4, <2>5
          DEF HandsInv, Unlisted, TypeOK, NetTypeOK
<1> QED BY <1>2, <1>3 DEF Peer, PeerSend, PeerClose

LEMMA PeerReadsConnections ==
  ASSUME TypeOK, ListInv, HandsInv, PeerReads
  PROVE  ListInv' /\ HandsInv'
BY SameTable, NothingTakenKeeps
   DEF NothingTaken, PeerReads, Prompt, netVars, lisVars, Others

LEMMA NextConnections ==
  ASSUME TypeOK, TableInv, ListInv, HandsInv, [Next]_vars
  PROVE  ListInv' /\ HandsInv'
<1>1. CASE UNCHANGED vars
  BY <1>1, SameTable, NothingTakenKeeps
  DEF NothingTaken, vars, netVars, mainVars, lisVars
<1> QED BY <1>1, MainConnections, ListenConnections, HandlerConnections,
           PeerConnections, PeerReadsConnections DEF Next, Terminated

-----------------------------------------------------------------------------
(* The invariant. *)

LEMMA InitIInv == Init => IInv
<1> SUFFICES ASSUME Init PROVE IInv
  OBVIOUS
<1>1. TypeOK
  BY InitTypeOK
<1>2. DescInv
  BY InitDescriptors
<1>3. TableInv /\ ListInv /\ HandsInv
  BY DEF Init, NetInit, TableInv, ListedHasHandler, ListInv, HandsInv
<1> QED BY <1>1, <1>2, <1>3 DEF IInv

\* The invariant is inductive, for every number of slots, descriptors and
\* endpoints.
THEOREM ChatV2Inductive == Spec => []IInv
<1>1. IInv /\ [Next]_vars => IInv'
  BY NextTypes, NextDescriptors, NextTable, NextConnections DEF IInv
<1> QED BY InitIInv, <1>1, PTL DEF Spec

\* Every variable of the second program keeps its type.
THEOREM ChatV2Types == Spec => []TypeOK
<1>1. IInv => TypeOK
  BY DEF IInv
<1> QED BY ChatV2Inductive, <1>1, PTL

\* In spite of every double and misdirected close no descriptor leaks: each open
\* one is the listener, is in the table, or is in the hands of a thread.
THEOREM ChatV2Descriptors == Spec => []DescriptorsAccounted
<1>1. IInv => DescriptorsAccounted
  BY DEF IInv, DescInv, Accounted, DescriptorsAccounted
<1> QED BY ChatV2Inductive, <1>1, PTL

\* An entry is in the table only as long as the handler that will take it out
\* is alive, whatever the handlers of reused descriptors do.
THEOREM ChatV2Handlers == Spec => []ListedHasHandler
<1>1. IInv => ListedHasHandler
  BY DEF IInv, TableInv
<1> QED BY ChatV2Inductive, <1>1, PTL

-----------------------------------------------------------------------------
(* The table implements the registry.                                       *)

\* While a slot is free the registry has room.
LEMMA Room ==
  ASSUME TypeOK, NEW i \in Slot, i \notin active
  PROVE  Cardinality(Members) < MaxConn
<1>1. IsFiniteSet(Slot) /\ Cardinality(Slot) = MaxConn
  BY FS_Interval DEF Slot
<1>2. active \in SUBSET Slot /\ active # Slot
  BY DEF TypeOK
<1>3. /\ IsFiniteSet(active)
      /\ Cardinality(active) <= Cardinality(Slot)
      /\ Cardinality(active) # Cardinality(Slot)
  BY <1>1, <1>2, FS_Subset
<1> DEFINE f == [j \in active |-> <<cid[j], Connection(j)>>]
<1>4. f \in Surjection(active, Members)
  BY DEF Surjection, Members
<1>5. IsFiniteSet(Members) /\ Cardinality(Members) <= Cardinality(active)
  BY <1>3, <1>4, FS_Surjection
<1>6. Cardinality(active) \in Nat /\ Cardinality(Members) \in Nat
  BY <1>3, <1>5, FS_CardinalityType
<1> QED BY <1>1, <1>3, <1>5, <1>6

LEMMA AddOkJoins ==
  ASSUME TypeOK, TableInv, NEW i \in Slot, NEW f, NEW s, Unlisted(s), AddOk(i, f, s)
  PROVE  Registry!Join(s)
<1>1. /\ i \notin active /\ active' = active \cup {i}
      /\ next_id \in Id /\ next_id' = next_id + 1
      /\ cid'[i] = next_id
      /\ \A j \in active : cid'[j] = cid[j]
      /\ home' = [home EXCEPT ![next_id] = s]
  BY DEF TypeOK, AddOk, Enter, NewId, FirstFree
<1>2. Connection(i)' = s
  BY <1>1 DEF TypeOK, Connection
<1>3. ASSUME NEW j \in active
      PROVE  Connection(j)' = Connection(j)
  <2>1. cid[j] # next_id
    BY <1>1, <1>3 DEF TableInv, Id, Sock
  <2> QED BY <1>1, <2>1 DEF Connection, TypeOK
<1>4. Members' = Members \cup {<<next_id, s>>}
  BY <1>1, <1>2, <1>3 DEF Members
<1>5. /\ next_id - 1 < MaxSock
      /\ next_id' - 1 = next_id - 1 + 1
      /\ next_id' - 1 = next_id
  BY <1>1 DEF Id, Sock
<1>6. \A m \in Members : m[2] # s
  BY DEF Members, Unlisted
<1>7. Registry!Cardinality(Members) < MaxConn
  <2>1. Registry!Cardinality(Members) = Cardinality(Members)
    BY DEF Registry!Cardinality, Cardinality
  <2> QED BY <1>1, <2>1, Room
<1>8. Members' = Members \cup {<<next_id' - 1, s>>}
  BY <1>4, <1>5
<1> QED BY <1>5, <1>6, <1>7, <1>8 DEF Registry!Join

LEMMA AddFailsBurns ==
  ASSUME TypeOK, NEW f, AddFails(f)
  PROVE  Registry!Burn \/ UNCHANGED Registry!regVars
<1>1. active' = active /\ \A j \in active : cid'[j] = cid[j] /\ Connection(j)' = Connection(j)
  BY DEF TypeOK, AddFails, Enter, FirstFree, Connection, tblVars
<1>2. Members' = Members
  BY <1>1 DEF Members
<1>3. CASE next_id' = next_id
  BY <1>2, <1>3 DEF Registry!regVars
<1>4. CASE next_id \in Id /\ next_id' = next_id + 1
  <2>1. next_id - 1 < MaxSock /\ next_id' - 1 = next_id - 1 + 1
    BY <1>4 DEF Id, Sock
  <2> QED BY <1>2, <2>1 DEF Registry!Burn
<1> QED BY <1>3, <1>4 DEF AddFails, Enter, tblVars

LEMMA RemoveLeaves ==
  ASSUME TypeOK, TableInv, NEW id, Remove(id)
  PROVE  (\E m \in Members : Registry!Leave(m)) \/ UNCHANGED Registry!regVars
<1>1. ASSUME NEW i \in Slot, HasId(i, id), active' = active \ {i},
             UNCHANGED <<cid, cfd, next_id, home>>
      PROVE  \E m \in Members : Registry!Leave(m)
  <2> DEFINE m == <<cid[i], Connection(i)>>
  <2>1. m \in Members
    BY <1>1 DEF HasId, Members
  <2>2. \A j \in active' : j \in active /\ cid[j] # cid[i]
    BY <1>1 DEF HasId, TableInv
  <2>3. Members' = Members \ {m}
    BY <1>1, <2>2 DEF Members, Connection, HasId
  <2> QED BY <1>1, <2>1, <2>3 DEF Registry!Leave
<1>2. CASE UNCHANGED tblVars
  BY <1>2 DEF tblVars, Registry!regVars, Members, Connection
<1> QED BY <1>1, <1>2 DEF Remove

LEMMA VanishClears ==
  ASSUME NEW how, Vanish(how)
  PROVE  Registry!Clear
BY DEF Vanish, Members, Registry!Clear

LEMMA TableUnchanged ==
  ASSUME UNCHANGED tblVars
  PROVE  UNCHANGED Registry!regVars
BY DEF tblVars, Registry!regVars, Members, Connection

\* Every step does at most one of these to the table.
LEMMA TableSteps ==
  ASSUME TypeOK, HandsInv, [Next]_vars
  PROVE  \/ UNCHANGED tblVars
         \/ \E id \in Int : Remove(id)
         \/ \E how \in {"exited", "killed"} : Vanish(how)
         \/ \E f \in Fd : AddFails(f)
         \/ \E i \in Slot, f \in Fd, s \in Sock : Unlisted(s) /\ AddOk(i, f, s)
<1>1. CASE UNCHANGED vars \/ Peer \/ PeerReads \/ Terminated
  BY <1>1 DEF vars, Peer, PeerReads, Terminated
<1>2. ASSUME NEW h \in Handler, ReceiveHandler(h)
      PROVE  UNCHANGED tblVars \/ \E id \in Int : Remove(id)
  BY <1>2 DEF ReceiveHandler, HandlerCall, HandlerData, HandlerEnd, HandlerRemove,
              HandlerClose, HandlerOnly, TakeOut, Handler, Id, Sock
<1>3. CASE ListenThread
  <2>1. CASE ListenAdd
    BY <2>1 DEF ListenAdd, HandsInv, TypeOK, Unlisted
  <2>2. CASE ~ListenAdd
    BY <1>3, <2>2 DEF ListenThread, ListenOpen, ListenBind, ListenCall, ListenError,
       ListenReturn, ListenStarved, ListenSpawn, ListenDrop, ListenOnly
  <2> QED BY <2>1, <2>2
<1>4. ASSUME NEW id \in Id, CmdTerminate(id) \/ CmdSend(id)
      PROVE  UNCHANGED tblVars \/ \E n \in Int : Remove(n)
  BY <1>4 DEF CmdTerminate, CmdSend, Id, Sock
<1>5. CASE CmdConnect \/ CmdExit \/ EndOfInput \/ MainConnect \/ MainDrop
           \/ StopListen \/ UnsetListen
  BY <1>5 DEF CmdConnect, CmdExit, EndOfInput, MainConnect, MainDrop, StopListen,
              UnsetListen
<1>6. CASE SendOut \/ SendFails \/ Exit
  BY <1>6 DEF SendOut, SendFails, Exit
<1>7. CASE MainAdd
  BY <1>7 DEF MainAdd, HandsInv, TypeOK, Unlisted
<1>8. CASE ExitLoop
  BY <1>8 DEF ExitLoop, TypeOK
<1> QED BY <1>1, <1>2, <1>3, <1>4, <1>5, <1>6, <1>7, <1>8
        DEF Next, Command, MainStep

LEMMA StepRefines ==
  ASSUME TypeOK, TableInv, ListInv, HandsInv, [Next]_vars
  PROVE  [Registry!RegNext]_(Registry!regVars)
BY TableSteps, TableUnchanged, RemoveLeaves, VanishClears, AddFailsBurns, AddOkJoins
   DEF Registry!RegNext

\* The table of the second program, with its slots, descriptors, handlers and
\* their races hidden, is a registry: ids are given out once and in order, no
\* connection is listed twice, an entry is never changed in place.
THEOREM ChatV2Registry == Spec => RegistrySpec
<1>1. Init => Registry!RegInit
  BY DEF Init, Registry!RegInit, Members
<1>2. IInv /\ [Next]_vars => [Registry!RegNext]_(Registry!regVars)
  BY StepRefines DEF IInv
<1> QED BY ChatV2Inductive, <1>1, <1>2, PTL DEF Spec, RegistrySpec, Registry!RegSpec
=============================================================================

---------------------------- MODULE ChatV1Proofs ----------------------------
(***************************************************************************)
(* Theorems about ChatV1, for every number of slots, descriptors,          *)
(* endpoints and queued messages and every set of destinations.            *)
(***************************************************************************)
EXTENDS ChatV1, FiniteSetTheorems, TLAPS

USE SocketsAssumption, ChatV1Assumption
    DEF SocketsAssumption, ChatV1Assumption

\* The facts about the constant sets that the steps need.
LEMMA Sets ==
  /\ 0 \in Slot
  /\ 0 \in Fd
  /\ Id = Sock
  /\ Sock \subseteq Nat \ {0}
  /\ NoSock \notin Sock
  /\ NotTcp \notin Sock
  /\ NotTcp # NoSock
  /\ 0 \in Seen
  /\ NoDest \in Address
  /\ Dest \subseteq Address
  /\ Caller \subseteq Address
  BY DEF Seen, Address, Slot, Fd, Id, Sock, NoSock, NotTcp

LEMMA InitTypeOK == Init => TypeOK
  BY Sets DEF Init, NetInit, TypeOK, NetTypeOK, Sock

\* The part of TypeOK that add_connection can disturb.
TableTypes ==
  /\ used \subseteq Slot
  /\ cid \in [Slot -> Id \cup {0}]
  /\ cfd \in [Slot -> Fd]
  /\ addr \in [Slot -> Address]
  /\ next_id \in 1 .. MaxSock + 1
  /\ home \in [Id -> Sock \cup {NoSock}]
  /\ seen \in [Id -> Seen]

LEMMA EnterTypes ==
  ASSUME TypeOK, NEW i \in Slot, NEW f \in Fd,
         NEW a \in Address, NEW k \in Seen, Enter(i, f, a, k)
  PROVE  /\ cid' \in [Slot -> Id \cup {0}]
         /\ cfd' \in [Slot -> Fd]
         /\ addr' \in [Slot -> Address]
         /\ next_id' \in 1 .. MaxSock + 1
         /\ seen' \in [Id -> Seen]
<1>1. cid' \in [Slot -> Id \cup {0}]
  BY DEF TypeOK, Enter, NewId
<1>2. cfd' \in [Slot -> Fd]
  BY DEF TypeOK, Enter, NewId
<1>3. addr' \in [Slot -> Address]
  BY DEF TypeOK, Enter, NewId
<1>4. next_id' \in 1 .. MaxSock + 1
  BY DEF TypeOK, Enter, NewId, Id, Sock
<1>5. seen' \in [Id -> Seen]
  BY DEF TypeOK, Enter
<1> QED BY <1>1, <1>2, <1>3, <1>4, <1>5

LEMMA AddOkTypes ==
  ASSUME TypeOK, NEW i \in Slot, NEW f \in Fd, NEW s \in Sock,
         NEW a \in Address, NEW k \in Seen, AddOk(i, f, s, a, k)
  PROVE  /\ TableTypes'
         /\ rpc' \in [Id -> {"none", "top", "call", "in", "err", "done"}]
         /\ rslot' \in [Id -> Slot]
         /\ rfd' = rfd
         /\ rsock' = rsock
<1>1. Enter(i, f, a, k)
  BY DEF AddOk
<1>2. used' \subseteq Slot /\ home' \in [Id -> Sock \cup {NoSock}]
  BY DEF TypeOK, AddOk
<1>3. TableTypes'
  BY <1>1, <1>2, EnterTypes DEF TableTypes
<1>4. rpc' \in [Id -> {"none", "top", "call", "in", "err", "done"}]
  BY DEF TypeOK, AddOk
<1>5. rslot' \in [Id -> Slot]
  BY DEF TypeOK, AddOk
<1> QED BY <1>3, <1>4, <1>5 DEF AddOk

LEMMA AddFailsTypes ==
  ASSUME TypeOK, NEW f \in Fd, NEW s \in Sock,
         NEW a \in Address, NEW k \in Seen, AddFails(f, s, a, k)
  PROVE  TableTypes'
<1>1. CASE UNCHANGED tblVars
  BY <1>1 DEF TypeOK, TableTypes, tblVars
<1>2. ASSUME NEW i \in Slot, Enter(i, f, a, k), UNCHANGED <<used, home>>
      PROVE  TableTypes'
  <2>1. used' \subseteq Slot /\ home' \in [Id -> Sock \cup {NoSock}]
    BY <1>2 DEF TypeOK
  <2> QED BY <1>2, <2>1, EnterTypes DEF TableTypes
<1>3. ASSUME NEW i \in Slot, Enter(i, f, a, k), used' = used \cup {i},
             home' = [home EXCEPT ![next_id] = s]
      PROVE  TableTypes'
  <2>1. used' \subseteq Slot /\ home' \in [Id -> Sock \cup {NoSock}]
    BY <1>3 DEF TypeOK
  <2> QED BY <1>3, <2>1, EnterTypes DEF TableTypes
<1> QED BY <1>1, <1>2, <1>3 DEF AddFails

LEMMA VanishTypes ==
  ASSUME TypeOK, NEW how \in {"exited", "killed"}, Vanish(how)
  PROVE  TypeOK'
<1>1. NetTypeOK'
  BY Sets DEF TypeOK, NetTypeOK, Vanish
<1>2. TableTypes'
  BY Sets DEF TypeOK, TableTypes, Vanish
<1>3. /\ rpc' \in [Id -> {"none", "top", "call", "in", "err", "done"}]
      /\ rslot' \in [Id -> Slot]
      /\ rfd' \in [Id -> Fd]
      /\ rsock' \in [Id -> Sock \cup {NoSock, NotTcp}]
  BY Sets DEF TypeOK, Vanish
<1> QED BY <1>1, <1>2, <1>3, Sets DEF TypeOK, TableTypes, Vanish

LEMMA RecvTypes ==
  ASSUME TypeOK, NEW t \in Id, RecvThread(t)
  PROVE  TypeOK'
<1>1. CASE RecvTop(t)
  <2>1. rslot' \in [Id -> Slot] /\ rfd' \in [Id -> Fd]
    BY <1>1, Sets DEF TypeOK, RecvTop, ThreadEnds
  <2>2. rpc' \in [Id -> {"none", "top", "call", "in", "err", "done"}]
    BY <1>1 DEF TypeOK, RecvTop, ThreadEnds
  <2> QED BY <1>1, <2>1, <2>2 DEF TypeOK, NetTypeOK, RecvTop, netVars,
             tblVars, mainVars, accVars, runVars
<1>2. CASE RecvCall(t)
  BY <1>2, Sets DEF TypeOK, NetTypeOK, RecvCall, netVars, tblVars,
              mainVars, accVars, runVars
<1>3. CASE RecvData(t)
  BY <1>3, Sets DEF TypeOK, NetTypeOK, RecvData, AfterData, Drain, netVars, tblVars,
              mainVars, accVars, runVars
<1>4. CASE RecvEnd(t)
  BY <1>4, Sets DEF TypeOK, NetTypeOK, RecvEnd, AfterEnd, netVars, tblVars,
              mainVars, accVars, runVars
<1>5. CASE RecvDrop(t)
  <2>1. rslot' \in [Id -> Slot]
    BY <1>5, Sets DEF TypeOK, RecvDrop, Occupied, Release, ThreadEnds
  <2>2. rpc' \in [Id -> {"none", "top", "call", "in", "err", "done"}]
    BY <1>5 DEF TypeOK, RecvDrop, Occupied, Release, ThreadEnds
  <2>3. fdtab' \in [Fd -> Sock \cup {NoSock, NotTcp}]
    BY <1>5 DEF TypeOK, NetTypeOK, RecvDrop, Occupied, Release, Close
  <2>4. TableTypes'
    BY <1>5 DEF TypeOK, TableTypes, RecvDrop, Occupied, Release, Free, tblVars
  <2> QED BY <1>5, <2>1, <2>2, <2>3, <2>4
          DEF TypeOK, NetTypeOK, TableTypes, RecvDrop, Occupied, Release, mainVars, accVars, runVars
<1> QED BY <1>1, <1>2, <1>3, <1>4, <1>5 DEF RecvThread

LEMMA AcceptTypes ==
  ASSUME TypeOK, HeldNamed, AcceptThread
  PROVE  TypeOK'
<1>1. CASE AccReturn
  BY <1>1 DEF TypeOK, NetTypeOK, AccReturn, Accepted, LowestFree, Bind,
              tblVars, recvVars, mainVars, runVars
<1>2. CASE AccError
  BY <1>2 DEF TypeOK, NetTypeOK, AccError, netVars, tblVars, recvVars,
              mainVars, runVars
<1>3. CASE AccAdd
  <2>1. afd \in Fd /\ asock \in Sock
    BY <1>3 DEF TypeOK, AccAdd, HeldNamed, AccHolds
  <2>2. ASSUME NEW a \in Caller, NEW i \in Slot, AddOk(i, afd, asock, a, 0),
               aslot' = i, afd' = 0, apc' = "report"
        PROVE  TypeOK'
    BY <1>3, <2>1, <2>2, AddOkTypes, Sets
    DEF TypeOK, NetTypeOK, TableTypes, AccAdd, netVars, mainVars, runVars
  <2>3. ASSUME NEW a \in Caller, AddFails(afd, asock, a, 0), apc' = "drop",
               UNCHANGED <<afd, aslot, recvVars>>
        PROVE  TypeOK'
    BY <1>3, <2>1, <2>3, AddFailsTypes, Sets
    DEF TypeOK, NetTypeOK, TableTypes, AccAdd, netVars, recvVars, mainVars,
        runVars
  <2> QED BY <1>3, <2>2, <2>3 DEF AccAdd
<1>4. CASE AccReport
  BY <1>4, Sets DEF TypeOK, NetTypeOK, AccReport, AccAgain, netVars, tblVars,
              recvVars, mainVars, runVars
<1>5. CASE AccDrop
  BY <1>5, Sets DEF TypeOK, NetTypeOK, AccDrop, CloseNew, AccAgain, Close, tblVars,
              recvVars, mainVars, runVars
<1> QED BY <1>1, <1>2, <1>3, <1>4, <1>5 DEF AcceptThread

LEMMA CommandTypes ==
  ASSUME TypeOK, Command
  PROVE  TypeOK'
<1>1. ASSUME NEW id \in Id, CmdTerminate(id)
      PROVE  TypeOK'
  BY <1>1, Sets DEF TypeOK, NetTypeOK, CmdTerminate, Close, Free, MainUnchanged,
     mainVars, recvVars, accVars, runVars
<1>2. ASSUME NEW id \in Id, CmdSend(id)
      PROVE  TypeOK'
  <2>1. CASE Vanish("killed")
    BY <2>1, VanishTypes
  <2>2. ASSUME NEW s \in Sock, Transmit(s), UNCHANGED <<tblVars, mainVars>>,
               MainUnchanged
        PROVE  TypeOK'
    BY <2>2 DEF TypeOK, NetTypeOK, Transmit, MainUnchanged, tblVars,
       mainVars, recvVars, accVars, runVars
  <2>3. ASSUME NEW s \in Sock, SendBlocks(s)
        PROVE  TypeOK'
    BY <2>3 DEF TypeOK, NetTypeOK, SendBlocks, MainUnchanged, netVars, tblVars,
       recvVars, accVars, runVars
  <2> QED BY <1>2, <2>1, <2>2, <2>3 DEF CmdSend
<1>3. ASSUME NEW d \in Dest \cup {NoDest}, Probe(d)
      PROVE  TypeOK'
  BY <1>3 DEF TypeOK, NetTypeOK, Probe, Bind, MainUnchanged, tblVars, mainVars,
     recvVars, accVars, runVars
<1>4. CASE CmdConnectNoProbe
  BY <1>4 DEF TypeOK, NetTypeOK, CmdConnectNoProbe, MainUnchanged, netVars,
     tblVars, mainVars, recvVars, accVars, runVars
<1>5. CASE CmdExit
  BY <1>5 DEF TypeOK, NetTypeOK, CmdExit, netVars, tblVars, recvVars, accVars
<1> QED BY <1>1, <1>2, <1>3, <1>4, <1>5 DEF Command, CmdMyIp, CmdConnect

\* A new descriptor for a new or an accepted endpoint.
LEMMA NewSocketTypes ==
  ASSUME NetTypeOK, NEW f \in Fd, NEW s \in Sock, NewSocket(f, s)
  PROVE  NetTypeOK'
<1>1. fdtab' \in [Fd -> Sock \cup {NoSock, NotTcp}]
  BY DEF NetTypeOK, NewSocket, Bind
<1>2. nsock' \in 0 .. MaxSock
  BY DEF NewSocket, Sock
<1>3. st' \in [Sock -> {"none", "queued", "fresh", "est", "failed"}]
  BY DEF NetTypeOK, NewSocket
<1> QED BY <1>1, <1>2, <1>3 DEF NetTypeOK, NewSocket

LEMMA MainTypes ==
  ASSUME TypeOK, HeldNamed, MainStep
  PROVE  TypeOK'
<1> USE Sets DEF MainUnchanged, tblVars, mainVars, recvVars, accVars, runVars,
                 Prompt
<1>1. CASE SelfCheck
  BY <1>1 DEF TypeOK, NetTypeOK, SelfCheck, Close
<1>2. CASE DupCheck
  <2>1. mseen' \in Seen
    BY <1>2 DEF TypeOK, DupCheck, Seen
  <2> QED BY <1>2, <2>1 DEF TypeOK, NetTypeOK, DupCheck, netVars
<1>3. CASE MainSocket
  <2>1. NetTypeOK'
    BY <1>3, NewSocketTypes DEF TypeOK, MainSocket
  <2> QED BY <1>3, <2>1 DEF TypeOK, MainSocket
<1>4. CASE MainNoSocket
  BY <1>4 DEF TypeOK, NetTypeOK, MainNoSocket, netVars
<1>5. CASE MainConnect
  <2>1. ASSUME Connected(msock), mpc' = "add", UNCHANGED <<mfd, msock, mdest, mseen, tblVars>>,
               MainUnchanged
        PROVE  TypeOK'
    BY <2>1 DEF TypeOK, NetTypeOK, Connected
  <2>2. ASSUME Refused(msock, mfd), Prompt, UNCHANGED tblVars, MainUnchanged
        PROVE  TypeOK'
    BY <2>2 DEF TypeOK, NetTypeOK, Refused, Close
  <2> QED BY <1>5, <2>1, <2>2 DEF MainConnect
<1>6. CASE MainAdd
  <2>1. mfd \in Fd /\ msock \in Sock /\ mdest \in Address /\ mseen \in Seen
    BY <1>6 DEF TypeOK, MainAdd, HeldNamed, MainHolds, MainNames
  <2>2. ASSUME NEW i \in Slot, AddOk(i, mfd, msock, mdest, mseen), Prompt
        PROVE  TypeOK'
    BY <1>6, <2>1, <2>2, AddOkTypes
    DEF TypeOK, NetTypeOK, TableTypes, MainAdd, netVars
  <2>3. CASE /\ AddFails(mfd, msock, mdest, mseen)
             /\ mpc' = "drop"
             /\ UNCHANGED <<mfd, msock, mdest, mseen, recvVars>>
    BY <1>6, <2>1, <2>3, AddFailsTypes
    DEF TypeOK, NetTypeOK, TableTypes, MainAdd, netVars
  <2> QED BY <1>6, <2>2, <2>3 DEF MainAdd
<1>7. CASE MainDrop
  BY <1>7 DEF TypeOK, NetTypeOK, MainDrop, Close
<1>8. CASE CloseListener
  BY <1>8 DEF TypeOK, NetTypeOK, CloseListener, netVars
<1>9. CASE CloseConnections
  BY <1>9 DEF TypeOK, NetTypeOK, CloseConnections, ToClose, CloseAll
<1>10. CASE Exit
  BY <1>10, VanishTypes DEF Exit
<1>11. CASE SendFails
  <2>1. CASE Vanish("killed")
    BY <2>1, VanishTypes
  <2>2. CASE Transmit(msock) /\ Prompt /\ UNCHANGED tblVars /\ MainUnchanged
    BY <2>2 DEF TypeOK, NetTypeOK, Transmit
  <2> QED BY <1>11, <2>1, <2>2 DEF SendFails
<1> QED
  BY <1>1, <1>2, <1>3, <1>4, <1>5, <1>6, <1>7, <1>8, <1>9, <1>10, <1>11 DEF MainStep

LEMMA PeerTypes ==
  ASSUME TypeOK, Peer
  PROVE  TypeOK'
<1> USE DEF MainUnchanged, tblVars, mainVars, recvVars, accVars, runVars
<1>1. CASE PeerConnect
  BY <1>1, Sets DEF TypeOK, NetTypeOK, Peer, PeerConnect, Sock
<1>2. ASSUME NEW s \in Sock, PeerSend(s)
      PROVE  TypeOK'
  BY <1>2 DEF TypeOK, NetTypeOK, Peer, PeerSend
<1>3. ASSUME NEW s \in Sock, PeerClose(s)
      PROVE  TypeOK'
  BY <1>3 DEF TypeOK, NetTypeOK, Peer, PeerClose
<1> QED BY <1>1, <1>2, <1>3 DEF Peer

LEMMA PeerReadsTypes ==
  ASSUME TypeOK, PeerReads
  PROVE  TypeOK'
  BY Sets DEF TypeOK, NetTypeOK, PeerReads, Prompt, MainUnchanged, netVars,
     tblVars, recvVars, accVars, runVars

LEMMA NextTypes ==
  ASSUME TypeOK, HeldNamed, [Next]_vars
  PROVE  TypeOK'
<1>1. CASE UNCHANGED vars
  BY <1>1 DEF TypeOK, NetTypeOK, vars, netVars, tblVars, recvVars, mainVars,
              accVars, runVars
<1> QED BY <1>1, CommandTypes, MainTypes, AcceptTypes, RecvTypes, PeerTypes,
           PeerReadsTypes
        DEF Next, Terminated

-----------------------------------------------------------------------------
(* What add_connection does to the table.                                  *)

\* The part of the invariant that speaks of the table.
TableInv ==
  /\ IdsGiven
  /\ TableMatchesDescriptors
  /\ ServedByOwnThread
  /\ \A i \in used : st[Connection(i)] = "est"

\* A connection whose descriptor is not yet in the table is entered.
LEMMA AddOkKeeps ==
  ASSUME TypeOK, TableInv, NEW i \in Slot, NEW f \in Fd, NEW s \in Sock, NEW a, NEW k,
         fdtab[f] = s, st[s] = "est", \A j \in used : cfd[j] # f,
         AddOk(i, f, s, a, k), UNCHANGED <<fdtab, st, eof>>
  PROVE  TableInv'
<1> USE Sets DEF TableInv, TypeOK, NetTypeOK, AddOk, Enter, NewId, FirstFree
<1>1. i \notin used /\ next_id \in Id
  OBVIOUS
<1>2. /\ cid'[i] = next_id /\ cfd'[i] = f /\ home'[next_id] = s
      /\ rpc'[next_id] = "top" /\ rslot'[next_id] = i
  OBVIOUS
<1>3. \A j \in used : j # i /\ cid'[j] = cid[j] /\ cfd'[j] = cfd[j]
  OBVIOUS
<1>4. \A j \in used : cid[j] \in Id /\ cid[j] < next_id /\ cid[j] # next_id
  BY DEF IdsGiven
<1>5. \A t \in Id : t # next_id => /\ home'[t] = home[t] /\ rpc'[t] = rpc[t]
                                   /\ rslot'[t] = rslot[t]
  OBVIOUS
<1>6. IdsGiven'
  <2>1. next_id \in Nat /\ next_id' = next_id + 1 /\ Id \subseteq Nat
    OBVIOUS
  <2>2. ASSUME NEW t \in Id, t >= next_id'
        PROVE  rpc'[t] = "none" /\ home'[t] = NoSock
    BY <1>5, <2>1, <2>2 DEF IdsGiven
  <2>3. ASSUME NEW j \in used'
        PROVE  cid'[j] \in Id /\ cid'[j] < next_id'
    <3>1. CASE j = i
      BY <3>1, <1>1, <1>2, <2>1
    <3>2. CASE j \in used
      <4>1. cid[j] \in Nat /\ cid[j] < next_id /\ cid'[j] = cid[j]
        BY <3>2, <1>3, <1>4, <2>1
      <4> QED BY <3>2, <4>1, <1>4, <2>1
    <3> QED BY <3>1, <3>2
  <2> QED BY <2>2, <2>3 DEF IdsGiven
<1>7. TableMatchesDescriptors'
  BY <1>1, <1>2, <1>3, <1>4, <1>5 DEF TableMatchesDescriptors, Connection
<1>8. ServedByOwnThread'
  BY <1>1, <1>2, <1>3, <1>4, <1>5 DEF ServedByOwnThread, Connection
<1>9. (\A j \in used : st[Connection(j)] = "est")'
  BY <1>1, <1>2, <1>3, <1>4, <1>5 DEF Connection
<1> QED BY <1>6, <1>7, <1>8, <1>9

\* A connection could not be entered; the table is as it was.
LEMMA AddFailsKeeps ==
  ASSUME TypeOK, TableInv, ~MallocMayFail, NEW f, NEW s, NEW a, NEW k,
         AddFails(f, s, a, k), UNCHANGED <<fdtab, st, eof, recvVars>>
  PROVE  TableInv' /\ UNCHANGED <<used, home>>
         /\ \A j \in used : cfd'[j] = cfd[j]
<1> USE Sets DEF TableInv, TypeOK, NetTypeOK, recvVars
<1>1. /\ UNCHANGED <<used, home>>
      /\ \A j \in used : cid'[j] = cid[j] /\ cfd'[j] = cfd[j]
      /\ next_id' \in {next_id, next_id + 1}
  BY DEF AddFails, Enter, NewId, FirstFree, tblVars
<1>2. IdsGiven'
  BY <1>1 DEF IdsGiven, Id, Sock
<1>3. TableMatchesDescriptors'
  BY <1>1 DEF TableMatchesDescriptors, Connection
<1>4. ServedByOwnThread'
  BY <1>1 DEF ServedByOwnThread, Connection
<1>5. (\A j \in used : st[Connection(j)] = "est")'
  BY <1>1 DEF Connection
<1> QED BY <1>1, <1>2, <1>3, <1>4, <1>5

-----------------------------------------------------------------------------
(* Every step keeps the rest of the inductive invariant.                   *)

\* The part of the invariant that speaks of descriptors and endpoints.
HandsInv ==
  /\ DescriptorsOwned
  /\ HeldNamed
  /\ OneDescriptorEach
  /\ \A s \in Sock : s > nsock => st[s] = "none"
  /\ mpc = "connect" => st[msock] = "fresh"
  /\ mpc \in {"add", "drop"} => st[msock] = "est"
  /\ AccHolds => st[asock] = "est"

\* ServedByOwnThread, of one entry.
ServedAt(i) ==
  /\ rslot[cid[i]] = i
  /\ \/ rpc[cid[i]] = "top"
     \/ rpc[cid[i]] = "call" /\ rfd[cid[i]] = cfd[i]
     \/ rpc[cid[i]] = "in" /\ rsock[cid[i]] = Connection(i)
     \/ rpc[cid[i]] = "err" /\ Connection(i) \in eof

LEMMA Parts == IInv <=> TypeOK /\ TableInv /\ HandsInv
  BY DEF IInv, TableInv, HandsInv, EndpointStates

LEMMA RecvKeeps ==
  ASSUME TypeOK, TableInv, HandsInv, NEW t \in Id, RecvThread(t)
  PROVE  TableInv' /\ HandsInv'
<1> USE Sets DEF TypeOK, NetTypeOK, netVars, tblVars, mainVars, accVars, runVars,
                 TableInv
<1>1. CASE RecvTop(t)
  <2>1. IdsGiven'
    BY <1>1 DEF RecvTop, ThreadEnds, IdsGiven
  <2>2. ServedByOwnThread'
    <3>1. ASSUME NEW i \in used
          PROVE  ServedAt(i)'
      <4>1. ServedAt(i) /\ cid[i] \in Id /\ Connection(i)' = Connection(i)
        BY <1>1 DEF RecvTop, ServedByOwnThread, ServedAt, IdsGiven, Connection
      <4>2. CASE cid[i] = t
        BY <1>1, <4>1, <4>2 DEF RecvTop, ServedAt
      <4>3. CASE cid[i] # t
        <5>1. /\ rpc'[cid[i]] = rpc[cid[i]] /\ rslot'[cid[i]] = rslot[cid[i]]
              /\ rfd'[cid[i]] = rfd[cid[i]] /\ rsock'[cid[i]] = rsock[cid[i]]
          BY <1>1, <4>1, <4>3 DEF RecvTop, ThreadEnds
        <5>2. UNCHANGED <<eof, cid, cfd>>
          BY <1>1 DEF RecvTop
        <5> QED BY <4>1, <5>1, <5>2 DEF ServedAt
      <4> QED BY <4>2, <4>3
    <3> QED BY <1>1, <3>1 DEF RecvTop, ServedByOwnThread, ServedAt
  <2>3. UNCHANGED <<netVars, tblVars, mainVars, accVars>>
    BY <1>1 DEF RecvTop
  <2>4. TableMatchesDescriptors' /\ \A i \in used' : st'[Connection(i)'] = "est"
    BY <2>3 DEF TableMatchesDescriptors, Connection
  <2>5. HandsInv'
    BY <2>3 DEF HandsInv, DescriptorsOwned, HeldNamed, OneDescriptorEach, MainHolds,
                MainNames, AccHolds
  <2> QED BY <2>1, <2>2, <2>4, <2>5
<1>2. CASE RecvCall(t)
  <2>1. IdsGiven'
    BY <1>2 DEF RecvCall, IdsGiven
  <2>2. ServedByOwnThread'
    <3>1. ASSUME NEW i \in used
          PROVE  ServedAt(i)'
      <4>1. ServedAt(i) /\ cid[i] \in Id /\ Connection(i)' = Connection(i)
        BY <1>2 DEF RecvCall, ServedByOwnThread, ServedAt, IdsGiven, Connection
      <4>2. CASE cid[i] = t
        <5>1. rfd[t] = cfd[i] /\ fdtab[cfd[i]] = Connection(i)
              /\ Connection(i) # NoSock /\ st[Connection(i)] = "est"
          BY <1>2, <4>1, <4>2 DEF RecvCall, ServedAt, TableMatchesDescriptors
        <5> QED BY <1>2, <4>1, <4>2, <5>1 DEF RecvCall, ServedAt
      <4>3. CASE cid[i] # t
        <5>1. /\ rpc'[cid[i]] = rpc[cid[i]] /\ rslot'[cid[i]] = rslot[cid[i]]
              /\ rfd'[cid[i]] = rfd[cid[i]] /\ rsock'[cid[i]] = rsock[cid[i]]
          BY <1>2, <4>1, <4>3 DEF RecvCall
        <5>2. UNCHANGED <<eof, cid, cfd>>
          BY <1>2 DEF RecvCall
        <5> QED BY <4>1, <5>1, <5>2 DEF ServedAt
      <4> QED BY <4>2, <4>3
    <3> QED BY <1>2, <3>1 DEF RecvCall, ServedByOwnThread, ServedAt
  <2>3. UNCHANGED <<netVars, tblVars, mainVars, accVars>>
    BY <1>2 DEF RecvCall
  <2>4. TableMatchesDescriptors' /\ \A i \in used' : st'[Connection(i)'] = "est"
    BY <2>3 DEF TableMatchesDescriptors, Connection
  <2>5. HandsInv'
    BY <2>3 DEF HandsInv, DescriptorsOwned, HeldNamed, OneDescriptorEach, MainHolds,
                MainNames, AccHolds
  <2> QED BY <2>1, <2>2, <2>4, <2>5
<1>3. CASE RecvData(t)
  <2>1. IdsGiven'
    BY <1>3 DEF RecvData, AfterData, Drain, IdsGiven
  <2>2. ServedByOwnThread'
    BY <1>3 DEF RecvData, AfterData, Drain, ServedByOwnThread, IdsGiven, Connection
  <2> QED BY <1>3, <2>1, <2>2
          DEF RecvData, AfterData, Drain, TableMatchesDescriptors, Connection, HandsInv,
              DescriptorsOwned, HeldNamed, OneDescriptorEach, MainHolds,
              MainNames, AccHolds
<1>4. CASE RecvEnd(t)
  <2>1. IdsGiven'
    BY <1>4 DEF RecvEnd, AfterEnd, IdsGiven
  <2>2. ServedByOwnThread'
    BY <1>4 DEF RecvEnd, AfterEnd, Readable, ServedByOwnThread, IdsGiven, Connection
  <2> QED BY <1>4, <2>1, <2>2
          DEF RecvEnd, AfterEnd, TableMatchesDescriptors, Connection, HandsInv,
              DescriptorsOwned, HeldNamed, OneDescriptorEach, MainHolds,
              MainNames, AccHolds
<1>5. CASE RecvDrop(t)
  <2> DEFINE i == rslot[t]
  <2>1. IdsGiven'
    BY <1>5 DEF RecvDrop, Occupied, Release, ThreadEnds, Free, IdsGiven
  <2>2. \A j \in used' : j \in used /\ j # i
    BY <1>5 DEF RecvDrop, Occupied, Release, Free
  <2>3. \A j \in used' : fdtab'[cfd[j]] = fdtab[cfd[j]]
    BY <1>5, <2>2 DEF RecvDrop, Occupied, Release, Close, TableMatchesDescriptors
  <2>4. TableMatchesDescriptors'
    BY <1>5, <2>2, <2>3 DEF RecvDrop, Occupied, Release, Free, TableMatchesDescriptors, Connection
  <2>5. ServedByOwnThread'
    BY <1>5, <2>2 DEF RecvDrop, Occupied, Release, ThreadEnds, Free, ServedByOwnThread, IdsGiven, Connection
  <2>6. (\A j \in used : st[Connection(j)] = "est")'
    BY <1>5, <2>2 DEF RecvDrop, Occupied, Release, Free, Connection
  <2>7. DescriptorsOwned'
    BY <1>5 DEF RecvDrop, Occupied, Release, Close, Free, HandsInv, DescriptorsOwned, MainHolds, AccHolds
  <2>8. HeldNamed'
    BY <1>5 DEF RecvDrop, Occupied, Release, Close, Free, HandsInv, DescriptorsOwned, HeldNamed,
                MainHolds, MainNames, AccHolds
  <2>9. OneDescriptorEach'
    BY <1>5 DEF RecvDrop, Occupied, Release, Close, HandsInv, OneDescriptorEach
  <2> QED BY <1>5, <2>1, <2>4, <2>5, <2>6, <2>7, <2>8, <2>9
          DEF RecvDrop, Occupied, Release, HandsInv, AccHolds
<1> QED BY <1>1, <1>2, <1>3, <1>4, <1>5 DEF RecvThread

\* Steps that touch neither the table nor the threads keep TableInv, as long
\* as the descriptors in the table and their endpoints stay what they are.
LEMMA TableKept ==
  ASSUME TypeOK, TableInv, UNCHANGED tblVars, UNCHANGED recvVars,
         \A i \in used : fdtab'[cfd[i]] = fdtab[cfd[i]],
         \A i \in used : st[Connection(i)] = "est" => st'[Connection(i)] = "est",
         eof \subseteq eof'
  PROVE  TableInv'
<1> USE DEF TableInv, tblVars, recvVars
<1>1. IdsGiven'
  BY DEF IdsGiven
<1>2. TableMatchesDescriptors'
  BY DEF TableMatchesDescriptors, Connection
<1>3. ServedByOwnThread'
  BY DEF ServedByOwnThread, Connection
<1>4. (\A i \in used : st[Connection(i)] = "est")'
  BY DEF Connection
<1> QED BY <1>1, <1>2, <1>3, <1>4

LEMMA AcceptKeeps ==
  ASSUME TypeOK, TableInv, HandsInv, ~MallocMayFail, AcceptThread
  PROVE  TableInv' /\ HandsInv'
<1> USE Sets DEF TypeOK, NetTypeOK, MainHolds, AccHolds, MainNames
<1>1. CASE AccReturn
  <2>1. PICK f \in Fd, s \in Sock : Accepted(f, s) /\ afd' = f /\ asock' = s
    BY <1>1 DEF AccReturn
  <2>2. /\ fdtab' = [fdtab EXCEPT ![f] = s] /\ st' = [st EXCEPT ![s] = "est"]
        /\ fdtab[f] = NoSock /\ st[s] = "queued"
        /\ UNCHANGED <<nsock, eof, tblVars, recvVars, mainVars>>
        /\ apc = "accept" /\ apc' = "add"
    BY <1>1, <2>1 DEF AccReturn, Accepted, Bind, LowestFree
  <2>3. \A i \in used : cfd[i] # f
    BY <2>2 DEF TableInv, TableMatchesDescriptors
  <2>4. TableInv'
    BY <2>2, <2>3, TableKept
  <2>5. DescriptorsOwned'
    BY <2>1, <2>2, <2>3 DEF HandsInv, DescriptorsOwned, HeldNamed, tblVars, mainVars
  <2>6. HeldNamed'
    BY <2>1, <2>2 DEF HandsInv, HeldNamed, mainVars
  <2>7. OneDescriptorEach'
    BY <2>2 DEF HandsInv, OneDescriptorEach
  <2> QED BY <2>1, <2>2, <2>4, <2>5, <2>6, <2>7 DEF HandsInv, mainVars
<1>2. CASE AccError
  <2>1. TableInv'
    BY <1>2, TableKept DEF AccError, netVars
  <2> QED BY <1>2, <2>1 DEF AccError, HandsInv, DescriptorsOwned, HeldNamed,
             OneDescriptorEach, netVars, tblVars, mainVars
<1>3. CASE AccAdd
  <2>1. /\ fdtab[afd] = asock /\ asock \in Sock /\ st[asock] = "est"
        /\ \A i \in used : cfd[i] # afd
        /\ apc = "add" /\ UNCHANGED <<netVars, mainVars, asock>>
    BY <1>3 DEF AccAdd, HandsInv, HeldNamed, DescriptorsOwned
  <2>2. ASSUME NEW a, NEW i \in Slot, AddOk(i, afd, asock, a, 0), afd' = 0,
               apc' = "report"
        PROVE  TableInv' /\ HandsInv'
    <3>1. TableInv'
      BY <2>1, <2>2, AddOkKeeps DEF netVars
    <3>2. /\ used' = used \cup {i} /\ cfd'[i] = afd /\ i \notin used
          /\ \A j \in used : cfd'[j] = cfd[j]
      BY <2>2 DEF AddOk, Enter, NewId, FirstFree
    <3>3. DescriptorsOwned'
      BY <2>1, <2>2, <3>2 DEF HandsInv, DescriptorsOwned, netVars, mainVars
    <3> QED BY <2>1, <2>2, <3>1, <3>3
            DEF HandsInv, HeldNamed, OneDescriptorEach, netVars, mainVars
  <2>3. ASSUME NEW a, AddFails(afd, asock, a, 0), apc' = "drop",
               UNCHANGED <<afd, aslot, recvVars>>
        PROVE  TableInv' /\ HandsInv'
    <3>1. /\ TableInv' /\ UNCHANGED used
          /\ \A j \in used : cfd'[j] = cfd[j]
      BY <2>1, <2>3, AddFailsKeeps DEF netVars
    <3>2. DescriptorsOwned'
      BY <2>1, <2>3, <3>1 DEF HandsInv, DescriptorsOwned, netVars, mainVars
    <3> QED BY <2>1, <2>3, <3>1, <3>2
            DEF HandsInv, HeldNamed, OneDescriptorEach, netVars, mainVars
  <2> QED BY <1>3, <2>2, <2>3 DEF AccAdd
<1>4. CASE AccReport
  <2>1. TableInv'
    BY <1>4, TableKept DEF AccReport, netVars
  <2> QED BY <1>4, <2>1 DEF AccReport, AccAgain, HandsInv, DescriptorsOwned,
             HeldNamed, OneDescriptorEach, netVars, tblVars, mainVars
<1>5. CASE AccDrop
  <2>1. /\ fdtab' = [fdtab EXCEPT ![afd] = NoSock]
        /\ UNCHANGED <<nsock, st, eof, tblVars, recvVars, mainVars>>
        /\ apc = "drop" /\ apc' \in {"accept", "done"}
        /\ \A i \in used : cfd[i] # afd
    BY <1>5 DEF AccDrop, CloseNew, AccAgain, Close, HandsInv, DescriptorsOwned
  <2>2. TableInv'
    BY <2>1, TableKept
  <2>3. DescriptorsOwned'
    BY <2>1 DEF HandsInv, DescriptorsOwned, tblVars, mainVars
  <2>4. HeldNamed'
    BY <2>1 DEF HandsInv, DescriptorsOwned, HeldNamed, mainVars
  <2>5. OneDescriptorEach'
    BY <2>1 DEF HandsInv, OneDescriptorEach
  <2> QED BY <2>1, <2>2, <2>3, <2>4, <2>5 DEF HandsInv, mainVars
<1> QED BY <1>1, <1>2, <1>3, <1>4, <1>5 DEF AcceptThread

LEMMA VanishKeeps ==
  ASSUME TypeOK, TableInv, HandsInv, NEW how, Vanish(how)
  PROVE  TableInv' /\ HandsInv'
<1>1. IdsGiven'
  BY DEF TableInv, IdsGiven, Vanish
<1> QED
  BY <1>1, Sets
  DEF TableInv, HandsInv, Vanish, TableMatchesDescriptors, ServedByOwnThread,
      DescriptorsOwned, HeldNamed, OneDescriptorEach, MainHolds, AccHolds

\* Removing an entry and closing its descriptor, as cmd_terminate does.
LEMMA RemoveKeeps ==
  ASSUME TypeOK, TableInv, HandsInv, NEW i \in used, Close(cfd[i]), Free(i),
         UNCHANGED <<nsock, st, eof, recvVars, mainVars, accVars>>
  PROVE  TableInv' /\ HandsInv'
<1> USE Sets DEF TypeOK, NetTypeOK, TableInv, HandsInv, Free, Close, recvVars,
                 mainVars, accVars, MainHolds, MainNames, AccHolds
<1>1. \A j \in used' : /\ j \in used /\ j # i
                       /\ fdtab'[cfd[j]] = fdtab[cfd[j]]
  BY DEF TableMatchesDescriptors
<1>2. IdsGiven'
  BY <1>1 DEF IdsGiven
<1>3. TableMatchesDescriptors'
  BY <1>1 DEF TableMatchesDescriptors, Connection
<1>4. ServedByOwnThread'
  BY <1>1 DEF ServedByOwnThread, Connection
<1>5. (\A j \in used : st[Connection(j)] = "est")'
  BY <1>1 DEF Connection
<1>6. DescriptorsOwned'
  BY <1>1 DEF DescriptorsOwned
<1>7. HeldNamed'
  BY DEF DescriptorsOwned, HeldNamed
<1>8. OneDescriptorEach'
  BY DEF OneDescriptorEach
<1> QED BY <1>2, <1>3, <1>4, <1>5, <1>6, <1>7, <1>8

LEMMA CommandKeeps ==
  ASSUME TypeOK, TableInv, HandsInv, Command
  PROVE  TableInv' /\ HandsInv'
<1> USE Sets DEF TypeOK, NetTypeOK, MainHolds, AccHolds, MainNames, MainUnchanged
<1>1. ASSUME NEW id \in Id, CmdTerminate(id)
      PROVE  TableInv' /\ HandsInv'
  <2>1. PICK i \in used : Close(cfd[i]) /\ Free(i)
    BY <1>1 DEF CmdTerminate, HasId
  <2> QED BY <1>1, <2>1, RemoveKeeps DEF CmdTerminate
<1>2. ASSUME NEW id \in Id, CmdSend(id)
      PROVE  TableInv' /\ HandsInv'
  <2>1. CASE Vanish("killed")
    BY <2>1, VanishKeeps
  <2>2. ASSUME NEW s \in Sock, Transmit(s), UNCHANGED <<tblVars, mainVars>>,
               MainUnchanged
        PROVE  TableInv' /\ HandsInv'
    <3>1. TableInv'
      BY <2>2, TableKept DEF Transmit
    <3> QED BY <2>2, <3>1 DEF Transmit, HandsInv, DescriptorsOwned, HeldNamed,
               OneDescriptorEach, tblVars, mainVars, accVars
  <2>3. ASSUME NEW s \in Sock, SendBlocks(s)
        PROVE  TableInv' /\ HandsInv'
    <3>1. TableInv'
      BY <2>3, TableKept DEF SendBlocks, netVars
    <3> QED BY <1>2, <2>3, <3>1 DEF CmdSend, SendBlocks, HandsInv, DescriptorsOwned,
               HeldNamed, OneDescriptorEach, netVars, tblVars, accVars
  <2> QED BY <1>2, <2>1, <2>2, <2>3 DEF CmdSend
<1>3. ASSUME NEW d \in Dest \cup {NoDest}, Probe(d)
      PROVE  TableInv' /\ HandsInv'
  <2>1. PICK f \in Fd : LowestFree(f) /\ Bind(f, NotTcp) /\ mfd' = f
    BY <1>3 DEF Probe
  <2>2. /\ fdtab' = [fdtab EXCEPT ![f] = NotTcp] /\ fdtab[f] = NoSock
        /\ UNCHANGED <<nsock, st, eof, msock, tblVars, recvVars, accVars>>
        /\ mpc = "prompt" /\ mpc' = "check"
    BY <1>3, <2>1 DEF Probe, LowestFree, Bind
  <2>3. \A i \in used : cfd[i] # f
    BY <2>2 DEF TableInv, TableMatchesDescriptors
  <2>4. TableInv'
    BY <2>2, <2>3, TableKept
  <2>5. DescriptorsOwned'
    BY <2>1, <2>2, <2>3 DEF HandsInv, DescriptorsOwned, HeldNamed, tblVars, accVars
  <2>6. HeldNamed'
    BY <2>1, <2>2 DEF HandsInv, HeldNamed, accVars
  <2>7. OneDescriptorEach'
    BY <2>2 DEF HandsInv, OneDescriptorEach
  <2> QED BY <2>1, <2>2, <2>4, <2>5, <2>6, <2>7 DEF HandsInv, accVars
<1>4. CASE CmdConnectNoProbe
  <2>1. TableInv'
    BY <1>4, TableKept DEF CmdConnectNoProbe, netVars
  <2> QED BY <1>4, <2>1 DEF CmdConnectNoProbe, HandsInv, DescriptorsOwned,
             HeldNamed, OneDescriptorEach, netVars, tblVars, accVars
<1>5. CASE CmdExit
  <2>1. TableInv'
    BY <1>5, TableKept DEF CmdExit, netVars
  <2> QED BY <1>5, <2>1 DEF CmdExit, HandsInv, DescriptorsOwned,
             HeldNamed, OneDescriptorEach, netVars, tblVars, accVars
<1> QED BY <1>1, <1>2, <1>3, <1>4, <1>5 DEF Command, CmdMyIp, CmdConnect

\* A step by which main closes the descriptor it holds and goes on without it.
LEMMA MainLetsGo ==
  ASSUME TypeOK, TableInv, HandsInv, MainHolds, ~MainHolds', Close(mfd),
         nsock' = nsock, eof' = eof,
         \A s \in Sock : s # msock \/ mpc # "connect" => st'[s] = st[s],
         st' \in [Sock -> {"none", "queued", "fresh", "est", "failed"}],
         UNCHANGED tblVars, UNCHANGED recvVars, UNCHANGED accVars
  PROVE  TableInv' /\ HandsInv'
<1> USE Sets DEF TypeOK, NetTypeOK, MainHolds, AccHolds, MainNames, Close, accVars
<1>1. \A i \in used : cfd[i] # mfd
  BY DEF HandsInv, DescriptorsOwned
<1>2. fdtab[mfd] = MainNames /\ (mpc = "connect" => st[msock] = "fresh" /\ msock \in Sock)
  BY DEF HandsInv, HeldNamed
<1>3. TableInv'
  <2>1. \A i \in used : fdtab'[cfd[i]] = fdtab[cfd[i]]
    BY <1>1
  <2>2. ASSUME NEW i \in used
        PROVE  Connection(i) \in Sock /\ st[Connection(i)] = "est"
    <3>1. cid[i] \in Id /\ Connection(i) # NoSock /\ st[Connection(i)] = "est"
      BY DEF TableInv, TableMatchesDescriptors, IdsGiven
    <3>2. home[cid[i]] \in Sock \cup {NoSock}
      BY <3>1
    <3> QED BY <3>1, <3>2 DEF Connection
  <2>3. \A i \in used : st'[Connection(i)] = "est"
    BY <1>2, <2>2
  <2> QED BY <2>1, <2>3, TableKept
<1>4. DescriptorsOwned'
  BY <1>1 DEF HandsInv, DescriptorsOwned, tblVars
<1>5. HeldNamed'
  BY DEF HandsInv, DescriptorsOwned, HeldNamed
<1>6. OneDescriptorEach'
  <2>1. ASSUME NEW f \in Fd, NEW g \in Fd, fdtab'[f] \in Sock
        PROVE  /\ st'[fdtab'[f]] \in {"fresh", "est"}
               /\ fdtab'[g] = fdtab'[f] => g = f
    <3>1. f # mfd /\ fdtab'[f] = fdtab[f]
      BY <2>1
    <3>2. mpc = "connect" => fdtab[f] # msock
      BY <2>1, <3>1, <1>2 DEF HandsInv, OneDescriptorEach
    <3>3. st'[fdtab[f]] = st[fdtab[f]]
      BY <2>1, <3>1, <3>2
    <3>4. /\ st[fdtab[f]] \in {"fresh", "est"}
          /\ fdtab[g] = fdtab[f] => g = f
      BY <2>1, <3>1 DEF HandsInv, OneDescriptorEach
    <3>5. fdtab'[g] = fdtab'[f] => fdtab[g] = fdtab[f]
      BY <2>1, <3>1
    <3> QED BY <3>1, <3>3, <3>4, <3>5
  <2> QED BY <2>1 DEF OneDescriptorEach
<1>7. (\A s \in Sock : s > nsock => st[s] = "none")'
  BY <1>2 DEF HandsInv
<1>8. (AccHolds => st[asock] = "est")'
  BY <1>2 DEF HandsInv, HeldNamed
<1> QED BY <1>3, <1>4, <1>5, <1>6, <1>7, <1>8 DEF HandsInv

LEMMA MainKeeps ==
  ASSUME TypeOK, TableInv, HandsInv, ~MallocMayFail, MainStep
  PROVE  TableInv' /\ HandsInv'
<1> USE Sets DEF TypeOK, NetTypeOK, MainHolds, AccHolds, MainNames,
                 MainUnchanged, Prompt
<1>1. CASE SelfCheck
  <2>1. /\ MainHolds /\ ~MainHolds' /\ Close(mfd)
        /\ UNCHANGED <<nsock, st, eof>>
        /\ UNCHANGED tblVars /\ UNCHANGED recvVars /\ UNCHANGED accVars
    BY <1>1 DEF SelfCheck
  <2> QED BY <2>1, MainLetsGo
<1>2. CASE DupCheck
  <2>1. TableInv'
    BY <1>2, TableKept DEF DupCheck, Duplicate, netVars
  <2>2. /\ ~MainHolds /\ ~MainHolds' /\ mpc' # "connect"
        /\ UNCHANGED <<netVars, tblVars, accVars>>
    BY <1>2 DEF DupCheck, Duplicate
  <2> QED BY <2>1, <2>2 DEF HandsInv, DescriptorsOwned, HeldNamed,
             OneDescriptorEach, netVars, tblVars, accVars
<1>3. CASE MainSocket
  <2>1. PICK f \in Fd, s \in Sock : NewSocket(f, s) /\ mfd' = f /\ msock' = s
    BY <1>3 DEF MainSocket
  <2>2. /\ fdtab' = [fdtab EXCEPT ![f] = s] /\ st' = [st EXCEPT ![s] = "fresh"]
        /\ fdtab[f] = NoSock /\ s = nsock + 1 /\ nsock' = s
        /\ UNCHANGED <<eof, tblVars, recvVars, accVars>>
        /\ mpc = "socket" /\ mpc' = "connect"
    BY <1>3, <2>1 DEF MainSocket, NewSocket, Bind, LowestFree
  <2>3. st[s] = "none"
    BY <2>2 DEF HandsInv
  <2>4. \A i \in used : cfd[i] # f
    BY <2>2 DEF TableInv, TableMatchesDescriptors
  <2>5. TableInv'
    BY <2>2, <2>3, <2>4, TableKept
  <2>6. DescriptorsOwned'
    BY <2>1, <2>2, <2>4 DEF HandsInv, DescriptorsOwned, HeldNamed, tblVars, accVars
  <2>7. HeldNamed'
    BY <2>1, <2>2 DEF HandsInv, HeldNamed, accVars
  <2>8. OneDescriptorEach'
    BY <2>2, <2>3 DEF HandsInv, OneDescriptorEach
  <2>9. (\A r \in Sock : r > nsock => st[r] = "none")'
    BY <2>2 DEF HandsInv
  <2> QED BY <2>1, <2>2, <2>3, <2>5, <2>6, <2>7, <2>8, <2>9 DEF HandsInv, accVars
<1>4. CASE MainNoSocket
  <2>1. TableInv'
    BY <1>4, TableKept DEF MainNoSocket, netVars
  <2> QED BY <1>4, <2>1 DEF MainNoSocket, HandsInv, DescriptorsOwned, HeldNamed,
             OneDescriptorEach, netVars, tblVars, accVars
<1>5. CASE MainConnect
  <2>1. CASE Refused(msock, mfd) /\ Prompt
    <3>1. /\ mpc = "connect" /\ mpc' = "prompt" /\ Close(mfd)
          /\ UNCHANGED <<nsock, eof>>
          /\ st' = [st EXCEPT ![msock] = "failed"]
          /\ UNCHANGED tblVars /\ UNCHANGED recvVars /\ UNCHANGED accVars
      BY <1>5, <2>1 DEF MainConnect, Refused
    <3> QED BY <3>1, MainLetsGo
  <2>2. CASE /\ Connected(msock) /\ mpc' = "add"
             /\ UNCHANGED <<mfd, msock, mdest>>
    <3>1. /\ st' = [st EXCEPT ![msock] = "est"] /\ mpc = "connect"
          /\ UNCHANGED <<fdtab, nsock, eof, tblVars, recvVars, accVars>>
          /\ st[msock] = "fresh" /\ msock \in Sock
      BY <1>5, <2>2 DEF MainConnect, Connected, HandsInv, HeldNamed
    <3>2. TableInv'
      BY <3>1, TableKept
    <3>3. DescriptorsOwned' /\ HeldNamed' /\ OneDescriptorEach'
      BY <2>2, <3>1 DEF HandsInv, DescriptorsOwned, HeldNamed,
                        OneDescriptorEach, tblVars, accVars
    <3>4. (\A s \in Sock : s > nsock => st[s] = "none")'
      BY <3>1 DEF HandsInv
    <3> QED BY <2>2, <3>1, <3>2, <3>3, <3>4 DEF HandsInv, accVars
  <2> QED BY <1>5, <2>1, <2>2 DEF MainConnect
<1>6. CASE MainAdd
  <2>1. /\ fdtab[mfd] = msock /\ msock \in Sock /\ st[msock] = "est"
        /\ \A i \in used : cfd[i] # mfd
        /\ mpc = "add" /\ UNCHANGED <<netVars, accVars>>
    BY <1>6 DEF MainAdd, HandsInv, HeldNamed, DescriptorsOwned
  <2>2. ASSUME NEW i \in Slot, AddOk(i, mfd, msock, mdest, mseen), Prompt
        PROVE  TableInv' /\ HandsInv'
    <3>1. TableInv'
      BY <2>1, <2>2, AddOkKeeps DEF netVars
    <3>2. /\ used' = used \cup {i} /\ cfd'[i] = mfd /\ i \notin used
          /\ \A j \in used : cfd'[j] = cfd[j]
      BY <2>2 DEF AddOk, Enter, NewId, FirstFree
    <3>3. DescriptorsOwned'
      BY <2>1, <2>2, <3>2 DEF HandsInv, DescriptorsOwned, netVars, accVars
    <3> QED BY <2>1, <2>2, <3>1, <3>3
            DEF HandsInv, HeldNamed, OneDescriptorEach, netVars, accVars
  <2>3. CASE /\ AddFails(mfd, msock, mdest, mseen)
             /\ mpc' = "drop"
             /\ UNCHANGED <<mfd, msock, mdest, mseen, recvVars>>
    <3>1. /\ TableInv' /\ UNCHANGED used
          /\ \A j \in used : cfd'[j] = cfd[j]
      BY <2>1, <2>3, AddFailsKeeps DEF netVars
    <3>2. DescriptorsOwned'
      BY <2>1, <2>3, <3>1 DEF HandsInv, DescriptorsOwned, netVars, accVars
    <3> QED BY <2>1, <2>3, <3>1, <3>2
            DEF HandsInv, HeldNamed, OneDescriptorEach, netVars, accVars
  <2> QED BY <1>6, <2>2, <2>3 DEF MainAdd
<1>7. CASE MainDrop
  <2>1. /\ MainHolds /\ ~MainHolds' /\ Close(mfd)
        /\ UNCHANGED <<nsock, st, eof>>
        /\ UNCHANGED tblVars /\ UNCHANGED recvVars /\ UNCHANGED accVars
    BY <1>7 DEF MainDrop
  <2> QED BY <2>1, MainLetsGo
<1>8. CASE CloseListener
  <2>1. TableInv'
    BY <1>8, TableKept DEF CloseListener, netVars
  <2> QED BY <1>8, <2>1 DEF CloseListener, HandsInv, DescriptorsOwned, HeldNamed,
             OneDescriptorEach, netVars, tblVars, accVars
<1>9. CASE CloseConnections
  <2>1. /\ used' = {} /\ mpc = "closeall" /\ mpc' = "goodbye"
        /\ UNCHANGED <<nsock, st, eof, next_id, home, recvVars, accVars>>
        /\ fdtab' = [f \in Fd |-> IF \E i \in used : cfd[i] = f
                                  THEN NoSock ELSE fdtab[f]]
    BY <1>9 DEF CloseConnections, ToClose, CloseAll
  <2>2. IdsGiven'
    BY <2>1 DEF TableInv, IdsGiven, recvVars
  <2>3. TableInv'
    BY <2>1, <2>2 DEF TableInv, TableMatchesDescriptors, ServedByOwnThread
  <2>4. DescriptorsOwned'
    BY <2>1 DEF HandsInv, DescriptorsOwned, accVars
  <2>5. HeldNamed'
    BY <2>1 DEF HandsInv, DescriptorsOwned, HeldNamed, accVars
  <2>6. OneDescriptorEach'
    BY <2>1 DEF HandsInv, OneDescriptorEach
  <2> QED BY <2>1, <2>3, <2>4, <2>5, <2>6 DEF HandsInv, accVars
<1>10. CASE Exit
  BY <1>10, VanishKeeps DEF Exit
<1>11. CASE SendFails
  <2>1. CASE Vanish("killed")
    BY <2>1, VanishKeeps
  <2>2. CASE Transmit(msock) /\ Prompt /\ UNCHANGED tblVars /\ MainUnchanged
    <3>1. TableInv'
      BY <2>2, TableKept DEF Transmit
    <3> QED BY <1>11, <2>2, <3>1 DEF SendFails, Transmit, HandsInv, DescriptorsOwned,
               HeldNamed, OneDescriptorEach, tblVars, accVars
  <2> QED BY <1>11, <2>1, <2>2 DEF SendFails
<1> QED
  BY <1>1, <1>2, <1>3, <1>4, <1>5, <1>6, <1>7, <1>8, <1>9, <1>10, <1>11 DEF MainStep

\* A blocked send returns: the user is prompted again, nothing else changes.
LEMMA PeerReadsKeeps ==
  ASSUME TypeOK, TableInv, HandsInv, PeerReads
  PROVE  TableInv' /\ HandsInv'
<1> USE Sets DEF TypeOK, NetTypeOK, MainHolds, AccHolds, MainNames, MainUnchanged,
                 Prompt
<1>1. TableInv'
  BY TableKept DEF PeerReads, netVars
<1> QED BY <1>1 DEF PeerReads, HandsInv, DescriptorsOwned, HeldNamed,
           OneDescriptorEach, netVars, tblVars, accVars

LEMMA PeerKeeps ==
  ASSUME TypeOK, TableInv, HandsInv, Peer
  PROVE  TableInv' /\ HandsInv'
<1> USE Sets DEF TypeOK, NetTypeOK, MainHolds, AccHolds, MainNames
<1>1. UNCHANGED <<tblVars, recvVars, mainVars, accVars, fdtab>>
  BY DEF Peer, MainUnchanged, PeerConnect, PeerSend, PeerClose
<1>2. CASE PeerConnect
  <2>1. /\ nsock < MaxSock /\ nsock + 1 \in Sock /\ nsock' = nsock + 1
        /\ st' = [st EXCEPT ![nsock + 1] = "queued"] /\ eof' = eof
        /\ st[nsock + 1] = "none"
    BY <1>2 DEF PeerConnect, Sock, HandsInv
  <2>2. TableInv'
    BY <1>1, <2>1, TableKept
  <2>3. DescriptorsOwned' /\ HeldNamed'
    BY <1>1 DEF HandsInv, DescriptorsOwned, HeldNamed, tblVars, mainVars, accVars
  <2>4. OneDescriptorEach'
    BY <1>1, <2>1 DEF HandsInv, OneDescriptorEach
  <2>5. (\A s \in Sock : s > nsock => st[s] = "none")'
    BY <2>1 DEF HandsInv
  <2>6. /\ mpc = "connect" => st'[msock] = "fresh"
        /\ mpc \in {"add", "drop"} => st'[msock] = "est"
        /\ AccHolds => st'[asock] = "est"
    BY <2>1 DEF HandsInv, HeldNamed
  <2> QED BY <1>1, <2>2, <2>3, <2>4, <2>5, <2>6 DEF HandsInv, mainVars, accVars
<1>3. ASSUME NEW s \in Sock, PeerSend(s) \/ PeerClose(s)
      PROVE  TableInv' /\ HandsInv'
  <2>1. UNCHANGED <<nsock, st>> /\ eof \subseteq eof'
    BY <1>3 DEF PeerSend, PeerClose
  <2>2. TableInv'
    BY <1>1, <2>1, TableKept
  <2> QED BY <1>1, <2>1, <2>2
          DEF HandsInv, DescriptorsOwned, HeldNamed, OneDescriptorEach,
              tblVars, mainVars, accVars
<1> QED BY <1>2, <1>3 DEF Peer

-----------------------------------------------------------------------------
(* The addresses in the table. *)

\* Main is on its way from the duplicate check to add_connection.
Connecting == mpc \in {"socket", "connect", "add"}

\* NoDuplicateDestination is not inductive.  What cmd_connect's check found
\* must still be true when the connection is entered, three steps later, of all
\* that was in the table at the check (SinceCheck): what has come since has a
\* later id.  That ids come in order must be said too, for a connection that is
\* accepted from an address already connected to; and once cleanup_and_exit has
\* emptied the table, only accepted connections are entered.
SinceCheck ==
  /\ mseen \in 1 .. next_id
  /\ \A j \in used : addr[j] = mdest => ~Dialed(j) /\ cid[j] >= mseen

DestInv ==
  /\ NoDuplicateDestination
  /\ \A i \in used : seen[cid[i]] <= next_id
  /\ Connecting => SinceCheck
  /\ mpc = "goodbye" => \A i \in used : ~Dialed(i)

\* What the table says of entry i is what it said before the step.
SameEntry(i) ==
  cid'[i] = cid[i] /\ addr'[i] = addr[i] /\ seen'[cid[i]] = seen[cid[i]]

\* A step that enters nothing and does not start a connect.
LEMMA NothingEntered ==
  ASSUME IInv, DestInv, used' \subseteq used, \A i \in used' : SameEntry(i),
         next_id' \in {next_id, next_id + 1},
         Connecting' => Connecting /\ UNCHANGED <<mdest, mseen>>,
         mpc' = "goodbye" => mpc = "goodbye"
  PROVE  DestInv'
<1> USE DEF SameEntry
<1>1. next_id \in Nat
  BY DEF IInv, TypeOK
<1>2. \A i \in used : seen[cid[i]] \in Nat
  BY DEF IInv, TypeOK, IdsGiven, Seen
<1>3. NoDuplicateDestination'
  BY DEF DestInv, NoDuplicateDestination, Dialed
<1>4. (\A i \in used : seen[cid[i]] <= next_id)'
  BY <1>1, <1>2 DEF DestInv
<1>5. (Connecting => SinceCheck)'
  BY <1>1 DEF DestInv, SinceCheck, Dialed
<1> QED BY <1>3, <1>4, <1>5 DEF DestInv, Dialed

\* What add_connection does to the table.
LEMMA Added ==
  ASSUME IInv, NEW i \in Slot, NEW f, NEW s, NEW a, NEW k, AddOk(i, f, s, a, k)
  PROVE  /\ used' = used \cup {i} /\ i \notin used
         /\ addr'[i] = a /\ cid'[i] = next_id /\ seen'[next_id] = k
         /\ next_id' = next_id + 1
         /\ \A j \in used : SameEntry(j)
<1>1. /\ used' = used \cup {i} /\ i \notin used
      /\ addr'[i] = a /\ cid'[i] = next_id /\ seen' = [seen EXCEPT ![next_id] = k]
      /\ next_id' = next_id + 1 /\ next_id \in Id
      /\ \A j \in used : cid'[j] = cid[j] /\ addr'[j] = addr[j]
  BY DEF IInv, TypeOK, AddOk, Enter, NewId, FirstFree
<1>2. \A j \in used : cid[j] # next_id /\ cid[j] \in Id
  BY <1>1 DEF IInv, IdsGiven, Id, Sock
<1> QED BY <1>1, <1>2 DEF IInv, TypeOK, SameEntry

LEMMA NotAdded ==
  ASSUME IInv, ~MallocMayFail, NEW f, NEW s, NEW a, NEW k, AddFails(f, s, a, k)
  PROVE  /\ used' = used /\ \A j \in used : SameEntry(j)
         /\ next_id' \in {next_id, next_id + 1}
<1>1. CASE UNCHANGED tblVars
  BY <1>1 DEF tblVars, SameEntry
<1>2. ASSUME NEW i \in Slot, Enter(i, f, a, k), UNCHANGED <<used, home>>
      PROVE  /\ used' = used /\ \A j \in used : SameEntry(j)
             /\ next_id' \in {next_id, next_id + 1}
  <2>1. /\ i \notin used /\ next_id \in Id /\ seen' = [seen EXCEPT ![next_id] = k]
        /\ \A j \in used : cid'[j] = cid[j] /\ addr'[j] = addr[j]
    BY <1>2 DEF IInv, TypeOK, Enter, FirstFree
  <2>2. \A j \in used : cid[j] # next_id /\ cid[j] \in Id
    BY <2>1 DEF IInv, IdsGiven, Id, Sock
  <2> QED BY <1>2, <2>1, <2>2 DEF Enter, IInv, TypeOK, SameEntry
<1> QED BY <1>1, <1>2 DEF AddFails

LEMMA AcceptDest ==
  ASSUME IInv, DestInv, ~MallocMayFail, AcceptThread
  PROVE  DestInv'
<1>1. UNCHANGED mainVars
  BY DEF AcceptThread, AccReturn, AccError, AccAdd, AccReport, AccDrop
<1>2. CASE AccAdd
  <2>1. ASSUME NEW a, NEW i \in Slot, AddOk(i, afd, asock, a, 0)
        PROVE  DestInv'
    <3>1. /\ used' = used \cup {i} /\ i \notin used
          /\ addr'[i] = a /\ cid'[i] = next_id /\ seen'[next_id] = 0
          /\ next_id' = next_id + 1
          /\ \A j \in used : SameEntry(j)
      BY <2>1, Added
    <3>2. next_id \in Nat /\ \A j \in used : seen[cid[j]] \in Nat
      BY DEF IInv, TypeOK, IdsGiven, Seen
    <3>3. ~Dialed(i)' /\ \A j \in used : Dialed(j)' = Dialed(j)
      BY <3>1 DEF Dialed, SameEntry
    <3>4. (\A j \in used : seen[cid[j]] <= next_id)'
      BY <3>1, <3>2 DEF DestInv, SameEntry
    <3>5. NoDuplicateDestination'
      BY <3>1, <3>3 DEF DestInv, NoDuplicateDestination, SameEntry
    <3>6. (Connecting => SinceCheck)'
      BY <1>1, <3>1, <3>2, <3>3 DEF DestInv, SinceCheck, SameEntry, Connecting, mainVars
    <3> QED BY <1>1, <3>1, <3>3, <3>4, <3>5, <3>6 DEF DestInv, mainVars
  <2>2. ASSUME NEW a, AddFails(afd, asock, a, 0)
        PROVE  DestInv'
    BY <1>1, <2>2, NotAdded, NothingEntered DEF Connecting, mainVars
  <2> QED BY <1>2, <2>1, <2>2 DEF AccAdd
<1>3. CASE UNCHANGED tblVars
  BY <1>1, <1>3, NothingEntered DEF Connecting, mainVars, tblVars, SameEntry
<1> QED BY <1>2, <1>3 DEF AcceptThread, AccReturn, AccError, AccReport, AccDrop

LEMMA RecvDest ==
  ASSUME IInv, DestInv, NEW t \in Id, RecvThread(t)
  PROVE  DestInv'
<1>1. UNCHANGED mainVars
  BY DEF RecvThread, RecvTop, RecvCall, RecvData, RecvEnd, RecvDrop
<1>2. used' \subseteq used /\ UNCHANGED <<cid, addr, seen, next_id>>
  BY DEF RecvThread, RecvTop, RecvCall, RecvData, RecvEnd, RecvDrop, Release, Free,
         tblVars
<1> QED BY <1>1, <1>2, NothingEntered DEF Connecting, mainVars, SameEntry

LEMMA CommandDest ==
  ASSUME IInv, DestInv, Command
  PROVE  DestInv'
<1>1. ~Connecting' /\ mpc' # "goodbye"
  BY DEF Command, CmdTerminate, CmdSend, SendBlocks, CmdMyIp, CmdConnect, Probe,
         CmdConnectNoProbe, CmdExit, Vanish, mainVars, Connecting
<1>2. used' \subseteq used /\ UNCHANGED next_id
  BY DEF Command, CmdTerminate, CmdSend, SendBlocks, CmdMyIp, CmdConnect, Probe,
         CmdConnectNoProbe, CmdExit, Vanish, Free, tblVars
<1>3. used' = {} \/ UNCHANGED <<cid, addr, seen>>
  BY DEF Command, CmdTerminate, CmdSend, SendBlocks, CmdMyIp, CmdConnect, Probe,
         CmdConnectNoProbe, CmdExit, Vanish, Free, tblVars
<1> QED BY <1>1, <1>2, <1>3, NothingEntered DEF SameEntry

LEMMA MainDest ==
  ASSUME IInv, DestInv, ~MallocMayFail, MainStep
  PROVE  DestInv'
<1>1. CASE DupCheck
  <2>1. UNCHANGED tblVars /\ mpc' # "goodbye"
    BY <1>1 DEF DupCheck, Prompt
  <2>2. Connecting' => ~Duplicate /\ mseen' = next_id /\ mdest' = mdest
    BY <1>1 DEF DupCheck, Prompt, Connecting
  <2>3. next_id \in Nat /\ next_id >= 1
    BY DEF IInv, TypeOK
  <2>4. (Connecting => SinceCheck)'
    BY <2>1, <2>2, <2>3 DEF tblVars, SinceCheck, Duplicate
  <2> QED BY <2>1, <2>4 DEF tblVars, DestInv, NoDuplicateDestination, Dialed
<1>2. CASE MainAdd
  <2>1. mpc = "add" /\ mpc' \in {"prompt", "drop"}
    BY <1>2 DEF MainAdd, Prompt
  <2>2. ASSUME NEW i \in Slot, AddOk(i, mfd, msock, mdest, mseen)
        PROVE  DestInv'
    <3>1. /\ used' = used \cup {i} /\ i \notin used
          /\ addr'[i] = mdest /\ cid'[i] = next_id /\ seen'[next_id] = mseen
          /\ next_id' = next_id + 1
          /\ \A j \in used : SameEntry(j)
      BY <2>2, Added
    <3>2. next_id \in Nat /\ \A j \in used : seen[cid[j]] \in Nat
      BY DEF IInv, TypeOK, IdsGiven, Seen
    <3>3. /\ mseen \in Nat /\ mseen <= next_id
          /\ \A j \in used : addr[j] = mdest => ~Dialed(j) /\ cid[j] >= mseen
      BY <2>1, <3>2 DEF DestInv, Connecting, SinceCheck
    <3>4. \A j \in used : Dialed(j)' = Dialed(j)
      BY <3>1 DEF Dialed, SameEntry
    <3>5. (\A j \in used : seen[cid[j]] <= next_id)'
      BY <3>1, <3>2, <3>3 DEF DestInv, SameEntry
    <3>6. NoDuplicateDestination'
      BY <3>1, <3>3, <3>4 DEF DestInv, NoDuplicateDestination, SameEntry
    <3> QED BY <2>1, <3>5, <3>6 DEF DestInv, Connecting
  <2>3. CASE AddFails(mfd, msock, mdest, mseen)
    BY <2>1, <2>3, NotAdded, NothingEntered DEF Connecting
  <2> QED BY <1>2, <2>2, <2>3 DEF MainAdd
<1>3. CASE CloseConnections
  BY <1>3 DEF CloseConnections, DestInv, NoDuplicateDestination, Connecting
<1>4. CASE Exit
  BY <1>4 DEF Exit, Vanish, DestInv, NoDuplicateDestination, Connecting
<1>5. CASE SelfCheck \/ MainNoSocket \/ MainSocket \/ MainConnect \/ MainDrop
             \/ CloseListener
  <2>1. UNCHANGED tblVars
    BY <1>5 DEF SelfCheck, MainNoSocket, MainSocket, MainConnect, MainDrop,
                CloseListener
  <2>2. /\ Connecting' => Connecting /\ UNCHANGED <<mdest, mseen>>
        /\ mpc' # "goodbye"
    BY <1>5 DEF SelfCheck, MainNoSocket, MainSocket, MainConnect, MainDrop,
                CloseListener, Prompt, Connecting
  <2> QED BY <2>1, <2>2, NothingEntered DEF tblVars, SameEntry
<1>6. CASE SendFails
  <2>1. ~Connecting' /\ mpc' # "goodbye" /\ UNCHANGED next_id
    BY <1>6 DEF SendFails, Vanish, Prompt, Connecting, tblVars
  <2>2. used' = {} \/ UNCHANGED tblVars
    BY <1>6 DEF SendFails, Vanish
  <2> QED BY <2>1, <2>2, NothingEntered DEF tblVars, SameEntry
<1> QED BY <1>1, <1>2, <1>3, <1>4, <1>5, <1>6 DEF MainStep

LEMMA NextDest == ASSUME IInv, DestInv, ~MallocMayFail, [Next]_vars PROVE DestInv'
<1>1. CASE Peer \/ PeerReads
  BY <1>1, NothingEntered DEF Peer, PeerReads, Prompt, tblVars, mainVars, Connecting,
                              SameEntry
<1>2. CASE UNCHANGED vars
  BY <1>2, NothingEntered DEF vars, tblVars, mainVars, Connecting, SameEntry
<1> QED BY <1>1, <1>2, AcceptDest, RecvDest, CommandDest, MainDest
        DEF Next, Terminated

-----------------------------------------------------------------------------
(* The theorems. *)

LEMMA InitIInv == Init => IInv
  BY InitTypeOK, Sets
  DEF Init, NetInit, IInv, IdsGiven, TableMatchesDescriptors, DescriptorsOwned,
      HeldNamed, ServedByOwnThread, EndpointStates, OneDescriptorEach,
      MainHolds, AccHolds

LEMMA NextIInv == ASSUME ~MallocMayFail, IInv, [Next]_vars PROVE IInv'
<1>1. TypeOK /\ TableInv /\ HandsInv
  BY Parts
<1>2. TypeOK'
  BY <1>1, NextTypes DEF HandsInv
<1>3. TableInv' /\ HandsInv'
  <2>1. CASE UNCHANGED vars
    BY <1>1, <2>1
    DEF vars, netVars, tblVars, recvVars, mainVars, accVars, runVars,
        TableInv, HandsInv, IdsGiven, TableMatchesDescriptors, Connection,
        ServedByOwnThread, DescriptorsOwned, HeldNamed, OneDescriptorEach,
        MainHolds, MainNames, AccHolds
  <2> QED BY <1>1, <2>1, CommandKeeps, MainKeeps, AcceptKeeps, RecvKeeps,
             PeerKeeps, PeerReadsKeeps DEF Next, Terminated
<1>4. (TypeOK /\ TableInv /\ HandsInv)' => IInv'
  BY DEF IInv, TableInv, HandsInv, EndpointStates
<1> QED BY <1>2, <1>3, <1>4

\* As long as malloc does not fail, every reachable state of chat.c satisfies
\* the inductive invariant.
THEOREM ChatV1Inductive == ASSUME ~MallocMayFail PROVE Spec => []IInv
<1>1. Init => IInv
  BY InitIInv
<1>2. IInv /\ [Next]_vars => IInv'
  BY NextIInv
<1> QED BY <1>1, <1>2, PTL DEF Spec

\* Every variable of chat.c keeps its type.
THEOREM ChatV1Types == ASSUME ~MallocMayFail PROVE Spec => []TypeOK
<1>1. IInv => TypeOK
  BY DEF IInv
<1> QED BY <1>1, ChatV1Inductive, PTL

\* An entry of conns[] that is in use names the connection its id was given
\* to, whichever stale recv threads close slots under conns_mutex.
THEOREM ChatV1Table ==
  ASSUME ~MallocMayFail PROVE Spec => []TableMatchesDescriptors
<1>1. IInv => TableMatchesDescriptors
  BY DEF IInv
<1> QED BY <1>1, ChatV1Inductive, PTL

\* No descriptor leaks and none has two owners: add_connection's failure
\* paths, cleanup and the recv threads' close agree on who closes what.
THEOREM ChatV1Descriptors ==
  ASSUME ~MallocMayFail PROVE Spec => []DescriptorsOwned
<1>1. IInv => DescriptorsOwned
  BY DEF IInv
<1> QED BY <1>1, ChatV1Inductive, PTL

\* Every entry in use has its own recv thread, on its own connection.
THEOREM ChatV1Served ==
  ASSUME ~MallocMayFail PROVE Spec => []ServedByOwnThread
<1>1. IInv => ServedByOwnThread
  BY DEF IInv
<1> QED BY <1>1, ChatV1Inductive, PTL

\* Why the user never has two connections to one address and only accepted
\* connections are there at the end, for any schedule of main and the accept
\* thread.
THEOREM ChatV1DestInv == ASSUME ~MallocMayFail PROVE Spec => []DestInv
<1>1. Init => DestInv
  BY DEF Init, DestInv, NoDuplicateDestination, Connecting
<1>2. IInv /\ DestInv /\ [Next]_vars => DestInv'
  BY NextDest
<1> QED BY <1>1, <1>2, ChatV1Inductive, PTL DEF Spec

\* cmd_connect's check and its add_connection lock conns_mutex one after the
\* other, and the accept thread may enter any address in between: a connection
\* made from it since the check is all that can share the address of one the
\* user connected to, whatever addresses the peers use.
THEOREM ChatV1Destinations ==
  ASSUME ~MallocMayFail PROVE Spec => []NoDuplicateDestination
<1>1. DestInv => NoDuplicateDestination
  BY DEF DestInv
<1> QED BY <1>1, ChatV1DestInv, PTL

\* When cleanup_and_exit says that all connections are closed, what is open
\* came in through the accept thread after its loop.
THEOREM ChatV1Goodbye == ASSUME ~MallocMayFail PROVE Spec => []GoodbyeLeavesAccepted
<1>1. IInv /\ DestInv => GoodbyeLeavesAccepted
  BY DEF IInv, DestInv, GoodbyeLeavesAccepted, DescriptorsOwned, MainHolds
<1> QED BY <1>1, ChatV1Inductive, ChatV1DestInv, PTL

-----------------------------------------------------------------------------
(* The table implements the registry. *)

\* While a slot is free the registry has room.
LEMMA Room ==
  ASSUME TypeOK, NEW i \in Slot, i \notin used
  PROVE  Cardinality(Members) < MaxConn
<1>1. IsFiniteSet(Slot) /\ Cardinality(Slot) = MaxConn
  BY FS_Interval DEF Slot
<1>2. used \in SUBSET Slot /\ used # Slot
  BY DEF TypeOK
<1>3. /\ IsFiniteSet(used)
      /\ Cardinality(used) <= Cardinality(Slot)
      /\ Cardinality(used) # Cardinality(Slot)
  BY <1>1, <1>2, FS_Subset
<1> DEFINE f == [j \in used |-> <<cid[j], Connection(j)>>]
<1>4. f \in Surjection(used, Members)
  BY DEF Surjection, Members
<1>5. IsFiniteSet(Members) /\ Cardinality(Members) <= Cardinality(used)
  BY <1>3, <1>4, FS_Surjection
<1>6. Cardinality(used) \in Nat /\ Cardinality(Members) \in Nat
  BY <1>3, <1>5, FS_CardinalityType
<1> QED BY <1>1, <1>3, <1>5, <1>6

Unlisted(s) == s \in Sock /\ \A i \in used : Connection(i) # s

\* What main and the accept thread are about to enter is not in the table: it
\* has another descriptor, and one endpoint has one descriptor.
LEMMA InHandUnlisted ==
  ASSUME IInv
  PROVE  /\ mpc \in {"connect", "add", "drop"} => Unlisted(msock)
         /\ AccHolds => Unlisted(asock)
         /\ mpc \in {"connect", "add", "drop"} /\ AccHolds => msock # asock
<1> USE Sets DEF IInv, TypeOK, NetTypeOK, DescriptorsOwned, HeldNamed, MainNames,
                 OneDescriptorEach, TableMatchesDescriptors
<1>1. ASSUME mpc \in {"connect", "add", "drop"}
      PROVE  fdtab[mfd] = msock /\ msock \in Sock /\ mfd \in Fd /\ MainHolds
  BY <1>1 DEF MainHolds
<1>2. ASSUME AccHolds
      PROVE  fdtab[afd] = asock /\ asock \in Sock /\ afd \in Fd
  BY <1>2
<1>3. \A i \in used : fdtab[cfd[i]] = Connection(i) /\ cfd[i] \in Fd
  OBVIOUS
<1> QED BY <1>1, <1>2, <1>3 DEF Unlisted

\* The effect of add_connection on the entries that were there.
LEMMA AddOkEntries ==
  ASSUME IInv, NEW i \in Slot, NEW f, NEW s, NEW a, NEW k,
         AddOk(i, f, s, a, k)
  PROVE  /\ i \notin used /\ used' = used \cup {i}
         /\ next_id \in Id /\ next_id' = next_id + 1
         /\ cid'[i] = next_id /\ Connection(i)' = s
         /\ \A j \in used : cid'[j] = cid[j] /\ Connection(j)' = Connection(j)
<1>1. /\ i \notin used /\ used' = used \cup {i}
      /\ next_id \in Id /\ next_id' = next_id + 1
      /\ cid'[i] = next_id
      /\ \A j \in used : cid'[j] = cid[j]
      /\ home' = [home EXCEPT ![next_id] = s]
  BY DEF IInv, TypeOK, AddOk, Enter, NewId, FirstFree
<1>2. Connection(i)' = s
  BY <1>1 DEF IInv, TypeOK, Connection
<1>3. ASSUME NEW j \in used
      PROVE  Connection(j)' = Connection(j)
  <2>1. cid[j] # next_id /\ cid[j] \in Id
    BY <1>1, <1>3 DEF IInv, IdsGiven, Id, Sock
  <2> QED BY <1>1, <2>1 DEF IInv, TypeOK, Connection
<1> QED BY <1>1, <1>2, <1>3

LEMMA AddOkJoins ==
  ASSUME IInv, NEW i \in Slot, NEW f, NEW s, NEW a, NEW k, Unlisted(s),
         AddOk(i, f, s, a, k)
  PROVE  Registry!Join(s)
<1>1. Members' = Members \cup {<<next_id' - 1, s>>}
  <2>1. next_id' - 1 = next_id
    BY AddOkEntries DEF Id, Sock
  <2> QED BY <2>1, AddOkEntries DEF Members
<1>2. next_id - 1 < MaxSock /\ next_id' - 1 = next_id - 1 + 1
  BY AddOkEntries DEF Id, Sock
<1>3. \A m \in Members : m[2] # s
  BY DEF Members, Unlisted
<1>4. Registry!Cardinality(Members) < MaxConn
  <2>1. Registry!Cardinality(Members) = Cardinality(Members)
    BY DEF Registry!Cardinality, Cardinality
  <2> QED BY <2>1, AddOkEntries, Room DEF IInv
<1> QED BY <1>1, <1>2, <1>3, <1>4 DEF Registry!Join

LEMMA AddFailsBurns ==
  ASSUME TypeOK, ~MallocMayFail, NEW f, NEW s, NEW a, NEW k, AddFails(f, s, a, k)
  PROVE  Registry!Burn \/ UNCHANGED Registry!regVars
<1>1. used' = used /\ \A j \in used : cid'[j] = cid[j] /\ Connection(j)' = Connection(j)
  BY DEF TypeOK, AddFails, Enter, FirstFree, Connection, tblVars
<1>2. Members' = Members
  BY <1>1 DEF Members
<1>3. CASE next_id' = next_id
  BY <1>2, <1>3 DEF Registry!regVars
<1>4. CASE next_id \in Id /\ next_id' = next_id + 1
  <2>1. next_id - 1 < MaxSock /\ next_id' - 1 = next_id - 1 + 1
    BY <1>4 DEF Id, Sock
  <2> QED BY <1>2, <2>1 DEF Registry!Burn
<1> QED BY <1>3, <1>4 DEF AddFails, Enter, tblVars

LEMMA FreeLeaves ==
  ASSUME IInv, NEW i \in used, Free(i)
  PROVE  \E m \in Members : Registry!Leave(m)
<1> DEFINE m == <<cid[i], Connection(i)>>
<1>1. m \in Members
  BY DEF Members
<1>2. \A j \in used' : j \in used /\ cid[j] # cid[i]
  BY DEF Free, IInv, TableMatchesDescriptors
<1>3. Members' = Members \ {m}
  BY <1>2 DEF Free, Members, Connection
<1> QED BY <1>1, <1>3 DEF Free, Registry!Leave

LEMMA TableUnchanged ==
  ASSUME UNCHANGED tblVars
  PROVE  UNCHANGED Registry!regVars
  BY DEF tblVars, Registry!regVars, Members, Connection

LEMMA Clears ==
  ASSUME used' = {}, UNCHANGED next_id
  PROVE  Registry!Clear
  BY DEF Members, Registry!Clear

\* Every step does at most one of these to the table.
LEMMA TableSteps ==
  ASSUME IInv, [Next]_vars
  PROVE  \/ UNCHANGED tblVars
         \/ \E i \in used : Free(i)
         \/ used' = {} /\ UNCHANGED next_id
         \/ \E f \in Fd : \E s, a, k : AddFails(f, s, a, k)
         \/ \E i \in Slot : \E f, s, a, k :
              s \in Sock /\ Unlisted(s) /\ AddOk(i, f, s, a, k)
<1>1. CASE UNCHANGED vars \/ Peer \/ PeerReads \/ Terminated
  BY <1>1 DEF vars, Peer, PeerReads, Terminated
<1>2. ASSUME NEW t \in Id, RecvThread(t)
      PROVE  UNCHANGED tblVars \/ \E i \in used : Free(i)
  BY <1>2 DEF RecvThread, RecvTop, RecvCall, RecvData, RecvEnd, RecvDrop, Release,
              Occupied
<1>3. CASE AcceptThread
  <2>1. CASE AccAdd
    BY <2>1, InHandUnlisted DEF AccAdd, AccHolds, IInv, TypeOK, Unlisted
  <2>2. CASE ~AccAdd
    BY <1>3, <2>2 DEF AcceptThread, AccReturn, AccError, AccReport, AccDrop
  <2> QED BY <2>1, <2>2
<1>4. CASE Command
  BY <1>4 DEF Command, CmdTerminate, CmdSend, SendBlocks, CmdMyIp, CmdConnect, Probe,
              CmdConnectNoProbe, CmdExit, HasId, Vanish
<1>5. CASE SelfCheck \/ DupCheck \/ MainSocket \/ MainNoSocket \/ MainConnect
           \/ MainDrop \/ CloseListener
  BY <1>5 DEF SelfCheck, DupCheck, MainSocket, MainNoSocket, MainConnect, MainDrop,
              CloseListener
<1>6. CASE MainAdd
  BY <1>6, InHandUnlisted DEF MainAdd, IInv, TypeOK, Unlisted
<1>7. CASE CloseConnections \/ Exit \/ SendFails
  BY <1>7 DEF CloseConnections, Exit, SendFails, Vanish
<1> QED BY <1>1, <1>2, <1>3, <1>4, <1>5, <1>6, <1>7 DEF Next, MainStep

LEMMA StepRefines ==
  ASSUME ~MallocMayFail, IInv, [Next]_vars
  PROVE  [Registry!RegNext]_(Registry!regVars)
  BY TableSteps, TableUnchanged, FreeLeaves, Clears, AddFailsBurns, AddOkJoins
     DEF Registry!RegNext, IInv

\* conns[] with its slots, descriptors, recv threads and their races hidden is
\* a registry: ids are given out once and in order, no connection is listed
\* twice, an entry is never changed in place.
THEOREM ChatV1Registry == ASSUME ~MallocMayFail PROVE Spec => RegistrySpec
<1>1. Init => IInv /\ Registry!RegInit
  <2>1. Init => Registry!RegInit
    BY DEF Init, Registry!RegInit, Members
  <2> QED BY <2>1, InitIInv
<1>2. IInv /\ [Next]_vars => IInv'
  BY NextIInv
<1>3. IInv /\ [Next]_vars => [Registry!RegNext]_(Registry!regVars)
  BY StepRefines
<1> QED BY <1>1, <1>2, <1>3, PTL DEF Spec, RegistrySpec, Registry!RegSpec

-----------------------------------------------------------------------------
(* The announced id. *)

\* Between the unlock of add_connection and the read of conns[i].id the entry
\* may go and its slot be given to another connection, but the accepted
\* connection is never entered in another slot.
ReportInv ==
  apc = "report" =>
    /\ asock \in Sock /\ st[asock] = "est"
    /\ mpc \in {"connect", "add"} => msock # asock
    /\ \A i \in used : Connection(i) = asock => i = aslot

\* A step of another thread that enters nothing.
LEMMA ReportKept ==
  ASSUME ReportInv, UNCHANGED <<apc, asock, aslot>>, used' \subseteq used,
         \A i \in used' : Connection(i)' = Connection(i),
         \A s \in Sock : st[s] = "est" => st'[s] = "est",
         mpc' \in {"connect", "add"} => UNCHANGED <<mpc, msock>>
  PROVE  ReportInv'
  BY DEF ReportInv

LEMMA AcceptReport ==
  ASSUME IInv, AcceptThread
  PROVE  ReportInv'
<1>1. CASE AccAdd
  <2>1. apc = "add" /\ AccHolds /\ Unlisted(asock) /\ st[asock] = "est"
        /\ UNCHANGED <<asock, st, mpc, msock>>
    BY <1>1, InHandUnlisted DEF AccAdd, AccHolds, IInv, EndpointStates, netVars,
                                mainVars
  <2>2. ASSUME NEW a, NEW i \in Slot, AddOk(i, afd, asock, a, 0), aslot' = i
        PROVE  ReportInv'
    BY <2>1, <2>2, AddOkEntries, InHandUnlisted DEF ReportInv, Unlisted
  <2> QED BY <1>1, <2>2 DEF AccAdd, ReportInv
<1>2. CASE ~AccAdd
  BY <1>2 DEF AcceptThread, AccReturn, AccError, AccReport, AccDrop, AccAgain,
              ReportInv
<1> QED BY <1>1, <1>2

LEMMA RecvReport ==
  ASSUME IInv, ReportInv, NEW t \in Id, RecvThread(t)
  PROVE  ReportInv'
<1>1. UNCHANGED <<apc, asock, aslot, st, mpc, msock>>
  BY DEF RecvThread, RecvTop, RecvCall, RecvData, RecvEnd, RecvDrop, Drain,
         netVars, mainVars, accVars
<1>2. used' \subseteq used /\ \A i \in used : Connection(i)' = Connection(i)
  BY DEF RecvThread, RecvTop, RecvCall, RecvData, RecvEnd, RecvDrop, Release, Free,
         Connection, tblVars
<1> QED BY <1>1, <1>2, ReportKept

LEMMA CommandReport ==
  ASSUME IInv, ReportInv, Command
  PROVE  ReportInv'
<1>1. CASE Vanish("killed")
  BY <1>1 DEF Vanish, ReportInv
<1>2. CASE ~Vanish("killed")
  <2>1. UNCHANGED <<apc, asock, aslot, st>> /\ mpc' \notin {"connect", "add"}
    BY <1>2 DEF Command, CmdTerminate, CmdSend, SendBlocks, CmdMyIp, CmdConnect,
       Probe, CmdConnectNoProbe, CmdExit, Transmit, MainUnchanged, netVars, mainVars, accVars
  <2>2. used' \subseteq used /\ \A i \in used : Connection(i)' = Connection(i)
    BY <1>2 DEF Command, CmdTerminate, CmdSend, SendBlocks, CmdMyIp, CmdConnect,
       Probe, CmdConnectNoProbe, CmdExit, Free, Connection, tblVars
  <2> QED BY <2>1, <2>2, ReportKept
<1> QED BY <1>1, <1>2

LEMMA MainReport ==
  ASSUME ~MallocMayFail, IInv, ReportInv, MainStep
  PROVE  ReportInv'
<1>1. CASE SelfCheck \/ DupCheck \/ MainNoSocket \/ MainDrop \/ CloseListener
           \/ CloseConnections
  <2>1. UNCHANGED <<apc, asock, aslot, st>> /\ mpc' \notin {"connect", "add"}
    BY <1>1 DEF SelfCheck, DupCheck, MainNoSocket, MainDrop, CloseListener,
       CloseConnections, Prompt, MainUnchanged, netVars, accVars
  <2>2. used' \subseteq used /\ \A i \in used : Connection(i)' = Connection(i)
    BY <1>1 DEF SelfCheck, DupCheck, MainNoSocket, MainDrop, CloseListener,
       CloseConnections, Connection, tblVars
  <2> QED BY <2>1, <2>2, ReportKept
<1>2. CASE MainSocket
  <2>1. PICK s \in Sock : /\ s = nsock + 1
                          /\ st' = [st EXCEPT ![s] = "fresh"]
                          /\ msock' = s
    BY <1>2 DEF MainSocket, NewSocket
  <2>2. nsock \in Nat /\ st[s] = "none"
    BY <2>1 DEF IInv, TypeOK, NetTypeOK, EndpointStates
  <2>3. UNCHANGED <<apc, asock, aslot, used>> /\ \A i : Connection(i)' = Connection(i)
    BY <1>2 DEF MainSocket, MainUnchanged, accVars, tblVars, Connection
  <2> QED BY <2>1, <2>2, <2>3 DEF ReportInv, IInv, TypeOK, NetTypeOK
<1>3. CASE MainConnect
  <2>1. st[msock] = "fresh" /\ mpc = "connect"
    BY <1>3 DEF MainConnect, IInv, EndpointStates
  <2>2. /\ st' \in {[st EXCEPT ![msock] = "est"], [st EXCEPT ![msock] = "failed"]}
        /\ mpc' = "add" => msock' = msock
        /\ mpc' \in {"add", "prompt"}
        /\ UNCHANGED <<apc, asock, aslot, used>>
        /\ \A i : Connection(i)' = Connection(i)
    BY <1>3 DEF MainConnect, Connected, Refused, Prompt, MainUnchanged, accVars,
                tblVars, Connection
  <2> QED BY <2>1, <2>2 DEF ReportInv, IInv, TypeOK, NetTypeOK
<1>4. CASE MainAdd
  <2>1. mpc = "add" /\ UNCHANGED <<apc, asock, aslot, st>> /\ mpc' \in {"prompt", "drop"}
    BY <1>4 DEF MainAdd, Prompt, netVars, accVars
  <2>2. ASSUME NEW i \in Slot, AddOk(i, mfd, msock, mdest, mseen)
        PROVE  ReportInv'
    BY <2>1, <2>2, AddOkEntries DEF ReportInv
  <2>3. CASE AddFails(mfd, msock, mdest, mseen)
    <3>1. used' = used /\ \A i \in used : Connection(i)' = Connection(i)
      BY <2>3 DEF AddFails, Enter, FirstFree, Connection, tblVars, IInv, TypeOK
    <3> QED BY <2>1, <3>1, ReportKept
  <2> QED BY <1>4, <2>2, <2>3 DEF MainAdd
<1>5. CASE Exit
  BY <1>5 DEF Exit, Vanish, ReportInv
<1>6. CASE SendFails
  <2>1. CASE Vanish("killed")
    BY <2>1 DEF Vanish, ReportInv
  <2>2. CASE Transmit(msock) /\ Prompt /\ UNCHANGED tblVars /\ MainUnchanged
    BY <2>2, ReportKept DEF Transmit, Prompt, MainUnchanged, accVars, tblVars, Connection
  <2> QED BY <1>6, <2>1, <2>2 DEF SendFails
<1> QED BY <1>1, <1>2, <1>3, <1>4, <1>5, <1>6 DEF MainStep

LEMMA PeerReport ==
  ASSUME IInv, ReportInv, Peer
  PROVE  ReportInv'
<1>1. UNCHANGED <<apc, asock, aslot, used, mpc, msock>>
      /\ \A i : Connection(i)' = Connection(i)
  BY DEF Peer, MainUnchanged, mainVars, accVars, tblVars, Connection
<1>2. \A s \in Sock : st[s] = "est" => st'[s] = "est"
  <2>1. CASE PeerConnect
    <3>1. nsock + 1 \in Sock /\ st[nsock + 1] = "none"
      BY <2>1 DEF PeerConnect, IInv, TypeOK, NetTypeOK, EndpointStates, Sock
    <3> QED BY <2>1, <3>1 DEF PeerConnect, IInv, TypeOK, NetTypeOK
  <2> QED BY <2>1 DEF Peer, PeerSend, PeerClose
<1> QED BY <1>1, <1>2, ReportKept

LEMMA NextReport ==
  ASSUME ~MallocMayFail, IInv, ReportInv, [Next]_vars
  PROVE  ReportInv'
<1>1. CASE UNCHANGED vars
  <2>1. UNCHANGED <<apc, asock, aslot, used, mpc, msock, st>>
        /\ \A i : Connection(i)' = Connection(i)
    BY <1>1 DEF vars, netVars, tblVars, mainVars, accVars, Connection
  <2> QED BY <2>1, ReportKept
<1>2. CASE PeerReads
  BY <1>2, ReportKept DEF PeerReads, Prompt, MainUnchanged, netVars, accVars, tblVars,
                          Connection
<1> QED BY <1>1, <1>2, CommandReport, MainReport, AcceptReport, RecvReport, PeerReport
        DEF Next, Terminated

\* The id read after the unlock is the accepted connection's own as long as
\* that connection is in the table.
THEOREM ChatV1Announced == ASSUME ~MallocMayFail PROVE Spec => AnnouncedIdIsOwn
<1>1. Init => IInv /\ ReportInv
  BY InitIInv DEF Init, ReportInv
<1>2. IInv /\ ReportInv /\ [Next]_vars => IInv' /\ ReportInv'
  BY NextIInv, NextReport
<1>3. IInv /\ ReportInv =>
        (AccReport => \/ Connection(aslot) = asock
                      \/ \A i \in used : fdtab[cfd[i]] # asock)
  BY DEF IInv, ReportInv, TableMatchesDescriptors, AccReport
<1> QED BY <1>1, <1>2, <1>3, PTL DEF Spec, AnnouncedIdIsOwn

=============================================================================

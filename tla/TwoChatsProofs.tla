--------------------------- MODULE TwoChatsProofs ---------------------------
(***************************************************************************)
(* A theorem about TwoChats, for socket buffers of any size.               *)
(***************************************************************************)
EXTENDS TwoChats, TLAPS

Types ==
  /\ version \in {1, 2}
  /\ main \in [Side -> {"prompt", "send", "gone"}]
  /\ recv \in [Side -> {"top", "recv", "print", "end", "done"}]
  /\ listed \in [Side -> BOOLEAN]
  /\ waiting \in [Side -> Nat]

\* A receive thread leaves its loop only after the other side has gone, and
\* takes the connection out of the table when it ends.
LeavesInTime ==
  \A p \in Side :
    /\ recv[p] \in {"end", "done"} => Gone(p)
    /\ recv[p] = "done" => ~listed[p]

ChatsInv == Types /\ LeavesInTime

LEMMA Sides ==
  \A p \in Side : Other[p] \in Side /\ Other[p] # p /\ Other[Other[p]] = p
BY DEF Side, Other

LEMMA ChatsStart == ChatsInit => ChatsInv
BY DEF ChatsInit, ChatsInv, Types, LeavesInTime

\* The main threads: nobody who has gone comes back.
LEMMA MainKeeps ==
  ASSUME ChatsInv, NEW p \in Side, CmdSend(p) \/ SendReturns(p) \/ CmdExit(p)
  PROVE  ChatsInv'
<1> USE DEF ChatsInv, Types, MainUnchanged
<1>1. UNCHANGED <<version, recv, listed>>
  BY DEF CmdSend, SendReturns, CmdExit
<1>2. /\ main' \in [Side -> {"prompt", "send", "gone"}]
      /\ \A s \in Side : main[s] = "gone" => main'[s] = "gone"
  BY DEF CmdSend, SendReturns, CmdExit
<1>3. waiting' \in [Side -> Nat]
  BY Sides DEF CmdSend, SendReturns, CmdExit
<1>4. LeavesInTime'
  BY <1>1, <1>2, Sides DEF LeavesInTime, Gone
<1> QED BY <1>1, <1>2, <1>3, <1>4

LEMMA RecvKeeps ==
  ASSUME ChatsInv, NEW p \in Side, RecvThread(p)
  PROVE  ChatsInv'
<1> USE DEF ChatsInv, Types, RecvGoes
<1>1. UNCHANGED <<version, main>>
  BY DEF RecvThread, RecvTop, RecvCall, RecvPrint, RecvEnd
<1>2. recv' \in [Side -> {"top", "recv", "print", "end", "done"}]
  BY DEF RecvThread, RecvTop, RecvCall, RecvPrint, RecvEnd, Onwards
<1>3. listed' \in [Side -> BOOLEAN]
  BY DEF RecvThread, RecvTop, RecvCall, RecvPrint, RecvEnd, Delisted
<1>4. waiting' \in [Side -> Nat]
  BY DEF RecvThread, RecvTop, RecvCall, RecvPrint, RecvEnd
<1>5. ASSUME NEW s \in Side, recv'[s] \in {"end", "done"} PROVE Gone(s)
  BY <1>5 DEF RecvThread, RecvTop, RecvCall, RecvPrint, RecvEnd, Onwards, LeavesInTime
<1>6. ASSUME NEW s \in Side, recv'[s] = "done" PROVE ~listed'[s]
  BY <1>6 DEF RecvThread, RecvTop, RecvCall, RecvPrint, RecvEnd, Onwards, Delisted, LeavesInTime
<1>7. LeavesInTime'
  BY <1>1, <1>5, <1>6 DEF LeavesInTime, Gone
<1> QED BY <1>1, <1>2, <1>3, <1>4, <1>7

LEMMA ChatsStep == ChatsInv /\ [ChatsNext]_chatsVars => ChatsInv'
<1> SUFFICES ASSUME ChatsInv, [ChatsNext]_chatsVars PROVE ChatsInv'
  OBVIOUS
<1>1. CASE ChatsNext
  BY <1>1, MainKeeps, RecvKeeps DEF ChatsNext
<1>2. CASE UNCHANGED chatsVars
  BY <1>2 DEF chatsVars, ChatsInv, Types, LeavesInTime, Gone
<1> QED BY <1>1, <1>2

\* A thread that waits for the socket while all that it may wait for is there
\* is one that has left its loop, and it leaves only when the other side has.
LEMMA HelpIsThere == ChatsInv => NobodyHangs
<1> SUFFICES ASSUME ChatsInv, NEW p \in Side
             PROVE  /\ main[p] = "send" /\ ~Gone(p) /\ waiting[Other[p]] >= Room =>
                         CanReceive(Other[p]) \/ (version = 1 /\ main[Other[p]] = "send")
                    /\ Gone(p) /\ Runs(p) /\ listed[p] => CanReceive(p) \/ main[p] = "send"
  BY DEF NobodyHangs
<1> USE DEF ChatsInv, Types
<1>1. ASSUME main[p] = "send", ~Gone(p), waiting[Other[p]] >= Room
      PROVE  CanReceive(Other[p]) \/ (version = 1 /\ main[Other[p]] = "send")
  <2> DEFINE o == Other[p]
  <2>1. o \in Side /\ Other[o] = p
    BY Sides
  <2>2. Runs(o) /\ ~Gone(o)
    BY <1>1, <2>1 DEF Runs, Gone
  <2>3. recv[o] \in {"top", "recv", "print"}
    BY <2>1, <2>2 DEF LeavesInTime
  <2>4. waiting[o] > 0
    BY <1>1, <2>1, TwoChatsAssumption DEF TwoChatsAssumption
  <2>5. MayLoop(o) \/ (version = 1 /\ main[o] = "send")
    BY DEF MayLoop, MutexFree
  <2> QED BY <2>2, <2>3, <2>4, <2>5 DEF CanReceive
<1>2. ASSUME Gone(p), Runs(p), listed[p], main[p] # "send"
      PROVE  CanReceive(p)
  <2>1. recv[p] \in {"top", "recv", "print", "end"}
    BY <1>2 DEF LeavesInTime
  <2> QED BY <1>2, <2>1 DEF CanReceive, MayLoop, MutexFree
<1> QED BY <1>1, <1>2

\* Program 2 cannot deadlock on full socket buffers of any size, and program 1
\* only if both sides are in a send; a connection that was left is always on
\* its way out of the table.
THEOREM ChatsNobodyHangs == ChatsSpec => []NobodyHangs
<1>1. ChatsSpec => []ChatsInv
  BY ChatsStart, ChatsStep, PTL DEF ChatsSpec
<1> QED BY <1>1, HelpIsThere, PTL
=============================================================================

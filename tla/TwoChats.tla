------------------------------ MODULE TwoChats ------------------------------
(***************************************************************************)
(* Two copies of the first or of the second chat program, connected to     *)
(* each other, each with its main thread and the receive thread of the     *)
(* connection.  The peers of ChatV1 and ChatV2 read or do not, as they     *)
(* like; here the peer is the same program, and what is sent and not yet   *)
(* received waits in socket buffers of bounded size, for which send()      *)
(* blocks while they are full.  The difference that matters: program 1     *)
(* calls send with its mutex held, and its receive thread takes the mutex  *)
(* before every recv; program 2 does neither.  Of the commands, send and   *)
(* exit are kept; the rest of the table is in ChatV1 and ChatV2.           *)
(***************************************************************************)
EXTENDS Integers

CONSTANT Room   \* messages the socket buffers of one direction hold

ASSUME TwoChatsAssumption == Room \in Nat \ {0}

Side == {"a", "b"}
Other == [a |-> "b", b |-> "a"]

VARIABLES
  version,   \* 1 or 2: which program both run
  main,      \* main thread: "prompt", "send"; "gone": the process has ended
  recv,      \* receive thread: "top" of its loop, "recv", "print", "end", "done"
  listed,    \* the connection is in the table
  waiting    \* messages sent to a side and not received

chatsVars == <<version, main, recv, listed, waiting>>

\* The connection is in both tables and its receive threads wait for data.
ChatsInit ==
  /\ version \in {1, 2}
  /\ main = [p \in Side |-> "prompt"]
  /\ recv = [p \in Side |-> "recv"]
  /\ listed = [p \in Side |-> TRUE]
  /\ waiting = [p \in Side |-> 0]

Runs(p) == main[p] # "gone"
Gone(p) == main[Other[p]] = "gone"

\* No send under way keeps the mutex.
MutexFree(p) == version = 1 => main[p] # "send"

-----------------------------------------------------------------------------
(* The main threads. *)

MainUnchanged == UNCHANGED <<version, recv, listed>>

\* The user's send: the table is searched under the mutex.
CmdSend(p) ==
  /\ main[p] = "prompt"
  /\ listed[p]
  /\ main' = [main EXCEPT ![p] = "send"]
  /\ UNCHANGED waiting
  /\ MainUnchanged

\* send() returns: the message is in the buffers, or there is no connection
\* any more, and SIGPIPE may end the process.
SendReturns(p) ==
  /\ main[p] = "send"
  /\ \/ /\ ~Gone(p) /\ waiting[Other[p]] < Room
        /\ waiting' = [waiting EXCEPT ![Other[p]] = @ + 1]
        /\ main' = [main EXCEPT ![p] = "prompt"]
     \/ /\ Gone(p)
        /\ \E to \in {"prompt", "gone"} : main' = [main EXCEPT ![p] = to]
        /\ UNCHANGED waiting
  /\ MainUnchanged

\* exit, or the end of input.
CmdExit(p) ==
  /\ main[p] = "prompt"
  /\ main' = [main EXCEPT ![p] = "gone"]
  /\ UNCHANGED waiting
  /\ MainUnchanged

-----------------------------------------------------------------------------
(* The receive threads. *)

RecvGoes(p, to) ==
  /\ Runs(p)
  /\ recv' = [recv EXCEPT ![p] = to]
  /\ UNCHANGED <<version, main>>

MayLoop_BugBoth(p) == main[p] # "send"   \* program 2 as program 1
MayLoop(p) == MutexFree(p)

\* Program 1 takes the mutex to look at its entry, program 2 goes straight on.
RecvTop(p) ==
  /\ recv[p] = "top"
  /\ MayLoop(p)
  /\ RecvGoes(p, "recv")
  /\ UNCHANGED <<listed, waiting>>

\* recv() returns: all that has arrived, or the end of the connection.
RecvCall(p) ==
  /\ recv[p] = "recv"
  /\ \/ waiting[p] > 0 /\ RecvGoes(p, "print")
     \/ waiting[p] = 0 /\ Gone(p) /\ RecvGoes(p, "end")
  /\ waiting' = [waiting EXCEPT ![p] = 0]
  /\ UNCHANGED listed

Onwards_BugOnce == "done"   \* break after the first message
Onwards == "top"

RecvPrint(p) ==
  /\ recv[p] = "print"
  /\ RecvGoes(p, Onwards)
  /\ UNCHANGED <<listed, waiting>>

Delisted_BugKept == TRUE   \* the thread only ends
Delisted == FALSE

\* Both programs take the mutex to remove the connection, and close it.
RecvEnd(p) ==
  /\ recv[p] = "end"
  /\ MutexFree(p)
  /\ RecvGoes(p, "done")
  /\ listed' = [listed EXCEPT ![p] = Delisted]
  /\ UNCHANGED waiting

RecvThread(p) == RecvTop(p) \/ RecvCall(p) \/ RecvPrint(p) \/ RecvEnd(p)

ChatsNext == \E p \in Side : CmdSend(p) \/ SendReturns(p) \/ CmdExit(p) \/ RecvThread(p)

\* Threads that can run do, however late; nothing is assumed of the users.  The
\* strong fairness is that of the mutex: it is free while a user types the next
\* command, so commands cannot keep a waiting receive thread from it for ever.
ChatsFairness ==
  \A p \in Side : WF_chatsVars(SendReturns(p)) /\ SF_chatsVars(RecvThread(p))

ChatsSpec == ChatsInit /\ [][ChatsNext]_chatsVars /\ ChatsFairness

-----------------------------------------------------------------------------
(* Properties. *)

\* The receive thread has something to do and need not wait for a lock.
CanReceive(p) ==
  /\ Runs(p)
  /\ \/ recv[p] = "top" /\ MayLoop(p)
     \/ recv[p] = "recv" /\ (waiting[p] > 0 \/ Gone(p))
     \/ recv[p] = "print"
     \/ recv[p] = "end" /\ MutexFree(p)

\* Nobody waits for nobody: while a send waits for room the other side's
\* receive thread can go on, unless that side, of program 1, is in a send of
\* its own; and while a connection that the other side has left is still in
\* the table the thread that takes it out can go on, or a send is about to
\* return.
NobodyHangs ==
  \A p \in Side :
    /\ main[p] = "send" /\ ~Gone(p) /\ waiting[Other[p]] >= Room =>
         CanReceive(Other[p]) \/ (version = 1 /\ main[Other[p]] = "send")
    /\ Gone(p) /\ Runs(p) /\ listed[p] => CanReceive(p) \/ main[p] = "send"

\* Program 2: a send never blocks for good, because no lock is between a full
\* buffer and the thread that empties it.
SendAlwaysReturns ==
  \A p \in Side : (version = 2 /\ main[p] = "send") ~> (main[p] # "send")

\* Program 1: a send can block for good only if the other side's does too.
BlockedTogether ==
  \A p \in Side :
    (main[p] = "send") ~> (main[p] # "send" \/ main[Other[p]] = "send")

\* When one side ends, the other takes the connection out of its table or
\* ends itself, also when it was blocked in a send to it with the mutex held.
ExitIsSeen == \A p \in Side : Gone(p) ~> (~listed[p] \/ ~Runs(p))
=============================================================================

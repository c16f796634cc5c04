------------------------------- MODULE MCIpc -------------------------------
(***************************************************************************)
(* For TLC: separate programs that exchange data, by sockets, a message    *)
(* queue or shared memory, and two of the chat programs.  As in MCLocal,   *)
(* mode says which ones a behaviour is of; the others stay as they start,  *)
(* where none of them has a step that fairness asks for.                   *)
(***************************************************************************)
EXTENDS Exchange, TaskQueue, SharedProduct, TwoChats

VARIABLE mode

IpcInit ==
  /\ mode \in {"sockets", "queue", "memory", "chats"}
  /\ ExchangeInit /\ TaskInit /\ ShmInit /\ ChatsInit
  /\ mode # "sockets" => family = "unix" /\ kind = "stream"
  /\ mode # "queue" => \A d, e \in Dispatcher : priority[d] = priority[e]
  /\ mode # "chats" => version = 1

IpcNext ==
  /\ UNCHANGED mode
  /\ \/ mode = "sockets" /\ ExchangeNext /\ UNCHANGED <<taskVars, shmVars, chatsVars>>
     \/ mode = "queue" /\ TaskNext /\ UNCHANGED <<exchangeVars, shmVars, chatsVars>>
     \/ mode = "memory" /\ ShmNext /\ UNCHANGED <<exchangeVars, taskVars, chatsVars>>
     \/ mode = "chats" /\ ChatsNext /\ UNCHANGED <<exchangeVars, taskVars, shmVars>>

IpcSpec ==
  /\ IpcInit
  /\ [][IpcNext]_<<mode, exchangeVars, taskVars, shmVars, chatsVars>>
  /\ ExchangeFairness /\ TaskFairness /\ ChatsFairness
=============================================================================

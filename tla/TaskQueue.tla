----------------------------- MODULE TaskQueue -----------------------------
(***************************************************************************)
(* baitap7: task_dispatcher.c sends one task to a POSIX message queue,     *)
(* task_worker.c takes tasks from it until Ctrl+C, when it removes the     *)
(* queue.  Any number of dispatchers and several workers may run at once;  *)
(* a worker may also be killed outright, which runs no handler.            *)
(*                                                                         *)
(* The name /my_task_queue refers to one queue at a time; unlink takes the *)
(* name away, and who has the old queue open keeps it.  Queues are         *)
(* numbered as they are created.                                           *)
(***************************************************************************)
EXTENDS Integers, Sequences, FiniteSets

CONSTANTS
  Dispatcher, Worker,   \* processes
  Priority,             \* priorities of the tasks
  MaxMessages,          \* mq_maxmsg (10)
  MaxWorkerRuns         \* bound: times a worker is started

ASSUME TaskQueueAssumption ==
  /\ IsFiniteSet(Worker)
  /\ Priority \subseteq Nat /\ MaxMessages \in Nat \ {0} /\ MaxWorkerRuns \in Nat

Queue   == 1 .. MaxWorkerRuns   \* only a worker creates one
NoQueue == 0

VARIABLES
  named,        \* the queue the name refers to
  queue,        \* waiting tasks of each queue, in the order of arrival
  wpc, wq,      \* worker: "off", "opened", "recv", "got", "work"; its queue
  hand,         \* the task a worker has received and not yet printed, if any
  dpc, dq,      \* dispatcher: "idle", "send", "sent", "failed"; its queue
  priority,     \* of a dispatcher's task
  processed,    \* dispatchers whose task a worker has printed
  runs,         \* workers started
  cleaned,      \* a worker has run cleanup (not in the program)
  lost          \* tasks in the hands of workers that ended (not in the program)

taskVars ==
  <<named, queue, wpc, wq, hand, dpc, dq, priority, processed, runs, cleaned, lost>>

TaskInit ==
  /\ named = NoQueue
  /\ queue = [q \in Queue |-> <<>>]
  /\ wpc = [w \in Worker |-> "off"] /\ wq = [w \in Worker |-> NoQueue]
  /\ hand = [w \in Worker |-> {}]
  /\ dpc = [d \in Dispatcher |-> "idle"] /\ dq = [d \in Dispatcher |-> NoQueue]
  /\ priority \in [Dispatcher -> Priority]
  /\ processed = {} /\ lost = {}
  /\ runs = 0 /\ cleaned = FALSE

-----------------------------------------------------------------------------
(* task_worker.c *)

WorkerGoes(w, to) == wpc' = [wpc EXCEPT ![w] = to]
DispatchersUnchanged == UNCHANGED <<dpc, dq, priority>>

Existing_BugRecreated == NoQueue   \* mq_unlink before mq_open
Existing == named

\* mq_open with O_CREAT opens the queue that is there, tasks and all.
WorkerOpens(w) ==
  /\ wpc[w] = "off" /\ runs < MaxWorkerRuns
  /\ runs' = runs + 1
  /\ named' = IF Existing = NoQueue THEN runs + 1 ELSE Existing
  /\ wq' = [wq EXCEPT ![w] = named']
  /\ WorkerGoes(w, "opened")
  /\ UNCHANGED <<queue, hand, processed, cleaned, lost>>
  /\ DispatchersUnchanged

\* signal(SIGINT, cleanup)
CatchesInterrupt(w) ==
  /\ wpc[w] = "opened"
  /\ WorkerGoes(w, "recv")
  /\ UNCHANGED <<named, queue, wq, hand, processed, runs, cleaned, lost>>
  /\ DispatchersUnchanged

\* A buffer below mq_msgsize: mq_receive fails, and the loop goes on.
IsNext_BugSmallBuffer(q, i) == FALSE

\* The first of the most urgent tasks.
IsNext(q, i) ==
  \A j \in DOMAIN queue[q] :
    \/ priority[queue[q][i]] > priority[queue[q][j]]
    \/ priority[queue[q][i]] = priority[queue[q][j]] /\ i <= j

\* mq_receive.
Receive(w) ==
  /\ wpc[w] = "recv"
  /\ LET q == wq[w] IN
       \E i \in DOMAIN queue[q] :
         /\ IsNext(q, i)
         /\ hand' = [hand EXCEPT ![w] = {queue[q][i]}]
         /\ queue' = [queue EXCEPT ![q] = SubSeq(@, 1, i - 1) \o SubSeq(@, i + 1, Len(@))]
  /\ WorkerGoes(w, "got")
  /\ UNCHANGED <<named, wq, processed, runs, cleaned, lost>>
  /\ DispatchersUnchanged

\* "Processing task ...".
Prints(w) ==
  /\ wpc[w] = "got"
  /\ processed' = processed \cup hand[w]
  /\ hand' = [hand EXCEPT ![w] = {}]
  /\ WorkerGoes(w, "work")
  /\ UNCHANGED <<named, queue, wq, runs, cleaned, lost>>
  /\ DispatchersUnchanged

Again_BugOnce == "left"   \* no loop around mq_receive
Again == "recv"

\* sleep(1) is over.
Worked(w) ==
  /\ wpc[w] = "work"
  /\ WorkerGoes(w, Again)
  /\ UNCHANGED <<named, queue, wq, hand, processed, runs, cleaned, lost>>
  /\ DispatchersUnchanged

\* Ctrl+C runs cleanup, which unlinks the NAME, whatever it refers to now;
\* before signal() has been called, and by SIGKILL, the worker just dies.  A
\* task it has received and not printed is gone in either case.
WorkerEnds(w) ==
  /\ wpc[w] # "off"
  /\ WorkerGoes(w, "off")
  /\ wq' = [wq EXCEPT ![w] = NoQueue]
  /\ lost' = lost \cup hand[w]
  /\ hand' = [hand EXCEPT ![w] = {}]
  /\ \/ UNCHANGED <<named, cleaned>>
     \/ wpc[w] # "opened" /\ named' = NoQueue /\ cleaned' = TRUE
  /\ UNCHANGED <<queue, processed, runs>>
  /\ DispatchersUnchanged

WorkerStep(w) == CatchesInterrupt(w) \/ Receive(w) \/ Prints(w) \/ Worked(w)

-----------------------------------------------------------------------------
(* task_dispatcher.c *)

WorkersUnchanged ==
  UNCHANGED <<named, wpc, wq, hand, priority, processed, runs, cleaned, lost>>

\* mq_open without O_CREAT fails if there is no queue; mq_send fails at once
\* if the task is too long or its priority out of range.
Opens(d) ==
  /\ dpc[d] = "idle"
  /\ \E to \in {"send", "failed"} :
       /\ named = NoQueue => to = "failed"
       /\ dpc' = [dpc EXCEPT ![d] = to]
  /\ dq' = [dq EXCEPT ![d] = named]
  /\ UNCHANGED queue
  /\ WorkersUnchanged

\* mq_send blocks while the queue is full.
HasRoom(q) == Len(queue[q]) < MaxMessages

\* mq_send, "Task sent successfully!".
Sends(d) ==
  /\ dpc[d] = "send"
  /\ HasRoom(dq[d])
  /\ queue' = [queue EXCEPT ![dq[d]] = Append(@, d)]
  /\ dpc' = [dpc EXCEPT ![d] = "sent"]
  /\ UNCHANGED dq
  /\ WorkersUnchanged

TaskNext ==
  \/ \E w \in Worker : WorkerOpens(w) \/ WorkerStep(w) \/ WorkerEnds(w)
  \/ \E d \in Dispatcher : Opens(d) \/ Sends(d)

\* Processes run and blocked calls return when they can; nothing is assumed of
\* the user, who starts and stops programs.
TaskFairness ==
  /\ \A w \in Worker : WF_taskVars(WorkerStep(w))
  /\ \A d \in Dispatcher : WF_taskVars(Sends(d))

TaskSpec == TaskInit /\ [][TaskNext]_taskVars /\ TaskFairness

-----------------------------------------------------------------------------
(* Properties. *)

Waiting(d)   == dpc[d] = "sent" /\ d \notin processed
Served(q)    == \E w \in Worker : wpc[w] # "off" /\ wq[w] = q
InQueue(d, q) == \E i \in DOMAIN queue[q] : queue[q][i] = d

\* Where tasks can be: until the first Ctrl+C in the queue with the name, where
\* the next worker and the next dispatcher look.
Reached == IF cleaned THEN Queue ELSE Queue \cap {named}

Opened   == cleaned \/ named # NoQueue
Accepted == {d \in Dispatcher : dpc[d] = "sent"}
InBox    == {d \in Dispatcher : \E q \in Reached : InQueue(d, q)}
InHand   == UNION {hand[w] : w \in Worker}

\* Dispatchers and workers implement a box of tasks that survives its users:
\* until the first Ctrl+C the most urgent task comes first, and a worker that is
\* killed loses the task it has received and not printed, and no other; a task
\* is never processed twice, not even while an unlinked queue and its successor
\* are both in use.
Box ==
  INSTANCE TaskBox WITH
    Task <- Dispatcher, opened <- Opened, closed <- cleaned, put <- Accepted,
    waiting <- InBox, held <- InHand, done <- processed, urgency <- priority
TasksSpec == Box!BoxSpec

\* A task that was sent is processed as long as a worker stays on its queue,
\* although more urgent ones overtake it; but the worker that takes it may be
\* killed before it has printed it.
SentIsProcessed ==
  \A d \in Dispatcher :
    (Waiting(d) /\ Served(dq[d])) ~> (d \in processed \cup lost \/ ~Served(dq[d]))

\* A dispatcher waits for ever for room only if no worker is left on its queue.
DispatcherReturns ==
  \A d \in Dispatcher : (dpc[d] = "send") ~> (dpc[d] # "send" \/ ~Served(dq[d]))
=============================================================================

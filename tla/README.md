# Verification of `minhanh1612/baitap`

The repository holds nine exercises in Linux system programming (`Baitap1`,
`baitap2` ... `baitap9`) and two versions of a peer-to-peer chat
(`mid_project`, `midProject_v2`). The chats are the programs with most state:
several threads, a shared table, descriptors that the kernel hands out again, peers
that come and go at any moment. They are modelled in most detail. Every exercise
that keeps or exchanges state is modelled too; what is left out is in section 5.

## 1. Inventory

| Part | State | Operations | What is hard |
|---|---|---|---|
| `mid_project/chat.c` | `conns[]`, `next_id`, `server_sock`, `server_running`, the descriptors, one `idx` per recv thread | `add_connection`, `find_slot_by_id`, `recv_handler`, `accept_thread`, `cmd_connect/send/terminate`, `cleanup_and_exit` | recv threads that outlive their connection, reuse of slots and descriptor numbers, a send that blocks with the mutex held, exit against accept |
| `midProject_v2` | `connections[]`, `next_id`, `listen_fd`, a descriptor copied into each receive thread | `add_connection`, `remove_connection_by_id`, `send_to_connection_id`, `connect_to_peer` (client.c), `server_listen_thread`, `stop_listen` (server.c), `receive_handler` (message.c), the commands (main.c) | two receive threads per connection, double closes, descriptors used after an unlock |
| `baitap4/main.c` | `counter`, `data`, `data_ready`, `shared_data`, two mutexes, a condition variable, a rwlock | increments; `producer`/`consumer`; `reader`/`writer` | an item lost, a consumer that waits for ever, increments that are a load and a store |
| `baitap5` | signal flags and counters | handlers, `alarm`, `kill`, `select` | signals lost, handler reset after one signal, flag tested before `select` |
| `baitap6` | sockets of eight client and server programs | one request, one reply | a lost datagram, order of start, an address left behind by a dead server |
| `baitap7` | POSIX message queue of ten messages | `task_dispatcher`, `task_worker`, `cleanup` | full queue, priorities, workers killed, a name that comes to mean another queue |
| `baitap8/mypipe.c` | a pipe and three processes | fork, dup2, close, exec, wait | end of file needs every write end closed |
| `baitap9` | shared memory object | producer writes, consumer reads and unlinks | reading before or while it is written, a name unlinked late |
| `baitap3/src` | processes | fork, wait, exec | child ends before or after `wait`; zombie, orphan |
| `Baitap1` | none (pure functions on strings) | `str_reverse`, `str_trim`, `str_to_int` | empty input, overflow |
| `baitap2` | none | one `lstat` | nothing |

How the parts of a chat interact. `main` reads commands; the accept (listen)
thread and `main` both enter connections in the table and each entry starts a
recv thread; the recv threads, `terminate` and `exit` take entries out. All of
them share the process's descriptor table, which the mutex does not protect: a
number is free for reuse the moment anyone closes it. Other processes (the
peers) connect, send and close whenever they like.

What makes a chat correct: an entry of the table stands for one connection and
owns its descriptor; descriptors are neither lost nor shared; every entry is
served by its thread; ids are never given out twice; a peer that has gone is
delisted and what it sent is read; nothing is dialed twice.

What makes the exercises correct: no increment is lost and no item taken twice;
every program that the kernel lets run ends, or what it waits for can be named; no
child stays a zombie; `wc` counts all that `ls` wrote; a task that was sent is not
lost while workers die and start again; what a producer finished writing stays whole;
the string functions do what their names say on every buffer.

## 2. Modules

| Module | Models |
|---|---|
| `Sockets` | external: what both chats need of the kernel |
| `ConnRegistry` | abstract specification of the connection table |
| `ChatV1`, `ChatV1Proofs` | `mid_project/chat.c`, over `Sockets` |
| `ChatV2`, `ChatV2Proofs` | `midProject_v2/src`, over `Sockets` |
| `TwoChats`, `TwoChatsProofs` | two processes of either chat connected to each other, with socket buffers |
| `Threads`, `ThreadsProofs` | `baitap4/main.c` |
| `Signals`, `SignalsProofs` | `baitap5`, four programs |
| `Exchange` | `baitap6`, four pairs of programs |
| `TaskBox` | abstract specification of the task queue |
| `TaskQueue` | `baitap7` |
| `Processes`, `ProcessesProofs` | `baitap3` and `baitap8` |
| `SharedProduct` | `baitap9` |
| `IpcProofs` | proofs about `Exchange`, `TaskQueue` and `SharedProduct` |
| `StrUtils`, `StrUtilsProofs` | `Baitap1` |
| `MCLocal` | for TLC: `Threads`, `Signals`, `Processes`, `StrUtils` side by side |
| `MCIpc` | for TLC: `Exchange`, `TaskQueue`, `SharedProduct`, `TwoChats` side by side |

### Sockets

A descriptor table `fdtab` from small numbers to endpoints, and for each TCP
endpoint whether it is waiting for accept, fresh, established or failed, how many
of the peer's messages are unread, whether the peer has closed (`eof`) and
whether a reset has come back (`rst`). Endpoints are numbered and never used
twice, so a property can say WHICH connection a descriptor names. Two facts about
Linux carry most of the results: `socket` and `accept` return the lowest free
number; and `close` frees the number at once while a `recv` in progress keeps the
connection itself alive and is not woken.

A `send` on a connection the peer has not left may return or block; how full the
buffers are is not counted here (`TwoChats` counts it). An accept takes the lowest free
number when it returns; Linux reserves it when the call starts, which the proofs do not
depend on: they use only that the number was free.

Left out: half-close, the datagram contents, descriptors 0..2 and, for `ChatV1`, the
listener's number.

### ChatV1

What runs between lock and unlock of `conns_mutex` is one action; each access made
without the mutex is an action of its own. The exception is `send` (chat.c:231), which
is called with the mutex held and may block: while main is in `"send"`, nobody else
gets the mutex (`MutexFree`), and only the peer ends it, by reading (`PeerReads`) or by
closing (`SendFails`).

| State | Code |
|---|---|
| `used`, `cid`, `cfd`, `addr`, `next_id` | `conns[i].used/id/sockfd/addr`, `next_id` |
| `rpc`, `rslot`, `rfd`, `rsock` | a recv thread's place, `idx`, `fd`, and the endpoint its recv is waiting on |
| `mpc`, `mfd`, `msock`, `mdest` | main's place, `sock` (or `s` in `get_my_ip`), its endpoint (or that of a blocked send), the typed address |
| `apc`, `afd`, `asock`, `aslot` | the accept thread's place, `clientfd`, its endpoint, `i` in `add_connection` |
| `server_running`, `listening`, `proc` | the flag; `server_sock` is open; the process |
| `home` | no variable of the program: the endpoint each id was given to |
| `seen`, `mseen` | no variables of the program: `next_id` at the duplicate check of the connection an id was given to (0: it was accepted), and at main's last check |

`Dest` are the addresses the user types, `Caller` those that incoming connections are
made from, which accept fills in and `add_connection` stores (chat.c:72); the two may
overlap, as a peer that is dialed may dial from the same address.

| Action | Code (`chat.c`) |
|---|---|
| `AddOk`, `AddFails` in `AccAdd`, `MainAdd` | `add_connection` 65-95: free slot; no slot, no thread, no memory |
| `RecvTop`, `RecvCall`, `RecvData`, `RecvEnd`, `RecvDrop` | `recv_handler` 107-143: read of the slot, recv started, data, end, close and free |
| `AccReturn`, `AccError`, `AccAdd`, `AccReport`, `AccDrop` | `accept_thread` 146-169; `AccReport` is `return conns[i].id`, read after the unlock |
| `CmdTerminate`, `CmdSend`, `SendFails` | 199-238, each under the mutex |
| `CmdMyIp`, `CmdConnect`, `CmdConnectNoProbe`, `SelfCheck`, `DupCheck`, `MainSocket`, `MainNoSocket`, `MainConnect`, `MainAdd`, `MainDrop` | `get_my_ip` 37-59, `cmd_connect` 241-295, in the order of the calls |
| `CmdExit`, `CloseListener`, `CloseConnections`, `Exit` | `cleanup_and_exit` 298-313 |
| `Peer`, `PeerReads` | the other processes |

`get_my_ip` is in the model because it opens a descriptor: a stale recv thread can
find the probe's socket under the number it was about to read from.

### ChatV2

The same conventions. A handler `<<t, 1>>` is the receive thread `add_connection`
starts for id `t`; `<<t, 2>>` is the second one, which the listen thread starts
(server.c:89). A handler's `recv` (`HandlerCall`, `HandlerData`, `HandlerEnd`),
its `remove_connection_by_id` (`HandlerRemove`) and its `close` (`HandlerClose`)
are separate steps, as are the lookup and the `send` of the send command
(`CmdSend`, `SendOut`, which may block, but with no lock held: `SendFails`,
`PeerReads`), the two statements of `stop_listen` (`StopListen`, `UnsetListen`) and the
start of accept, its return, its failure for want of a descriptor and the test of
`listen_fd` after an error (`ListenCall`, `ListenReturn`, `ListenStarved`,
`ListenError`). The listener has a
number in `fdtab` here, since double closes can hit it. `exit` removes the ids
below `ExitBound` (1000 in main.c), one per step, as each is its own critical
section.

### ConnRegistry and the refinements

`ConnRegistry` keeps a set of `<<id, connection>>` pairs and the last id. `Join`
gives a new connection the next id if there is room and it is not a member;
`Burn` is an attempt that used up an id; `Leave` and `Clear` remove. `RegistrySpec`
in `ChatV1` and `ChatV2` maps the slots in use to members and `next_id - 1` to
`last`: slots, descriptors, locks, threads and their races are hidden, and every
step of either program is a registry step or a stutter. A duplicate id, a
connection listed twice or an entry changed in place would break it.

### TwoChats

In `ChatV1` and `ChatV2` a send may block and the peer may do anything. In `TwoChats`
the peer is the same program, so that what unblocks a send is known. `waiting[p]` counts
what was sent to side `p` and not received, at most `Room`; `send` (`SendReturns`)
blocks at `Room`. Version 1 holds `conns_mutex` during `send` (chat.c:231) and its
receive thread takes it before every `recv` (chat.c:109), which is `RecvTop`'s guard;
version 2 sends after the unlock (client.c:83) and its receive thread never asks
(message.c). With version 1 both sides can block in `send` for ever, each with the mutex
its own receive thread needs: this state is reachable, and `BlockedTogether` says it is
the only way a send can block for good. `NobodyHangs` is the same fact as an invariant,
and can be proved: `CanReceive` says that a receive thread has something to do and need
not wait for a lock.

### Threads

| State | Code (`baitap4/main.c`) |
|---|---|
| `exercise` | which of bai1 to bai4 `main` is in, 5 after the last |
| `tpc`, `round` | a thread's place; rounds of its loop done |
| `inside` | the holders of the mutex (exercise 2) or the rwlock (exercise 4) |
| `reg`, `shared` | the two halves of `counter++` and `shared_data++` |
| `data_ready`, `lost` | the flag; a count of overwritten items, not in the program |

`Lock`, `Load`, `Store`, `Unlock` are the steps of `thread_func2`, `reader` and
`writer`. In exercise 3 everything is under `mutex3`, so `Produce` and `Consume` are
whole critical sections; `SpuriousWakeup` is what POSIX lets `pthread_cond_wait` do.

### Signals

`program` says which of the four programs runs. `handled`, `pending` are the
signals with a handler and the signals sent and not delivered (a set: they do not
queue). `Deliver` removes the handler for the programs that call `signal()`: the
Makefile and `_POSIX_C_SOURCE` make it System V's. `Test`, `Sleep`, `Wake`, `Echo` are
the loop of `ex4`, with a signal possible between the test of `got_sigterm` and
`select`; `Parent` is the parent of `ex3`. `ex1` is modelled without the stray word on
its line 29, which keeps it from compiling.

### Processes

`exe` says which of `process1`, `process2`, `zombie`, `orphan`, `mypipe` runs. `pstep`
is the parent's place, `kid` and `code` the children's states (a zombie between its exit
and the wait that collects it) and exit statuses, `rd` and `wr` the processes that hold
the ends of the pipe. `fork`, `pipe` and `execlp` may fail. `ls` and `wc` are external:
one writes the `listing` lines it has, waits when the pipe is full and may be killed by
SIGPIPE, the other reads to the end of file. `orphan.c` is modelled with the brace its
line 19 lacks.

### Exchange

`family` and `kind` say which of the four pairs runs; `spc` and `cpc` are the
server's and the client's places. The server may be interrupted at any step and
started again; `addr` and `timewait` say what it leaves behind (a path; a port in
TIME_WAIT). `Sent` lets UDP lose a datagram. Results of `send`, `read` and `recvfrom`
are ignored by the programs, and so are failed sends by the model. What a datagram
program prints may be garbled, for its buffer is neither zeroed nor terminated.

### TaskQueue

The name `/my_task_queue` refers to one queue at a time (`named`); every queue ever
created keeps its tasks for those who have it open (`queue`, `wq`, `dq`). `Receive`
(mq_receive, task_worker.c:47) takes the first of the most urgent tasks into the
worker's hand (`hand`) and `Prints` (line 50) processes it; `Sends` blocks at
`MaxMessages`. `WorkerEnds` is both a kill, at any step, and Ctrl+C, whose handler
unlinks the name whatever it refers to by then; what the worker has received and not
printed is gone. `cleaned` and `lost` are history variables: whether a handler has
unlinked the name, and the tasks that went with a worker. Message lengths are
left out.

`TaskBox` is what they implement (`TasksSpec`): `Put` adds a task to a box that has been
opened, `Take` takes one out into somebody's hand, a most urgent one until the box is
closed, and none twice; `Finish` processes a task in hand, `Lose` drops one, and nothing
drops a task that waits. Until the first Ctrl+C the box is the queue with the name,
afterwards all queues. The end of a worker with nothing in hand, an opening by a further
worker and all else is a stutter. That tasks wait for ever in a
queue without workers after the closing is what the program does: the box keeps them.

### SharedProduct

Objects are numbered as they are created; `shmName` is the one the name refers to.
Each producer creates or opens, sizes, and writes field by field in any order
(the stores of another process have no order the reader could rely on); each consumer
opens, reads field by field, and unlinks the name. Reading an object that has no size
yet kills the consumer (SIGBUS).

### StrUtils

A C string is a piece of memory of `Size` characters with a NUL somewhere. The
three functions are written as the code's loops, including the copy of `str_trim`
within one array and the wrap of `temp` in `str_to_int`; the properties compare them
with reference definitions on sequences (`Text`, `Readings`, `Number`). The loops are
recursive functions, not `RECURSIVE` operators, so that they can be proved about.
`Number` itself is checked in `MCLocal` (`NumberIsPositional`) against the sum of the
digits times their powers of ten. `Space` stands for every character that `isspace`
accepts.

### The mode modules

The exercises share nothing, so `MCLocal` and `MCIpc` put several modules into one
run: `mode` is chosen in the initial state, the modules of other modes do not move,
and each keeps its own initial states, next-state relation and fairness. A property
of one module is checked in that module's behaviours; in the others it is about
variables that stay at an initial value.

## 3. Runs

Bounds of the chats: `MaxConn` slots (100 in the code), `MaxSock` connections in a
behaviour, `MaxFd + 1` descriptor numbers, `MaxQueue` unread messages per connection.
Ids are bounded by `MaxSock`: every id costs a connection.

| Run | Instance | Distinct states | Shows |
|---|---|---|---|
| `ChatV1_table` | 2 slots, 2 connections, 4 numbers, queue 1; two destinations, one the own address; two callers' addresses, one of them a destination | 6.0 million | the invariants below and the refinement, with commands, blocked sends, failures and exit interleaved |
| `ChatV1_live` | 2 slots, 2 connections, 2 numbers, queue 1, accepted connections only, fair | 165 thousand | a closed peer is delisted; listed messages are read; unless main stays in a send for ever |
| `ChatV2_table` | 1 slot, 2 connections, 4 numbers, queue 1 | 4.1 million | full table, double closes, reuse of the listener's number; no leak, a live handler per entry, refinement |
| `ChatV2_live` | 1 slot, 2 connections, ONE number, queue 1, fair | 134 thousand | when a handler ends |
| `Local` | 3 counters of 2 rounds, 3 items, 2 readers, 2 writers; 3 signals, 3 shots, 2 lines; 3 lines of output, a pipe of 2; buffers of 5 | 23.8 thousand | the exercises of one machine |
| `Ipc` | 3 starts of a server; 3 dispatchers, 2 workers, 2 runs, 2 priorities, room for 2; 2 producers, 2 consumers, 2 fields; two chats with buffers of 2 | 171 thousand | the exercises of cooperating programs; of two chats: sends return, or both block, exit is seen, nobody waits for nobody |

The six runs that must be violated are in a table of their own below. Every run takes
less than three minutes on two cores.

Why these bounds are enough to be interesting. Two connections in one slot are the
smallest instance in which a slot is reused while the old recv thread is still there,
and two slots the smallest with interference of neighbours, and with one address listed
twice; `ChatV1_table` has both. In `ChatV1_live` the second slot lets a send block on
one connection while the other's peer closes; a connection's own thread depends on
nobody else, so a third one adds only further stale threads. With three connections
that share one slot and send nothing (`MaxSock` 3, `MaxConn` 1, `MaxQueue` 0)
`PeerCloseDelists` of the first program and `HandlerEndsOrStrays` of the second hold
too; this takes TLC ten and eighteen minutes and is not kept as a run.
In `ChatV2_table` the single slot makes the table full as soon as one connection is
listed. Two numbers suffice for the reuse of a descriptor; the others are needed for
get_my_ip's socket, the listener and a connection in transit. In `ChatV2_live` the
single number goes first to the listener and then from connection to connection, so
stale handlers always stray to whoever has it now.
One queued message separates data from end-of-file; a second changes nothing, since
one recv takes them all. `ExitBound` 2 lets the loop of exit pass one id that exists
and leaves one it never reaches.

In the second program two connections hide what three show: with a third one that gets
the number of the second, the second's own handlers receive on the third, and a peer
that has closed stays listed and what it sent unread (`ChatV2_stays_listed`). That a
peer's end is noticed is therefore a property of the first program only. The safety
theorems hold for any number of connections.

In `TwoChats` two places let one side be ahead while the other's buffer is full. In
`Local` three items let an item be overwritten and the consumer go on; two rounds under
a mutex are the least that can lose an increment of an earlier round; five characters
hold a sign, digits beyond `IntMax` and spaces on both sides, and `IntMax` 19 with
digits 0, 1 and 5 has numbers of one, two and three digits on both sides of the limit,
and leading zeros. In `Ipc` two runs of workers give a second queue; room for two
messages makes the third dispatcher block and lets an urgent task overtake; two
consumers are needed for a late unlink.

Safety properties of `ChatV1`:

- `TableMatchesDescriptors`: an entry's descriptor names the connection its id was
  given to, whatever stale threads close;
- `DescriptorsOwned`: an open descriptor belongs to exactly one of the table, main
  and the accept thread;
- `ServedByOwnThread`: an entry's own thread is at work on it;
- `NoDuplicateDestination`: check, connect and entry are three critical sections, and
  between them the accept thread may enter a connection from the very address that is
  being dialed. The address is then listed twice; this is the only way it can be: of two
  entries with one address, one dialed, the other was accepted, and entered after the
  check of the first;
- `GoodbyeLeavesAccepted`: when exit says that all connections are closed, only what
  the accept thread holds or has added since its loop can be open;
- `AnnouncedIdIsOwn`: the id read after the unlock (chat.c:90) is the connection's own
  as long as that connection is in the table. The stronger statement, that it is always its own,
  is false: the connection may have ended and its slot have been given away;
- `IInv`: the invariant the proofs use, `TypeOK` among its conjuncts.

Of `ChatV2`: `DescriptorsAccounted` (no leak) and `ListedHasHandler` (the thread that
will take the entry out is alive), and the `IInv` of its own proofs. The stronger
properties of the first program do not hold of the second (`ChatV2_double_close`).

Liveness of the first: `PeerCloseDelists` and `MessagesAreRead` although stale threads
compete for the connection. Both carry a premise, that main is not for ever in a send
whose peer neither reads nor closes (`SendStuck`): such a send keeps the mutex, and
with it every recv thread, so that without the premise both are false. Of the
second: `HandlerEndsOrStrays`, a handler whose peer has gone ends, or is found receiving
on a connection that was given its number.

Of the exercises: `EveryIncrementCounts`, `ReadStaysTrue`, `NothingTakenTwice`,
`ThreadsEnd` (baitap4: only an overwritten item can keep the program from returning);
`ParentFinishes`, `QuitsAtNextInput` (baitap5); `WcCountsAll`,
`ProcessesEnd` (baitap3, baitap8); `ReverseReverses`, `TrimTrims`, `ParsesExactly`
(Baitap1); `StartsAgain`, `ClientEndsUnlessLost` (baitap6); `TasksSpec`,
`SentIsProcessed`, `DispatcherReturns` (baitap7); `PrintsWhatWasWritten`,
`NameLostUnread` (baitap9). Of two chats: `SendAlwaysReturns`, `BlockedTogether`,
`ExitIsSeen`, `NobodyHangs`. Each is stated in words where it is defined.

Runs that must be violated state what the program's text says and the code does not
do. Each has a finding in `PROJECT.json`.

| Run | The text | The code |
|---|---|---|
| `ChatV1_wrong_drop` | chat.c:134, "has disconnected" | a healthy connection is closed |
| `ChatV1_malloc` | chat.c:21, 0 free, 1 occupied | after a failed malloc the slot stays occupied by a closed descriptor |
| `ChatV2_double_close` | message.c:26, its own connection | closes somebody else's descriptor |
| `ChatV2_stays_listed` | message.c:26, "peer closed or error", "remove from connection list" | a connection whose peer has closed stays listed, its handlers receiving on another one |
| `Signals_oneshot` | ex1:27, "up to 3 times"; ex2:28, stops after 10 seconds; ex3:33, five signals | the handler is good for one signal, and the second one kills the program |
| `Signals_sigterm` | ex4:47, SIGTERM to quit | one that comes just before `select` does not end it until the next input or signal |

Further things the text says and the code does not do follow from a line or two and
have no run: the announced id and the goodbye of the first program, see above; an
address can be in its table twice (chat.c:265), see above; a
failed send is reported (chat.c:232), but SIGPIPE ends the process; connect 127.0.0.1
with the own port passes the self check (chat.c:248); the second program starts two
receive threads for an accepted connection (server.c:89); its send may reach another
connection, since the descriptor is used after the unlock (client.c:83); its `exit`
leaves connections accepted during its loop (main.c:109); it says it is listening
before bind is tried (main.c:30).

Fairness. `FairSpec` of the chats: weak fairness of each recv thread, of the accept
thread and of main once a command has been given. The scheduler runs every thread that
can run, and recv, accept and connect return when they can. In the first chat the steps
of a recv thread that take the mutex (`RecvTop`, `RecvDrop`) are strongly fair: the
mutex is taken and given back by one command after the other, at the pace of a user who
types, and a thread that waits for it is served in between. Nothing is assumed of the
user, who may type nothing, nor of the peers, who may stay silent and need not read:
`PeerReads` and `Peer` have no fairness, and a send may block for ever. `TwoChats`
assumes strong fairness of the receive threads for the same reason: they compete for the
mutex with a main thread that gives it up for as long as its user takes to type, so they
cannot be kept from it by commands for ever. The exercises assume weak fairness of every
thread and process that can run, of the delivery of pending signals, of the alarm, of
init's wait; nothing of users, spurious wakeups or the network. In `Threads` the locks
need no fairness because every loop is finite.

Deadlock is checked for the chats, whose terminated process stutters (`Terminated`).
It is not for `Local`, `Ipc` and the two runs of `Signals`: there programs
end, and some may rightly wait for ever (both sends of version 1, a datagram client, a
worker without tasks); the liveness properties say which.

The operators `X_Bug...` are wrong versions of `X`, each a plausible slip; no
definition uses them. Every property of every passing run fails when one of them takes
the place of `X`.

## 4. What is proved

All theorems are for every value of the constants that the named assumptions allow
(`SocketsAssumption`, `ChatV1Assumption`, `ChatV2Assumption`, `ThreadsAssumption`,
`SignalsAssumption`, `ProcessesAssumption`, `ExchangeAssumption`,
`TaskQueueAssumption`, `StrUtilsAssumption`, `TwoChatsAssumption`).

| Theorem | Statement | Further assumption |
|---|---|---|
| `ChatV1Inductive` | `Spec => []IInv` | `~MallocMayFail` |
| `ChatV1Types`, `ChatV1Table`, `ChatV1Descriptors`, `ChatV1Served` | `[]TypeOK`, `[]TableMatchesDescriptors`, `[]DescriptorsOwned`, `[]ServedByOwnThread` | `~MallocMayFail` |
| `ChatV1Destinations`, `ChatV1Goodbye` | `[]NoDuplicateDestination`, `[]GoodbyeLeavesAccepted` | `~MallocMayFail` |
| `ChatV1Registry` | `Spec => RegistrySpec` | `~MallocMayFail` |
| `ChatV1Announced` | `Spec => AnnouncedIdIsOwn` | `~MallocMayFail` |
| `ChatV2Inductive` | `Spec => []IInv` | |
| `ChatV2Types`, `ChatV2Descriptors`, `ChatV2Handlers` | `[]TypeOK`, `[]DescriptorsAccounted`, `[]ListedHasHandler` | |
| `ChatV2Registry` | `Spec => RegistrySpec` | |
| `ThreadsReads`, `ThreadsItems`, `ThreadsCount` | `[]ReadStaysTrue`, `[]NothingTakenTwice`, `[]EveryIncrementCounts` | |
| `SignalsOneShot` | `[]SecondSignalKills`: a program that calls `signal()` handles one signal and never reaches its own exit | `Times > 1` |
| `PipeCountsAll` | `[]WcCountsAll` | |
| `ExchangeStarts` | `[]StartsAgain` | |
| `ThreadsGoOn` | `[]OnlyLossStops`: some thread can run, or an item has been overwritten | |
| `ProcessesGoOn` | `[]NobodyWaitsInVain`: some process can run, or all have ended | |
| `TaskCrash` | `[]CrashLosesAtMostOne`: no more tasks are lost than workers have ended, and until the first Ctrl+C every other task sent and not processed is in a worker's hand or waits in the queue with the name | |
| `TaskRefines` | `TaskSpec => TasksSpec` | |
| `ProductNameLost`, `ProductWhole` | `[]NameLostUnread`, `PrintsWhatWasWritten` | |
| `StrReverse`, `StrTrim`, `StrToInt` | `StrSpec => []ReverseReverses`, `[]TrimTrims`, `[]ParsesExactly` | |
| `ChatsNobodyHangs` | `ChatsSpec => []NobodyHangs` | |

**First chat.** With a malloc that fails the table is broken (`ChatV1_malloc`), hence
the assumption. None of the safety properties is inductive. A recv thread may close its
slot's descriptor and delist it only because the slot's entry owns it; the entry owns
it only because what main and the accept thread hold is disjoint from the table
(`DescriptorsOwned`) and is what they think it is (`HeldNamed`); the new entry's id has
no thread yet only because ids are given out in order (`IdsGiven`). A thread in recv on
its own connection can end only by end-of-file, since the connection is established
(`EndpointStates`), and no second descriptor names it (`OneDescriptorEach`). `IInv` is
the conjunction; `ChatV1_table` checks it before it is proved. The proof has three
parts, each with one lemma per action or group of actions: the types; the table with
its recv threads; the descriptors in hand with the endpoints. A lemma says that an
action which leaves a group of variables alone preserves what is said of them.

`DestInv` adds that an entry with the address main is dialing was accepted, and
entered after main's duplicate check (`SinceCheck`): its id is not below the first one
that was free at the check, for ids come in order. `ReportInv` says that between the unlock
and the read of the id the accepted connection is in its slot or in none. The
refinement maps each of the four things a step can do to the table (`TableSteps`) to
`Join`, `Burn`, `Leave` or `Clear`; that a connection is entered once rests on
`DescriptorsOwned`.

**Second chat.** Descriptors are closed twice and closed under others' feet, so nothing
like `TableMatchesDescriptors` holds. What does hold is weaker and needs weaker
invariants. `DescInv`: every open descriptor is in somebody's hands; a listener being
opened is nobody's yet, and while exit has closed the listener its number accounts for
nothing. `TableInv`: ids are in order and belong to one entry each, so a handler ends only
with its own entry. For the refinement, `ListInv` (entries have different, established
connections) and `HandsInv` (what main and the listen thread are about to enter is in
nobody's hands and not listed): an endpoint is never used twice, so a wrong close can
free its number but not bring it back. `IInv`
is the conjunction with the types, and `ChatV2_table` checks it.

**Exercises.** `Threads`: mutual exclusion (`Locked`) makes a load and its store one
step; the sum of the rounds done is the cardinality of a set of pairs (`Added`,
`Written`), since the sum itself would need induction over the threads. `Signals`:
`OneShot`, a handler exists only before the first delivery. `Processes`: `ls` holds the
write end until it ends, and no line is outside pipe and count. `ThreadsGoOn` and
`ProcessesGoOn` are the safety side of `EndsUnlessLost` and `EverythingEnds`. In
`Threads` the holder of a lock never waits itself, and the consumer never waits while an
item is ready (`GoInv`): flag and wait are one critical section, so no signal falls
between them. In `Processes` the waits would close a circle if somebody kept an end of
the pipe: `Ends` says who holds which end until when, so that a full pipe has `wc` to
read it, an empty one ends when `ls` does, and the parent always has a child it waits
for (`Children`). That one of those who can run does is fairness, and stays with TLC.
`Exchange`: `PortInv`, only a TCP connection leaves TIME_WAIT. `TaskQueue`: a task waits
in one place of one queue, then is in one worker's hand (`OnePlace`); each end of a
worker adds what is in its hand, one task at most, to the lost ones (`LostFew`); and
until a cleanup all processes have the same queue open, which holds all tasks that wait
(`OneQueue`, `NothingElseLost`). With lemmas on what taking a place out of a sequence
and appending to it do to what it holds (`RemoveOne`, `AppendOne`), every action is a
step of the box or a stutter. `SharedProduct`: an object lost its name to a consumer of
its own that is done, or to the second consumer of an earlier one (`Unlinked`); what a
producer has behind it stays (`Filled`).

**Two chats.** A send that waits for room must be waiting for a thread that can go on.
The receive thread of a side that has not ended is in its loop, or has seen the other
side's end, or is done and has taken the connection out (`LeavesInTime`): a receive
thread that left its loop while the other side is still there would be the one a full
buffer waits for in vain.

**String library.** The three theorems hold for a buffer of any size and any `IntMax`
that `long` can pass by one digit. The induction theorems of the library take an
operator as a parameter, which the provers cannot instantiate, so induction is stated
over a set: `InductionUpTo` says that a subset of `0..n` with 0 and closed under
successor is all of it, and follows from the least element of the complement
(`LeastNat`). `LoopExists` shows with it that a loop written as a recursive function
exists and satisfies its equations; each loop then has an invariant proved the same
way. For `str_reverse`: after i rounds the first and last i characters are swapped, the
rest and everything from the terminator on are as before. For `str_trim`: after i rounds
the first i characters are those from `start` on, and from i on nothing has changed,
which is why copying upwards within one array is safe. For `str_to_int`: as long as no
earlier value was above `IntMax`, `temp` is the number written so far and does not wrap;
numbers only grow with further digits, so that stopping at the first value that is too
great is the same as comparing the whole number. That a text has at most one reading
is part of the proof.

Only model-checked: liveness, which the proof system does not treat.

## 5. Not modelled

- Printing, argument parsing, `atoi`, message text and its length check, `help`,
  `list`, `myport`: no state.
- `midProject_v2/src/utils.c`: help text and a query of the interfaces, without state.
- `baitap2`: one `lstat` and its output.
- In the second chat `malloc` returning NULL, which is dereferenced at once
  (client.c:37, server.c:86).
- The startup failures of both chats before any thread exists (`return 1`).
- Lengths and contents of messages: the byte written past a full-sized task
  (task_worker.c:49) and the unterminated datagrams of `baitap6` are undefined
  behaviour of a single statement.
- The order in which the chats' peers' bytes arrive, and short writes.
- NULL arguments of the string functions, which they refuse.

## 6. Plan

What could be added:

1. A third connection in `ChatV1_live` and `ChatV2_live`, if the state space can be cut
   by symmetry of the connections (the order of `nsock` prevents it now).
2. The table of `ChatV1` inside `TwoChats`, so that a connection can be terminated by
   one side while the other sends.
3. The safety side of the liveness properties of `Exchange`, `TaskQueue` and
   `Signals`, as `ThreadsGoOn` and `ProcessesGoOn` are for the others: in every state
   that is not an end, or a wait the programs mean, somebody can step.

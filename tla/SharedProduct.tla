--------------------------- MODULE SharedProduct ---------------------------
(***************************************************************************)
(* baitap9: posix_shm_producer.c puts a product into POSIX shared memory,  *)
(* posix_shm_consumer.c prints it and removes the name.  Nothing orders    *)
(* the two: a consumer can find no object, an object that has no size yet, *)
(* or a product half written.  Each producer and consumer runs once.       *)
(* The accesses to the product are plain loads and stores of different     *)
(* processes: their order is not defined and is left open here.            *)
(***************************************************************************)
EXTENDS Integers

CONSTANTS
  Producer, Consumer,   \* processes
  Field                 \* fields of a product (id, name, price)

VARIABLES
  shmName,       \* the object /my_shared_mem refers to; 0: none
  objects,       \* objects created so far
  sized,         \* objects ftruncate has given their size
  written,       \* fields written, of each object
  ppc, pobj,     \* producer: "open", "truncate", "write", "done", "failed"
  todo,          \* fields it has not written yet
  kpc, kobj,     \* consumer: "open", "read", "unlink", "done", "failed", "killed"
  unread, seen  \* fields it has not read yet; fields whose value it got

shmVars == <<shmName, objects, sized, written, ppc, pobj, todo,
             kpc, kobj, unread, seen>>

ShmInit ==
  /\ shmName = 0 /\ objects = 0 /\ sized = {} /\ written = <<>>
  /\ ppc = [p \in Producer |-> "open"] /\ pobj = [p \in Producer |-> 0]
  /\ todo = [p \in Producer |-> Field]
  /\ kpc = [c \in Consumer |-> "open"] /\ kobj = [c \in Consumer |-> 0]
  /\ unread = [c \in Consumer |-> Field] /\ seen = [c \in Consumer |-> {}]

-----------------------------------------------------------------------------
(* The producer.  Its failed calls only end it; there is nothing to undo. *)

ProducerGoes(p, to) == ppc' = [ppc EXCEPT ![p] = to]
ConsumersUnchanged == UNCHANGED <<kpc, kobj, unread, seen>>

Erased_BugTruncate(o) == {}   \* O_TRUNC
Erased(o) == written[o]       \* O_CREAT leaves an object that exists as it is

\* shm_open with O_CREAT.
ShmCreate(p) ==
  /\ ppc[p] = "open"
  /\ IF shmName = 0
     THEN /\ objects' = objects + 1
          /\ shmName' = objects + 1
          /\ written' = [o \in 1 .. objects + 1 |-> IF o > objects THEN {} ELSE written[o]]
     ELSE /\ written' = [written EXCEPT ![shmName] = Erased(shmName)]
          /\ UNCHANGED <<objects, shmName>>
  /\ pobj' = [pobj EXCEPT ![p] = shmName']
  /\ ProducerGoes(p, "truncate")
  /\ UNCHANGED <<sized, todo>>
  /\ ConsumersUnchanged

\* ftruncate and mmap.
Truncate(p) ==
  /\ ppc[p] = "truncate"
  /\ sized' = sized \cup {pobj[p]}
  /\ ProducerGoes(p, "write")
  /\ UNCHANGED <<shmName, objects, written, pobj, todo>>
  /\ ConsumersUnchanged

WriteField(p, f) ==
  /\ ppc[p] = "write"
  /\ f \in todo[p]
  /\ written' = [written EXCEPT ![pobj[p]] = @ \cup {f}]
  /\ todo' = [todo EXCEPT ![p] = @ \ {f}]
  /\ ProducerGoes(p, IF todo[p] = {f} THEN "done" ELSE "write")
  /\ UNCHANGED <<shmName, objects, sized, pobj>>
  /\ ConsumersUnchanged

ProducerFails(p) ==
  /\ ppc[p] \in {"open", "truncate", "write"}
  /\ todo[p] = Field
  /\ ProducerGoes(p, "failed")
  /\ UNCHANGED <<shmName, objects, sized, written, pobj, todo>>
  /\ ConsumersUnchanged

-----------------------------------------------------------------------------
(* The consumer. *)

ConsumerGoes(c, to) == kpc' = [kpc EXCEPT ![c] = to]
MemoryUnchanged == UNCHANGED <<objects, sized, written, ppc, pobj, todo>>

Missing_BugGoesOn == "unlink"   \* no exit(1) after shm_open
Missing == "failed"

\* shm_open without O_CREAT, and mmap.
ShmOpen(c) ==
  /\ kpc[c] = "open"
  /\ kobj' = [kobj EXCEPT ![c] = shmName]
  /\ ConsumerGoes(c, IF shmName = 0 THEN Missing ELSE "read")
  /\ UNCHANGED <<shmName, unread, seen>>
  /\ MemoryUnchanged

\* printf's arguments; a mapping of an object without size raises SIGBUS.
ReadField(c, f) ==
  /\ kpc[c] = "read"
  /\ f \in unread[c]
  /\ IF kobj[c] \in sized
     THEN /\ unread' = [unread EXCEPT ![c] = @ \ {f}]
          /\ seen' = [seen EXCEPT ![c] = @ \cup (written[kobj[c]] \cap {f})]
          /\ ConsumerGoes(c, IF unread[c] = {f} THEN "unlink" ELSE "read")
     ELSE /\ ConsumerGoes(c, "killed")
          /\ UNCHANGED <<unread, seen>>
  /\ UNCHANGED <<shmName, kobj>>
  /\ MemoryUnchanged

\* munmap, close and shm_unlink of the NAME, whatever it refers to now.
Unlink(c) ==
  /\ kpc[c] = "unlink"
  /\ shmName' = 0
  /\ ConsumerGoes(c, "done")
  /\ UNCHANGED <<kobj, unread, seen>>
  /\ MemoryUnchanged

ShmNext ==
  \/ \E p \in Producer : ShmCreate(p) \/ Truncate(p) \/ ProducerFails(p)
  \/ \E p \in Producer, f \in Field : WriteField(p, f)
  \/ \E c \in Consumer : ShmOpen(c) \/ Unlink(c)
  \/ \E c \in Consumer, f \in Field : ReadField(c, f)

ShmSpec == ShmInit /\ [][ShmNext]_shmVars

-----------------------------------------------------------------------------
(* Properties. *)

\* Once some producer has finished with an object, every field a consumer of
\* it reads from then on is there: a second producer that opens, sizes and
\* fills the same object meanwhile takes nothing away.
PrintsWhatWasWritten ==
  [][\A c \in Consumer, f \in Field :
       ReadField(c, f) /\ (\E p \in Producer : pobj[p] = kobj[c] /\ ppc[p] = "done")
         => f \in seen'[c]]_shmVars

\* An object can lose its name before any consumer has opened it, but only to
\* a late unlink of an EARLIER object that two consumers had open.
NameLostUnread ==
  \A o \in 1 .. objects :
    \/ o = shmName
    \/ \E c \in Consumer : kobj[c] = o
    \/ \E c, k \in Consumer : c # k /\ kobj[c] = kobj[k] /\ kobj[c] \in 1 .. o - 1
=============================================================================

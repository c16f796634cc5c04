----------------------------- MODULE IpcProofs -----------------------------
(***************************************************************************)
(* Theorems about the programs that exchange data through the kernel:      *)
(* Exchange for every number of starts of the server, SharedProduct for    *)
(* every number of producers, consumers and fields, TaskQueue for every    *)
(* number of dispatchers, workers, restarts and places in the queue.       *)
(***************************************************************************)
EXTENDS Exchange, TaskQueue, SharedProduct, SequenceTheorems, FiniteSetTheorems,
        TLAPS

-----------------------------------------------------------------------------
(* Exchange *)

\* Only a stream has a connection, and only a TCP connection leaves its port in
\* TIME_WAIT; without TIME_WAIT no start fails.
PortInv ==
  /\ conn # "none" => kind = "stream"
  /\ spc = "accept" => kind = "stream"
  /\ timewait => family = "inet" /\ kind = "stream"
  /\ StartsAgain
  /\ timewait \in BOOLEAN
  /\ kind \in {"stream", "dgram"}

LEMMA PortServer ==
  ASSUME PortInv, ServerStart \/ ServerStep \/ Interrupt \/ TimeWaitOver
  PROVE  PortInv'
<1>1. CASE ServerStart
  BY <1>1 DEF PortInv, StartsAgain, ServerStart, CanBind
<1>2. CASE Accept
  BY <1>2 DEF PortInv, StartsAgain, Accept, ServerUnchanged
<1>3. CASE ServerReads
  BY <1>3 DEF PortInv, StartsAgain, ServerReads, ServerUnchanged
<1>4. CASE ServerSends
  BY <1>4 DEF PortInv, StartsAgain, ServerSends, ServerUnchanged
<1>5. CASE ServerCloses
  <2>1. UNCHANGED <<family, kind>> /\ spc' = "idle"
    BY <1>5 DEF ServerCloses, ServerUnchanged
  <2>2. conn' # "none" => kind = "stream"
    BY <1>5 DEF ServerCloses, PortInv
  <2>3. timewait' \in BOOLEAN /\ (timewait' => family = "inet" /\ kind = "stream")
    BY <1>5 DEF ServerCloses
  <2> QED BY <2>1, <2>2, <2>3 DEF PortInv, StartsAgain
<1>6. CASE Interrupt
  <2>1. UNCHANGED <<family, kind>> /\ spc' = "idle"
    BY <1>6 DEF Interrupt, ServerUnchanged
  <2>2. conn' # "none" => kind = "stream"
    BY <1>6 DEF Interrupt, PortInv
  <2>3. timewait' \in BOOLEAN /\ (timewait' => family = "inet" /\ conn = "open")
    BY <1>6 DEF Interrupt
  <2> QED BY <2>1, <2>2, <2>3 DEF PortInv, StartsAgain
<1>7. CASE TimeWaitOver
  BY <1>7 DEF PortInv, StartsAgain, TimeWaitOver, ServerUnchanged
<1> QED BY <1>1, <1>2, <1>3, <1>4, <1>5, <1>6, <1>7 DEF ServerStep

LEMMA PortClient ==
  ASSUME PortInv, ClientStart \/ ClientStep \/ ClientInterrupt
  PROVE  PortInv'
<1>1. UNCHANGED <<family, kind, spc, timewait>>
  BY DEF ClientStep, ClientStart, ClientSends, ClientReads, ClientInterrupt, ClientUnchanged
<1>2. conn' = conn \/ kind = "stream"
  BY DEF PortInv, ClientStep, ClientStart, ClientSends, ClientReads, ClientInterrupt
<1> QED BY <1>1, <1>2 DEF PortInv, StartsAgain

\* baitap6: a server of any of the four pairs that cannot bind its address is
\* an IPv4 stream server; nothing a dead server left behind stops the others.
THEOREM ExchangeStarts == ExchangeSpec => []StartsAgain
<1>1. ExchangeInit => PortInv
  BY DEF ExchangeInit, PortInv, StartsAgain
<1>2. PortInv /\ [ExchangeNext]_exchangeVars => PortInv'
  <2>1. CASE UNCHANGED exchangeVars
    BY <2>1 DEF exchangeVars, PortInv, StartsAgain
  <2> QED BY <2>1, PortServer, PortClient DEF ExchangeNext
<1>3. PortInv => StartsAgain
  BY DEF PortInv
<1> QED BY <1>1, <1>2, <1>3, PTL DEF ExchangeSpec

-----------------------------------------------------------------------------
(* SharedProduct *)

ShmTypes ==
  /\ objects \in Nat
  /\ shmName \in {0, objects}
  /\ sized \subseteq Nat
  /\ written \in [1 .. objects -> SUBSET Field]
  /\ ppc \in [Producer -> {"open", "truncate", "write", "done", "failed"}]
  /\ pobj \in [Producer -> 0 .. objects]
  /\ todo \in [Producer -> SUBSET Field]
  /\ kpc \in [Consumer -> {"open", "read", "unlink", "done", "failed", "killed"}]
  /\ kobj \in [Consumer -> 0 .. objects]
  /\ unread \in [Consumer -> SUBSET Field]
  /\ seen \in [Consumer -> SUBSET Field]

\* What a producer has behind it is done to its object, and stays done.
Filled ==
  \A p \in Producer :
    /\ ppc[p] \in {"truncate", "write", "done"} =>
         pobj[p] # 0 /\ Field \ todo[p] \subseteq written[pobj[p]]
    /\ ppc[p] \in {"open", "truncate"} => todo[p] = Field
    /\ ppc[p] \in {"write", "done"} => pobj[p] \in sized
    /\ ppc[p] = "done" => todo[p] = {}

\* An object lost its name to a consumer of its own that is done, or to the
\* second consumer of an earlier one.
Late(o) == \E c, k \in Consumer : c # k /\ kobj[c] = kobj[k] /\ kobj[c] \in 1 .. o - 1

Unlinked ==
  /\ \A c \in Consumer : kpc[c] \in {"read", "unlink"} => kobj[c] # 0
  /\ \A c \in Consumer : kpc[c] = "open" => kobj[c] = 0
  /\ \A o \in 1 .. objects :
       \/ o = shmName
       \/ \E c \in Consumer : kobj[c] = o /\ kpc[c] = "done"
       \/ Late(o)

ShmInv == ShmTypes /\ Filled /\ Unlinked

LEMMA ShmInvInit == ShmInit => ShmInv
<1> SUFFICES ASSUME ShmInit PROVE ShmInv
  OBVIOUS
<1>1. ShmTypes
  BY DEF ShmInit, ShmTypes
<1>2. Filled
  BY DEF ShmInit, Filled
<1>3. Unlinked
  BY DEF ShmInit, Unlinked
<1> QED BY <1>1, <1>2, <1>3 DEF ShmInv

-----------------------------------------------------------------------------
(* Producers. *)

\* The consumers' part is about what the producers leave alone, but for a new
\* object, which has the name.
LEMMA ProducerUnlinked ==
  ASSUME ShmTypes, Unlinked, UNCHANGED <<kpc, kobj>>,
         \/ UNCHANGED <<objects, shmName>>
         \/ shmName = 0 /\ objects' = objects + 1 /\ shmName' = objects + 1
  PROVE  Unlinked'
<1>1. \A o \in 1 .. objects' : o \in 1 .. objects \/ o = shmName'
  BY DEF ShmTypes
<1>2. \A o \in 1 .. objects : o = shmName => o = shmName'
  BY DEF ShmTypes
<1>3. \A o : Late(o)' = Late(o)
  BY DEF Late
<1>4. \A o \in 1 .. objects' :
        \/ o = shmName'
        \/ \E c \in Consumer : kobj'[c] = o /\ kpc'[c] = "done"
        \/ Late(o)'
  BY <1>1, <1>2, <1>3 DEF Unlinked
<1> QED BY <1>4 DEF Unlinked

LEMMA CreateKeeps ==
  ASSUME ShmInv, NEW p \in Producer, ShmCreate(p)
  PROVE  ShmInv'
<1> USE DEF ShmInv
<1>1. CASE shmName = 0
  <2>1. /\ objects' = objects + 1 /\ shmName' = objects + 1
        /\ written' = [o \in 1 .. objects + 1 |-> IF o > objects THEN {} ELSE written[o]]
    BY <1>1 DEF ShmCreate
  <2>2. /\ pobj' = [pobj EXCEPT ![p] = objects + 1]
        /\ ppc' = [ppc EXCEPT ![p] = "truncate"] /\ ppc[p] = "open"
        /\ UNCHANGED <<sized, todo, kpc, kobj, unread, seen>>
    BY <2>1 DEF ShmCreate, ProducerGoes, ConsumersUnchanged
  <2>3. written' \in [1 .. objects' -> SUBSET Field]
    BY <2>1 DEF ShmTypes
  <2>4. ShmTypes'
    <3>1. objects' \in Nat /\ shmName' \in {0, objects'}
      BY <2>1 DEF ShmTypes
    <3>2. pobj' \in [Producer -> 0 .. objects'] /\ kobj' \in [Consumer -> 0 .. objects']
      BY <2>1, <2>2 DEF ShmTypes
    <3>3. ppc' \in [Producer -> {"open", "truncate", "write", "done", "failed"}]
      BY <2>2 DEF ShmTypes
    <3> QED BY <2>2, <2>3, <3>1, <3>2, <3>3 DEF ShmTypes
  <2>5. \A o \in 1 .. objects : written'[o] = written[o]
    BY <2>1 DEF ShmTypes
  <2>6. Filled'
    <3> SUFFICES ASSUME NEW r \in Producer
                 PROVE  /\ ppc'[r] \in {"truncate", "write", "done"} =>
                             pobj'[r] # 0 /\ Field \ todo'[r] \subseteq written'[pobj'[r]]
                        /\ ppc'[r] \in {"open", "truncate"} => todo'[r] = Field
                        /\ ppc'[r] \in {"write", "done"} => pobj'[r] \in sized'
                        /\ ppc'[r] = "done" => todo'[r] = {}
      BY DEF Filled
    <3>1. CASE r = p
      BY <3>1, <2>1, <2>2 DEF Filled, ShmTypes
    <3>2. CASE r # p
      BY <3>2, <2>2, <2>5 DEF Filled, ShmTypes
    <3> QED BY <3>1, <3>2
  <2> QED BY <1>1, <2>1, <2>2, <2>4, <2>6, ProducerUnlinked
<1>2. CASE shmName # 0
  <2>1. UNCHANGED <<objects, shmName>> /\ written' = [written EXCEPT ![shmName] = @]
    BY <1>2 DEF ShmCreate, Erased
  <2>2. /\ pobj' = [pobj EXCEPT ![p] = shmName]
        /\ ppc' = [ppc EXCEPT ![p] = "truncate"] /\ ppc[p] = "open"
        /\ UNCHANGED <<sized, todo, kpc, kobj, unread, seen>>
    BY <2>1 DEF ShmCreate, ProducerGoes, ConsumersUnchanged
  <2>3. written' = written
    BY <2>1, <1>2 DEF ShmTypes
  <2>4. ShmTypes'
    <3>1. pobj' \in [Producer -> 0 .. objects]
      BY <2>2 DEF ShmTypes
    <3>2. ppc' \in [Producer -> {"open", "truncate", "write", "done", "failed"}]
      BY <2>2 DEF ShmTypes
    <3> QED BY <2>1, <2>2, <2>3, <3>1, <3>2 DEF ShmTypes
  <2>5. Filled'
    BY <1>2, <2>2, <2>3 DEF Filled, ShmTypes
  <2> QED BY <2>1, <2>2, <2>4, <2>5, ProducerUnlinked
<1> QED BY <1>1, <1>2

LEMMA TruncateKeeps ==
  ASSUME ShmInv, NEW p \in Producer, Truncate(p)
  PROVE  ShmInv'
<1> USE DEF ShmInv
<1>1. /\ sized' = sized \cup {pobj[p]} /\ ppc' = [ppc EXCEPT ![p] = "write"]
      /\ ppc[p] = "truncate"
      /\ UNCHANGED <<shmName, objects, written, pobj, todo, kpc, kobj, unread, seen>>
  BY DEF Truncate, ProducerGoes, ConsumersUnchanged
<1>2. ShmTypes'
  <2>1. sized' \subseteq Nat
    <3>1. pobj[p] \in Nat
      BY DEF ShmTypes
    <3> QED BY <1>1, <3>1 DEF ShmTypes
  <2>2. ppc' \in [Producer -> {"open", "truncate", "write", "done", "failed"}]
    BY <1>1 DEF ShmTypes
  <2> QED BY <1>1, <2>1, <2>2 DEF ShmTypes
<1>3. Filled'
  BY <1>1 DEF Filled, ShmTypes
<1> QED BY <1>1, <1>2, <1>3, ProducerUnlinked

LEMMA WriteKeeps ==
  ASSUME ShmInv, NEW p \in Producer, NEW f \in Field, WriteField(p, f)
  PROVE  ShmInv'
<1> USE DEF ShmInv
<1>1. /\ written' = [written EXCEPT ![pobj[p]] = @ \cup {f}]
      /\ todo' = [todo EXCEPT ![p] = @ \ {f}]
      /\ ppc' = [ppc EXCEPT ![p] = IF todo[p] = {f} THEN "done" ELSE "write"]
      /\ ppc[p] = "write" /\ f \in todo[p]
      /\ UNCHANGED <<shmName, objects, sized, pobj, kpc, kobj, unread, seen>>
  BY DEF WriteField, ProducerGoes, ConsumersUnchanged
<1>2. pobj[p] \in 1 .. objects
  BY <1>1 DEF Filled, ShmTypes
<1>3. ShmTypes'
  BY <1>1, <1>2 DEF ShmTypes
<1>4. /\ \A o \in 1 .. objects : written[o] \subseteq written'[o]
      /\ f \in written'[pobj[p]]
  BY <1>1, <1>2 DEF ShmTypes
<1>5. Filled'
  <2> SUFFICES ASSUME NEW r \in Producer
               PROVE  /\ ppc'[r] \in {"truncate", "write", "done"} =>
                           pobj'[r] # 0 /\ Field \ todo'[r] \subseteq written'[pobj'[r]]
                      /\ ppc'[r] \in {"open", "truncate"} => todo'[r] = Field
                      /\ ppc'[r] \in {"write", "done"} => pobj'[r] \in sized'
                      /\ ppc'[r] = "done" => todo'[r] = {}
    BY DEF Filled
  <2>1. CASE r = p
    <3>1. todo'[p] = todo[p] \ {f} /\ ppc'[p] = IF todo[p] = {f} THEN "done" ELSE "write"
      BY <1>1 DEF ShmTypes
    <3>2. Field \ todo[p] \subseteq written[pobj[p]] /\ pobj[p] \in sized
      BY <1>1 DEF Filled
    <3>3. Field \ todo'[p] \subseteq written'[pobj[p]]
      BY <3>1, <3>2, <1>2, <1>4
    <3> QED BY <2>1, <3>1, <3>2, <3>3, <1>1, <1>2
  <2>2. CASE r # p
    <3>1. todo'[r] = todo[r] /\ ppc'[r] = ppc[r]
      BY <2>2, <1>1 DEF ShmTypes
    <3>2. pobj[r] # 0 => pobj[r] \in 1 .. objects
      BY DEF ShmTypes
    <3> QED BY <3>1, <3>2, <1>1, <1>4 DEF Filled
  <2> QED BY <2>1, <2>2
<1> QED BY <1>1, <1>3, <1>5, ProducerUnlinked

LEMMA FailKeeps ==
  ASSUME ShmInv, NEW p \in Producer, ProducerFails(p)
  PROVE  ShmInv'
<1> USE DEF ShmInv
<1>1. /\ ppc' = [ppc EXCEPT ![p] = "failed"]
      /\ UNCHANGED <<shmName, objects, sized, written, pobj, todo, kpc, kobj, unread, seen>>
  BY DEF ProducerFails, ProducerGoes, ConsumersUnchanged
<1>2. ShmTypes'
  BY <1>1 DEF ShmTypes
<1>3. Filled'
  BY <1>1 DEF Filled, ShmTypes
<1> QED BY <1>1, <1>2, <1>3, ProducerUnlinked

-----------------------------------------------------------------------------
(* Consumers. *)

LEMMA OpenKeeps ==
  ASSUME ShmInv, NEW c \in Consumer, ShmOpen(c)
  PROVE  ShmInv'
<1> USE DEF ShmInv
<1>1. /\ kobj' = [kobj EXCEPT ![c] = shmName]
      /\ kpc' = [kpc EXCEPT ![c] = IF shmName = 0 THEN "failed" ELSE "read"]
      /\ kpc[c] = "open"
      /\ UNCHANGED <<shmName, unread, seen, objects, sized, written, ppc, pobj, todo>>
  BY DEF ShmOpen, ConsumerGoes, Missing, MemoryUnchanged
<1>2. ShmTypes'
  BY <1>1 DEF ShmTypes
<1>3. Filled'
  BY <1>1 DEF Filled
<1>4. kobj[c] = 0
  BY <1>1 DEF Unlinked
<1>5. ASSUME NEW o \in 1 .. objects, Late(o)
      PROVE  Late(o)'
  <2>1. PICK k, m \in Consumer : k # m /\ kobj[k] = kobj[m] /\ kobj[k] \in 1 .. o - 1
    BY <1>5 DEF Late
  <2>2. k # c /\ m # c
    BY <2>1, <1>4
  <2>3. kobj'[k] = kobj[k] /\ kobj'[m] = kobj[m]
    BY <2>2, <1>1 DEF ShmTypes
  <2> QED BY <2>1, <2>3 DEF Late
<1>6. ASSUME NEW o \in 1 .. objects, NEW k \in Consumer, kobj[k] = o, kpc[k] = "done"
      PROVE  kobj'[k] = o /\ kpc'[k] = "done"
  BY <1>6, <1>1 DEF ShmTypes
<1>7. Unlinked'
  <2>1. \A k \in Consumer : kpc'[k] \in {"read", "unlink"} => kobj'[k] # 0
    BY <1>1 DEF Unlinked, ShmTypes
  <2>2. \A k \in Consumer : kpc'[k] = "open" => kobj'[k] = 0
    BY <1>1 DEF Unlinked, ShmTypes
  <2>3. \A o \in 1 .. objects :
          \/ o = shmName
          \/ \E k \in Consumer : kobj'[k] = o /\ kpc'[k] = "done"
          \/ Late(o)'
    BY <1>5, <1>6 DEF Unlinked
  <2> QED BY <2>1, <2>2, <2>3, <1>1 DEF Unlinked
<1> QED BY <1>2, <1>3, <1>7

LEMMA ReadKeeps ==
  ASSUME ShmInv, NEW c \in Consumer, NEW f \in Field, ReadField(c, f)
  PROVE  ShmInv'
<1> USE DEF ShmInv
<1>1. /\ kpc[c] = "read"
      /\ UNCHANGED <<shmName, kobj, objects, sized, written, ppc, pobj, todo>>
  BY DEF ReadField, MemoryUnchanged
<1>2. PICK to \in {"unlink", "read", "killed"} : kpc' = [kpc EXCEPT ![c] = to]
  BY DEF ReadField, ConsumerGoes
<1>3. ShmTypes'
  <2>1. unread' \in [Consumer -> SUBSET Field]
    BY DEF ReadField, ShmTypes
  <2>2. seen' \in [Consumer -> SUBSET Field]
    BY DEF ReadField, ShmTypes
  <2>3. kpc' \in [Consumer -> {"open", "read", "unlink", "done", "failed", "killed"}]
    BY <1>2 DEF ShmTypes
  <2> QED BY <1>1, <2>1, <2>2, <2>3 DEF ShmTypes
<1>4. Filled'
  BY <1>1 DEF Filled
<1>5. \A k \in Consumer : kpc[k] = "done" => kpc'[k] = "done"
  BY <1>1, <1>2 DEF ShmTypes
<1>6. \A o : Late(o)' = Late(o)
  BY <1>1 DEF Late
<1>7. Unlinked'
  <2>1. \A k \in Consumer : kpc'[k] \in {"read", "unlink"} => kobj'[k] # 0
    BY <1>1, <1>2 DEF Unlinked, ShmTypes
  <2>2. \A k \in Consumer : kpc'[k] = "open" => kobj'[k] = 0
    BY <1>1, <1>2 DEF Unlinked, ShmTypes
  <2> QED BY <1>1, <1>5, <1>6, <2>1, <2>2 DEF Unlinked
<1> QED BY <1>3, <1>4, <1>7

\* The name is lost by the object the consumer has read, or by a later one; then
\* the consumer is the second one of its own object, or that one too had lost
\* its name unread.
LEMMA UnlinkKeeps ==
  ASSUME ShmInv, NEW c \in Consumer, Unlink(c)
  PROVE  ShmInv'
<1> USE DEF ShmInv
<1>1. /\ kpc[c] = "unlink" /\ kpc' = [kpc EXCEPT ![c] = "done"] /\ shmName' = 0
      /\ UNCHANGED <<kobj, unread, seen, objects, sized, written, ppc, pobj, todo>>
  BY DEF Unlink, ConsumerGoes, MemoryUnchanged
<1>2. ShmTypes'
  BY <1>1 DEF ShmTypes
<1>3. Filled'
  BY <1>1 DEF Filled
<1>4. kobj[c] \in 1 .. objects /\ kpc'[c] = "done"
  BY <1>1 DEF Unlinked, ShmTypes
<1>5. \A k \in Consumer : kpc[k] = "done" => kpc'[k] = "done"
  BY <1>1 DEF ShmTypes
<1>6. \A o : Late(o)' = Late(o)
  BY <1>1 DEF Late
<1>7. ASSUME NEW o \in 1 .. objects
      PROVE  (\E k \in Consumer : kobj[k] = o /\ kpc'[k] = "done") \/ Late(o)
  <2>1. CASE kobj[c] = o
    BY <2>1, <1>4
  <2>2. CASE o # shmName
    BY <2>2, <1>5 DEF Unlinked
  <2>3. CASE o = shmName /\ kobj[c] # o
    <3>1. CASE kobj[c] < o
      <4>1. (\E k \in Consumer : kobj[k] = kobj[c] /\ kpc[k] = "done") \/ Late(kobj[c])
        BY <1>4, <2>3 DEF Unlinked
      <4>2. CASE Late(kobj[c])
        <5>1. PICK k, m \in Consumer :
                k # m /\ kobj[k] = kobj[m] /\ kobj[k] \in 1 .. kobj[c] - 1
          BY <4>2 DEF Late
        <5>2. kobj[k] \in 1 .. o - 1
          BY <5>1, <3>1, <1>4 DEF ShmTypes
        <5> QED BY <5>1, <5>2 DEF Late
      <4>3. CASE \E k \in Consumer : kobj[k] = kobj[c] /\ kpc[k] = "done"
        <5>1. kobj[c] \in 1 .. o - 1
          BY <3>1, <1>4 DEF ShmTypes
        <5> QED BY <4>3, <5>1, <1>1 DEF Late
      <4> QED BY <4>1, <4>2, <4>3
    <3>2. ~(kobj[c] > o)
      \* The name refers to the last object.
      BY <2>3, <1>4 DEF ShmTypes
    <3> QED BY <2>3, <3>1, <3>2, <1>4
  <2> QED BY <2>1, <2>2, <2>3
<1>8. Unlinked'
  <2>1. \A k \in Consumer : kpc'[k] \in {"read", "unlink"} => kobj'[k] # 0
    BY <1>1 DEF Unlinked, ShmTypes
  <2>2. \A k \in Consumer : kpc'[k] = "open" => kobj'[k] = 0
    BY <1>1 DEF Unlinked, ShmTypes
  <2> QED BY <1>1, <1>6, <1>7, <2>1, <2>2 DEF Unlinked
<1> QED BY <1>2, <1>3, <1>8

-----------------------------------------------------------------------------
LEMMA ShmStep ==
  ASSUME ShmInv, ShmNext PROVE ShmInv'
<1>1. CASE \E p \in Producer : ShmCreate(p) \/ Truncate(p) \/ ProducerFails(p)
  BY <1>1, CreateKeeps, TruncateKeeps, FailKeeps
<1>2. CASE \E p \in Producer, f \in Field : WriteField(p, f)
  BY <1>2, WriteKeeps
<1>3. CASE \E c \in Consumer : ShmOpen(c) \/ Unlink(c)
  BY <1>3, OpenKeeps, UnlinkKeeps
<1>4. CASE \E c \in Consumer, f \in Field : ReadField(c, f)
  BY <1>4, ReadKeeps
<1> QED BY <1>1, <1>2, <1>3, <1>4 DEF ShmNext

LEMMA ShmInductive == ShmSpec => []ShmInv
<1>1. ShmInv /\ UNCHANGED shmVars => ShmInv'
  <2> SUFFICES ASSUME ShmInv, UNCHANGED shmVars PROVE ShmInv'
    OBVIOUS
  <2>1. ShmTypes'
    BY DEF ShmInv, shmVars, ShmTypes
  <2>2. Filled'
    BY DEF ShmInv, shmVars, Filled
  <2>3. Unlinked'
    BY DEF ShmInv, shmVars, Unlinked, Late
  <2> QED BY <2>1, <2>2, <2>3 DEF ShmInv
<1> QED BY ShmInvInit, ShmStep, <1>1, PTL DEF ShmSpec

\* posix_shm_consumer.c: an object that lost its name before anyone opened it
\* lost it to the second consumer of an earlier one, for any number of
\* producers and consumers.
THEOREM ProductNameLost == ShmSpec => []NameLostUnread
<1>1. ShmInv => NameLostUnread
  BY DEF ShmInv, Unlinked, Late, NameLostUnread
<1> QED BY ShmInductive, <1>1, PTL

\* posix_shm_producer.c and posix_shm_consumer.c: what a producer has finished
\* stays whole, whoever opens, sizes and writes the object again.
THEOREM ProductWhole == ShmSpec => PrintsWhatWasWritten
<1>1. ASSUME ShmInv, NEW c \in Consumer, NEW f \in Field, ReadField(c, f),
             NEW p \in Producer, pobj[p] = kobj[c], ppc[p] = "done"
      PROVE  f \in seen'[c]
  <2>1. kobj[c] \in sized /\ f \in written[kobj[c]]
    BY <1>1 DEF ShmInv, Filled
  <2>2. seen' = [seen EXCEPT ![c] = @ \cup (written[kobj[c]] \cap {f})]
    BY <1>1, <2>1 DEF ReadField
  <2>3. seen \in [Consumer -> SUBSET Field]
    BY <1>1 DEF ShmInv, ShmTypes
  <2>4. seen'[c] = seen[c] \cup (written[kobj[c]] \cap {f})
    BY <2>2, <2>3
  <2> QED BY <2>1, <2>4
<1>2. ShmInv /\ [ShmNext]_shmVars =>
        [\A c \in Consumer, f \in Field :
           ReadField(c, f) /\ (\E p \in Producer : pobj[p] = kobj[c] /\ ppc[p] = "done")
             => f \in seen'[c]]_shmVars
  BY <1>1
<1> QED BY ShmInductive, <1>2, PTL DEF ShmSpec, PrintsWhatWasWritten

-----------------------------------------------------------------------------
(* TaskQueue *)

USE TaskQueueAssumption DEF TaskQueueAssumption, NoQueue

TaskTypes ==
  /\ named \in 0 .. MaxWorkerRuns
  /\ queue \in [Queue -> Seq(Dispatcher)]
  /\ wpc \in [Worker -> {"off", "opened", "recv", "got", "work"}]
  /\ wq \in [Worker -> 0 .. MaxWorkerRuns]
  /\ hand \in [Worker -> SUBSET Dispatcher]
  /\ dpc \in [Dispatcher -> {"idle", "send", "sent", "failed"}]
  /\ dq \in [Dispatcher -> 0 .. MaxWorkerRuns]
  /\ priority \in [Dispatcher -> Priority]
  /\ runs \in 0 .. MaxWorkerRuns
  /\ cleaned \in BOOLEAN

\* Who uses a queue has one open.
HasOpen ==
  /\ \A w \in Worker : wpc[w] # "off" => wq[w] # NoQueue
  /\ \A d \in Dispatcher : dpc[d] = "send" => dq[d] # NoQueue

\* A worker has a task in hand only between mq_receive and printing it.
HandsHold ==
  \A w \in Worker :
    hand[w] = {} \/ (wpc[w] = "got" /\ \E d \in Dispatcher : hand[w] = {d})

In(d, s) == \E i \in DOMAIN s : s[i] = d
Lone(s)  == \A i, j \in DOMAIN s : s[i] = s[j] => i = j

\* A task waits in one place of one queue, then is in one worker's hand, then is
\* processed or lost.
OnePlace ==
  /\ \A q \in Queue : Lone(queue[q])
  /\ \A d \in Dispatcher, q, r \in Queue : InQueue(d, q) /\ InQueue(d, r) => q = r
  /\ \A d \in Dispatcher, q \in Queue : InQueue(d, q) => dpc[d] = "sent" /\ d \notin processed
  /\ \A d \in Dispatcher : d \in processed => dpc[d] = "sent"
  /\ \A d \in Dispatcher, w \in Worker :
       d \in hand[w] => dpc[d] = "sent" /\ \A q \in Queue : ~InQueue(d, q)
  /\ \A d \in Dispatcher, v, w \in Worker : d \in hand[v] /\ d \in hand[w] => v = w

\* Until a worker cleans up the name keeps to one queue, which all have open
\* and where all tasks are.
OneQueue ==
  /\ named = NoQueue <=> runs = 0
  /\ \A w \in Worker : wpc[w] # "off" => wq[w] = named
  /\ \A d \in Dispatcher : dpc[d] \in {"send", "sent"} => dq[d] = named /\ named # NoQueue
  /\ \A d \in Dispatcher, q \in Queue : InQueue(d, q) => q = named

NothingElseLost ==
  \A d \in Dispatcher :
    Waiting(d) => InQueue(d, named) \/ d \in lost \/ \E w \in Worker : d \in hand[w]

\* A worker that has ended has lost one task at most.
On == {w \in Worker : wpc[w] # "off"}
LostFew == IsFiniteSet(lost) /\ Cardinality(lost) + Cardinality(On) <= runs

QueueInv ==
  /\ TaskTypes /\ HasOpen /\ HandsHold /\ OnePlace /\ LostFew
  /\ ~cleaned => OneQueue /\ NothingElseLost

\* Taking place i out of a sequence without repetitions takes out one task.
LEMMA RemoveOne ==
  ASSUME NEW S, NEW s \in Seq(S), NEW i \in DOMAIN s, Lone(s)
  PROVE  LET r == SubSeq(s, 1, i - 1) \o SubSeq(s, i + 1, Len(s)) IN
           /\ r \in Seq(S) /\ Lone(r)
           /\ \A d : In(d, r) <=> In(d, s) /\ d # s[i]
<1> DEFINE a == SubSeq(s, 1, i - 1)
           b == SubSeq(s, i + 1, Len(s))
           r == a \o b
           n == Len(s)
<1>1. /\ n \in Nat /\ DOMAIN s = 1 .. n /\ i \in 1 .. n
      /\ \A j \in 1 .. n : s[j] \in S
  BY LenProperties, ElementOfSeq
<1>2. /\ a \in Seq(S) /\ Len(a) = i - 1
      /\ \A j \in 1 .. i - 1 : a[j] = s[j]
  <2>1. \A j \in 1 .. i - 1 : s[j] \in S
    BY <1>1
  <2>2. /\ a \in Seq(S) /\ Len(a) = IF 1 <= i - 1 THEN (i - 1) - 1 + 1 ELSE 0
        /\ \A j \in 1 .. (i - 1) - 1 + 1 : a[j] = s[1 + j - 1]
    BY <1>1, <2>1, SubSeqProperties
  <2> QED BY <1>1, <2>2
<1>3. /\ b \in Seq(S) /\ Len(b) = n - i
      /\ \A j \in 1 .. n - i : b[j] = s[i + j]
  <2>1. \A j \in i + 1 .. n : s[j] \in S
    BY <1>1
  <2>2. /\ b \in Seq(S)
        /\ Len(b) = IF i + 1 <= n THEN n - (i + 1) + 1 ELSE 0
        /\ \A j \in 1 .. n - (i + 1) + 1 : b[j] = s[i + 1 + j - 1]
    BY <1>1, <2>1, SubSeqProperties
  <2> QED BY <1>1, <2>2
<1> HIDE DEF a, b, n
<1>4. /\ r \in Seq(S) /\ Len(r) = Len(a) + Len(b)
      /\ \A k \in 1 .. Len(a) + Len(b) : r[k] = IF k <= Len(a) THEN a[k] ELSE b[k - Len(a)]
  BY <1>2, <1>3, ConcatProperties
<1> HIDE DEF r
<1>5. DOMAIN r = 1 .. n - 1
  BY <1>1, <1>2, <1>3, <1>4, LenProperties
\* Place k of the rest is place k or k + 1 of the whole.
<1>6. ASSUME NEW k \in 1 .. n - 1
      PROVE  r[k] = s[IF k < i THEN k ELSE k + 1]
  <2>1. CASE k < i
    BY <2>1, <1>1, <1>2, <1>3, <1>4
  <2>2. CASE ~(k < i)
    <3>1. k - (i - 1) \in 1 .. n - i /\ i + (k - (i - 1)) = k + 1 /\ ~(k <= i - 1)
      BY <2>2, <1>1
    <3>2. k \in 1 .. Len(a) + Len(b) /\ Len(a) = i - 1
      BY <1>1, <1>2, <1>3
    <3>3. r[k] = b[k - (i - 1)]
      BY <3>1, <3>2, <1>4
    <3> QED BY <2>2, <3>1, <3>3, <1>3
  <2> QED BY <2>1, <2>2
<1> DEFINE was(k) == IF k < i THEN k ELSE k + 1
<1>7. /\ \A k \in 1 .. n - 1 : was(k) \in 1 .. n /\ was(k) # i
      /\ \A k, l \in 1 .. n - 1 : was(k) = was(l) => k = l
      /\ \A j \in 1 .. n : j # i => \E k \in 1 .. n - 1 : was(k) = j
  <2>1. ASSUME NEW j \in 1 .. n, j # i PROVE \E k \in 1 .. n - 1 : was(k) = j
    <3>1. CASE j < i
      <4>1. j \in 1 .. n - 1 /\ was(j) = j
        BY <3>1, <1>1
      <4> QED BY <4>1
    <3>2. CASE j > i
      <4>1. j - 1 \in 1 .. n - 1 /\ was(j - 1) = j
        BY <3>2, <1>1
      <4> QED BY <4>1
    <3> QED BY <2>1, <3>1, <3>2, <1>1
  <2> QED BY <2>1, <1>1
<1>8. \A k \in 1 .. n - 1 : r[k] = s[was(k)]
  BY <1>6
<1> HIDE DEF was
<1>9. Lone(r)
  BY <1>1, <1>5, <1>7, <1>8 DEF Lone
<1>10. ASSUME NEW d PROVE In(d, r) <=> In(d, s) /\ d # s[i]
  <2>1. In(d, r) => In(d, s) /\ d # s[i]
    BY <1>1, <1>5, <1>7, <1>8 DEF In, Lone
  <2>2. In(d, s) /\ d # s[i] => In(d, r)
    BY <1>1, <1>5, <1>7, <1>8 DEF In
  <2> QED BY <2>1, <2>2
<1> QED BY <1>4, <1>9, <1>10 DEF r, a, b, n

\* Appending a task that is not there adds that task.
LEMMA AppendOne ==
  ASSUME NEW S, NEW s \in Seq(S), NEW e \in S, Lone(s), ~In(e, s)
  PROVE  LET t == Append(s, e) IN
           /\ t \in Seq(S) /\ Lone(t)
           /\ \A d : In(d, t) <=> In(d, s) \/ d = e
<1> DEFINE t == Append(s, e)
           n == Len(s)
<1>1. /\ t \in Seq(S) /\ Len(t) = n + 1
      /\ \A i \in 1 .. n : t[i] = s[i]
      /\ t[n + 1] = e
  BY AppendProperties
<1>2. n \in Nat /\ DOMAIN s = 1 .. n
  BY LenProperties
<1> HIDE DEF t, n
<1>3. DOMAIN t = 1 .. n + 1
  BY <1>1, LenProperties
<1>4. \A i \in 1 .. n + 1 : i \in 1 .. n \/ i = n + 1
  BY <1>2
<1>5. Lone(t)
  BY <1>1, <1>2, <1>3, <1>4 DEF Lone, In
<1>6. ASSUME NEW d PROVE In(d, t) <=> In(d, s) \/ d = e
  <2>1. In(d, t) => In(d, s) \/ d = e
    BY <1>1, <1>2, <1>3, <1>4 DEF In
  <2>2. \A i \in 1 .. n : i \in 1 .. n + 1
    BY <1>2
  <2>3. n + 1 \in 1 .. n + 1
    BY <1>2
  <2>4. In(d, s) \/ d = e => In(d, t)
    BY <1>1, <1>2, <1>3, <2>2, <2>3 DEF In
  <2> QED BY <2>1, <2>4
<1> QED BY <1>1, <1>5, <1>6 DEF t, n

\* At first there is no task and no queue.
LEMMA QueueInit == TaskInit => QueueInv
<1> SUFFICES ASSUME TaskInit PROVE QueueInv
  OBVIOUS
<1>1. <<>> \in Seq(Dispatcher) /\ DOMAIN <<>> = {}
  BY EmptySeq
<1>2. TaskTypes
  <2>1. queue \in [Queue -> Seq(Dispatcher)]
    BY <1>1 DEF TaskInit
  <2>2. wpc \in [Worker -> {"off", "opened", "recv", "got", "work"}]
    BY DEF TaskInit
  <2>3. wq \in [Worker -> 0 .. MaxWorkerRuns]
    BY DEF TaskInit
  <2>4. dpc \in [Dispatcher -> {"idle", "send", "sent", "failed"}]
    BY DEF TaskInit
  <2>5. dq \in [Dispatcher -> 0 .. MaxWorkerRuns]
    BY DEF TaskInit
  <2>6. named \in 0 .. MaxWorkerRuns /\ runs \in 0 .. MaxWorkerRuns
    BY DEF TaskInit
  <2>7. cleaned \in BOOLEAN /\ priority \in [Dispatcher -> Priority]
    BY Zenon DEF TaskInit
  <2>8. hand \in [Worker -> SUBSET Dispatcher]
    BY DEF TaskInit
  <2> QED BY <2>1, <2>2, <2>3, <2>4, <2>5, <2>6, <2>7, <2>8 DEF TaskTypes
<1>3. \A q \in Queue : DOMAIN queue[q] = {}
  BY <1>1 DEF TaskInit
<1>4. HasOpen /\ HandsHold /\ OnePlace
  BY <1>3 DEF TaskInit, HasOpen, HandsHold, OnePlace, Lone, InQueue
<1>5. OneQueue /\ NothingElseLost
  BY <1>3 DEF TaskInit, OneQueue, NothingElseLost, Waiting, InQueue
<1>6. LostFew
  <2>1. On = {} /\ lost = {} /\ runs = 0
    BY DEF TaskInit, On
  <2> QED BY <2>1, FS_EmptySet DEF LostFew
<1> QED BY <1>2, <1>4, <1>5, <1>6 DEF QueueInv

\* Who neither starts nor ends a worker loses nothing.
LEMMA NoEnd ==
  ASSUME LostFew, UNCHANGED <<lost, runs>>,
         \A w \in Worker : wpc'[w] = "off" <=> wpc[w] = "off"
  PROVE  LostFew'
<1>1. On' = On
  BY DEF On
<1> QED BY <1>1 DEF LostFew

-----------------------------------------------------------------------------
(* Workers. *)

\* The first worker creates the queue, every other one opens it.
LEMMA OpensKeeps ==
  ASSUME QueueInv, NEW w \in Worker, WorkerOpens(w)
  PROVE  QueueInv'
<1> USE DEF QueueInv
<1>1. /\ wpc[w] = "off" /\ runs < MaxWorkerRuns /\ runs' = runs + 1
      /\ named' = IF named = NoQueue THEN runs + 1 ELSE named
      /\ wq' = [wq EXCEPT ![w] = named'] /\ wpc' = [wpc EXCEPT ![w] = "opened"]
      /\ UNCHANGED <<queue, hand, processed, cleaned, lost, dpc, dq, priority>>
  BY DEF WorkerOpens, Existing, WorkerGoes, DispatchersUnchanged
<1>2. named' \in 0 .. MaxWorkerRuns /\ named' # NoQueue
  BY <1>1 DEF TaskTypes
<1>3. TaskTypes'
  <2>1. wq' \in [Worker -> 0 .. MaxWorkerRuns]
    BY <1>1, <1>2 DEF TaskTypes
  <2>2. wpc' \in [Worker -> {"off", "opened", "recv", "got", "work"}]
    BY <1>1 DEF TaskTypes
  <2> QED BY <1>1, <1>2, <2>1, <2>2 DEF TaskTypes
<1>4. \A v \in Worker : v # w => wq'[v] = wq[v] /\ wpc'[v] = wpc[v]
  BY <1>1 DEF TaskTypes
<1>5. wq'[w] = named'
  BY <1>1 DEF TaskTypes
<1>6. HasOpen' /\ OnePlace'
  BY <1>1, <1>2, <1>4, <1>5 DEF HasOpen, OnePlace, InQueue
<1>7. ASSUME ~cleaned PROVE OneQueue' /\ NothingElseLost'
  <2>1. \A v \in Worker : wpc'[v] # "off" => wq'[v] = named'
    BY <1>1, <1>4, <1>5, <1>7 DEF HasOpen, OneQueue
  <2>2. \A d \in Dispatcher : dpc[d] \in {"send", "sent"} => dq[d] = named' /\ named = named'
    BY <1>1, <1>7 DEF OneQueue
  <2>3. runs' # 0
    BY <1>1 DEF TaskTypes
  <2>4. \A d \in Dispatcher, q \in Queue : InQueue(d, q) => q = named'
    BY <1>7, <2>2 DEF OneQueue, OnePlace
  <2>5. OneQueue'
    BY <1>1, <1>2, <2>1, <2>2, <2>3, <2>4 DEF OneQueue, InQueue
  <2>6. NothingElseLost'
    BY <1>1, <1>7, <2>2 DEF NothingElseLost, Waiting, InQueue
  <2> QED BY <2>5, <2>6
<1>8. HandsHold'
  BY <1>1, <1>4 DEF HandsHold
<1>9. LostFew'
  <2>1. On' = On \cup {w} /\ w \notin On
    BY <1>1, <1>4 DEF On, TaskTypes
  <2>2. IsFiniteSet(On)
    BY TaskQueueAssumption, FS_Subset DEF On
  <2>3. Cardinality(On') = Cardinality(On) + 1
    BY <2>1, <2>2, FS_AddElement
  <2>4. Cardinality(On) \in Nat /\ Cardinality(lost) \in Nat /\ runs \in Nat
    BY <2>2, FS_CardinalityType DEF LostFew, TaskTypes
  <2> QED BY <1>1, <2>3, <2>4 DEF LostFew
<1> QED BY <1>1, <1>3, <1>6, <1>7, <1>8, <1>9

\* signal() and the end of sleep(1).
LEMMA MovesKeeps ==
  ASSUME QueueInv, NEW w \in Worker, CatchesInterrupt(w) \/ Worked(w)
  PROVE  QueueInv'
<1> USE DEF QueueInv
<1>1. /\ wpc[w] # "off" /\ wpc' = [wpc EXCEPT ![w] = "recv"]
      /\ wpc[w] # "got"
      /\ UNCHANGED <<named, queue, wq, hand, processed, runs, cleaned, lost, dpc, dq,
                     priority>>
  BY DEF CatchesInterrupt, Worked, Again, WorkerGoes, DispatchersUnchanged
<1>2. TaskTypes'
  BY <1>1 DEF TaskTypes
<1>3. HasOpen' /\ (~cleaned => OneQueue')
  BY <1>1 DEF HasOpen, OneQueue, TaskTypes, InQueue
<1>4. OnePlace' /\ (~cleaned => NothingElseLost')
  BY <1>1 DEF OnePlace, NothingElseLost, Waiting, InQueue
<1>5. HandsHold'
  BY <1>1 DEF HandsHold, TaskTypes
<1>6. LostFew'
  BY <1>1, NoEnd DEF TaskTypes
<1> QED BY <1>1, <1>2, <1>3, <1>4, <1>5, <1>6

\* A worker takes a most urgent task of its queue, and no other task moves.
LEMMA ReceiveTakes ==
  ASSUME QueueInv, NEW w \in Worker, Receive(w)
  PROVE  \E t \in Dispatcher :
           /\ InQueue(t, wq[w]) /\ wq[w] \in Queue
           /\ \A u \in Dispatcher : InQueue(u, wq[w]) => priority[t] >= priority[u]
           /\ hand' = [hand EXCEPT ![w] = {t}]
           /\ queue' \in [Queue -> Seq(Dispatcher)]
           /\ \A q \in Queue : Lone(queue'[q])
           /\ \A d \in Dispatcher, q \in Queue : InQueue(d, q)' <=> InQueue(d, q) /\ d # t
<1> DEFINE q == wq[w]
           s == queue[q]
           r(i) == SubSeq(s, 1, i - 1) \o SubSeq(s, i + 1, Len(s))
<1>1. PICK i \in DOMAIN s :
        /\ IsNext(q, i)
        /\ hand' = [hand EXCEPT ![w] = {s[i]}]
        /\ queue' = [queue EXCEPT ![q] = r(i)]
  BY DEF Receive
<1>2. q \in Queue
  BY DEF Receive, QueueInv, TaskTypes, HasOpen, Queue
<1>3. s \in Seq(Dispatcher) /\ Lone(s)
  BY <1>2 DEF QueueInv, TaskTypes, OnePlace
<1>4. s[i] \in Dispatcher
  BY <1>1, <1>3, LenProperties, ElementOfSeq
<1> DEFINE t == s[i]
           x == r(i)
<1>5. /\ x \in Seq(Dispatcher) /\ Lone(x)
      /\ \A d : In(d, x) <=> In(d, s) /\ d # t
  BY <1>1, <1>3, RemoveOne, Zenon
<1>6. /\ queue' \in [Queue -> Seq(Dispatcher)] /\ queue'[q] = x
      /\ \A p \in Queue : p # q => queue'[p] = queue[p]
  <2>1. queue \in [Queue -> Seq(Dispatcher)] /\ queue' = [queue EXCEPT ![q] = x]
    BY <1>1 DEF QueueInv, TaskTypes
  <2> HIDE DEF x, q
  <2> QED BY <2>1, <1>2, <1>5
<1>7. InQueue(t, q)
  BY <1>1 DEF InQueue
<1> HIDE DEF x
<1>8. \A p \in Queue : Lone(queue'[p])
  BY <1>5, <1>6 DEF QueueInv, OnePlace
<1>9. ASSUME NEW d \in Dispatcher, NEW p \in Queue
      PROVE  InQueue(d, p)' <=> InQueue(d, p) /\ d # t
  <2>1. CASE p = q
    BY <2>1, <1>5, <1>6 DEF In, InQueue
  <2>2. CASE p # q
    <3>1. InQueue(d, p)' <=> InQueue(d, p)
      BY <2>2, <1>6 DEF InQueue
    <3>2. InQueue(d, p) => d # t
      BY <2>2, <1>2, <1>4, <1>7 DEF QueueInv, OnePlace
    <3> QED BY <3>1, <3>2
  <2> QED BY <2>1, <2>2
<1>10. ASSUME NEW u \in Dispatcher, InQueue(u, q) PROVE priority[t] >= priority[u]
  <2>1. PICK j \in DOMAIN s : s[j] = u
    BY <1>10 DEF InQueue
  <2>2. priority[t] > priority[u] \/ priority[t] = priority[u]
    BY <1>1, <2>1 DEF IsNext
  <2>3. priority[t] \in Nat /\ priority[u] \in Nat
    BY <1>4 DEF QueueInv, TaskTypes
  <2> QED BY <2>2, <2>3
<1> HIDE DEF t
<1>11. t = s[i]
  BY DEF t
<1> QED BY <1>1, <1>2, <1>4, <1>6, <1>7, <1>8, <1>9, <1>10, <1>11, Zenon

\* The task a worker takes is in its hand, and no other leaves the queue.
LEMMA ReceiveKeeps ==
  ASSUME QueueInv, NEW w \in Worker, Receive(w)
  PROVE  QueueInv'
<1>1. PICK t \in Dispatcher :
        /\ InQueue(t, wq[w]) /\ wq[w] \in Queue
        /\ hand' = [hand EXCEPT ![w] = {t}]
        /\ queue' \in [Queue -> Seq(Dispatcher)]
        /\ \A q \in Queue : Lone(queue'[q])
        /\ \A d \in Dispatcher, q \in Queue : InQueue(d, q)' <=> InQueue(d, q) /\ d # t
  BY ReceiveTakes
<1>2. /\ wpc[w] = "recv" /\ wpc' = [wpc EXCEPT ![w] = "got"]
      /\ UNCHANGED <<named, wq, processed, runs, cleaned, lost, dpc, dq, priority>>
  BY DEF Receive, WorkerGoes, DispatchersUnchanged
<1> USE DEF QueueInv
<1>3. TaskTypes'
  <2>1. wpc' \in [Worker -> {"off", "opened", "recv", "got", "work"}]
    BY <1>2 DEF TaskTypes
  <2>2. hand' \in [Worker -> SUBSET Dispatcher]
    BY <1>1 DEF TaskTypes
  <2> QED BY <1>1, <1>2, <2>1, <2>2 DEF TaskTypes
<1>4. \A v \in Worker : wpc'[v] = "off" <=> wpc[v] = "off"
  BY <1>2 DEF TaskTypes
<1>5. HasOpen' /\ LostFew'
  BY <1>2, <1>4, NoEnd DEF HasOpen
<1>6. /\ hand'[w] = {t} /\ wpc'[w] = "got"
      /\ \A v \in Worker : v # w => hand'[v] = hand[v] /\ wpc'[v] = wpc[v]
  BY <1>1, <1>2 DEF TaskTypes
<1>7. HandsHold'
  BY <1>6 DEF HandsHold
<1>8. OnePlace'
  <2>1. \A d \in Dispatcher, q, r \in Queue : InQueue(d, q)' /\ InQueue(d, r)' => q = r
    BY <1>1 DEF OnePlace
  <2>2. \A d \in Dispatcher, q \in Queue :
          InQueue(d, q)' => dpc'[d] = "sent" /\ d \notin processed'
    BY <1>1, <1>2 DEF OnePlace
  <2>3. \A d \in Dispatcher : d \in processed' => dpc'[d] = "sent"
    BY <1>2 DEF OnePlace
  <2>4. dpc[t] = "sent" /\ \A v \in Worker : t \notin hand[v]
    BY <1>1 DEF OnePlace
  <2>5. \A d \in Dispatcher, v \in Worker :
          d \in hand'[v] => dpc'[d] = "sent" /\ \A q \in Queue : ~InQueue(d, q)'
    BY <2>4, <1>1, <1>2, <1>6 DEF OnePlace
  <2>6. \A d \in Dispatcher, u, v \in Worker : d \in hand'[u] /\ d \in hand'[v] => u = v
    BY <2>4, <1>6 DEF OnePlace
  <2> QED BY <1>1, <2>1, <2>2, <2>3, <2>5, <2>6 DEF OnePlace
<1>9. ASSUME ~cleaned PROVE OneQueue' /\ NothingElseLost'
  <2>1. OneQueue'
    BY <1>1, <1>2, <1>4, <1>9 DEF OneQueue
  <2> SUFFICES ASSUME NEW d \in Dispatcher, Waiting(d)', d # t, d \notin lost,
                      \A v \in Worker : d \notin hand[v]
               PROVE  InQueue(d, named)'
    BY <2>1, <1>2, <1>6 DEF NothingElseLost, HandsHold
  <2>2. Waiting(d)
    BY <1>2 DEF Waiting
  <2>3. InQueue(d, named) /\ named \in Queue
    BY <2>2, <1>9 DEF NothingElseLost, OneQueue, Waiting, TaskTypes, Queue
  <2>4. InQueue(d, named)' <=> \E i \in DOMAIN queue'[named] : queue'[named][i] = d
    BY <1>2 DEF InQueue
  <2>5. \E i \in DOMAIN queue'[named] : queue'[named][i] = d
    BY <2>3, <1>1 DEF InQueue
  <2> QED BY <2>4, <2>5
<1> QED BY <1>2, <1>3, <1>5, <1>7, <1>8, <1>9

\* The task that is printed leaves the hand.
LEMMA PrintsKeeps ==
  ASSUME QueueInv, NEW w \in Worker, Prints(w)
  PROVE  QueueInv'
<1> USE DEF QueueInv
<1>1. /\ wpc[w] = "got" /\ wpc' = [wpc EXCEPT ![w] = "work"]
      /\ processed' = processed \cup hand[w]
      /\ hand' = [hand EXCEPT ![w] = {}]
      /\ UNCHANGED <<named, queue, wq, runs, cleaned, lost, dpc, dq, priority>>
  BY DEF Prints, WorkerGoes, DispatchersUnchanged
<1>2. TaskTypes'
  <2>1. wpc' \in [Worker -> {"off", "opened", "recv", "got", "work"}]
    BY <1>1 DEF TaskTypes
  <2>2. hand' \in [Worker -> SUBSET Dispatcher]
    BY <1>1 DEF TaskTypes
  <2> QED BY <1>1, <2>1, <2>2 DEF TaskTypes
<1>3. /\ hand'[w] = {} /\ wpc'[w] = "work"
      /\ \A v \in Worker : v # w => hand'[v] = hand[v] /\ wpc'[v] = wpc[v]
  BY <1>1 DEF TaskTypes
<1>4. \A v \in Worker : wpc'[v] = "off" <=> wpc[v] = "off"
  BY <1>1, <1>3
<1>5. HasOpen' /\ LostFew' /\ HandsHold'
  BY <1>1, <1>3, <1>4, NoEnd DEF HasOpen, HandsHold
<1>6. \A d \in Dispatcher, q \in Queue : InQueue(d, q)' <=> InQueue(d, q)
  BY <1>1 DEF InQueue
<1>7. OnePlace'
  <2>1. \A d \in Dispatcher, q \in Queue :
          InQueue(d, q)' => dpc'[d] = "sent" /\ d \notin processed'
    BY <1>1, <1>6 DEF OnePlace
  <2>2. \A d \in Dispatcher : d \in processed' => dpc'[d] = "sent"
    BY <1>1 DEF OnePlace
  <2>3. \A d \in Dispatcher, v \in Worker : d \in hand'[v] => d \in hand[v]
    BY <1>3
  <2> QED BY <1>1, <1>6, <2>1, <2>2, <2>3 DEF OnePlace
<1>8. ASSUME ~cleaned PROVE OneQueue' /\ NothingElseLost'
  <2>1. OneQueue'
    BY <1>1, <1>4, <1>8 DEF OneQueue, InQueue
  <2> SUFFICES ASSUME NEW d \in Dispatcher, Waiting(d)', d \notin lost,
                      \A v \in Worker : d \notin hand'[v]
               PROVE  InQueue(d, named)'
    BY <2>1, <1>1 DEF NothingElseLost
  <2>2. Waiting(d) /\ \A v \in Worker : d \notin hand[v]
    BY <1>1, <1>3 DEF Waiting
  <2>3. InQueue(d, named)
    BY <2>2, <1>8 DEF NothingElseLost
  <2> QED BY <2>3, <1>1 DEF InQueue
<1> QED BY <1>1, <1>2, <1>5, <1>7, <1>8

\* A worker that ends takes with it what it has in hand, and nothing else.
LEMMA EndsKeeps ==
  ASSUME QueueInv, NEW w \in Worker, WorkerEnds(w)
  PROVE  QueueInv'
<1> USE DEF QueueInv
<1>1. /\ wpc' = [wpc EXCEPT ![w] = "off"] /\ wq' = [wq EXCEPT ![w] = 0]
      /\ wpc[w] # "off" /\ lost' = lost \cup hand[w] /\ hand' = [hand EXCEPT ![w] = {}]
      /\ UNCHANGED <<queue, processed, runs, dpc, dq, priority>>
  BY DEF WorkerEnds, WorkerGoes, DispatchersUnchanged
<1>2. UNCHANGED <<named, cleaned>> \/ (named' = 0 /\ cleaned' = TRUE)
  BY DEF WorkerEnds
<1>3. TaskTypes'
  <2>1. wpc' \in [Worker -> {"off", "opened", "recv", "got", "work"}]
    BY <1>1 DEF TaskTypes
  <2>2. wq' \in [Worker -> 0 .. MaxWorkerRuns]
    BY <1>1 DEF TaskTypes
  <2>3. named' \in 0 .. MaxWorkerRuns
    BY <1>2 DEF TaskTypes
  <2>4. cleaned' \in BOOLEAN
    BY <1>2 DEF TaskTypes
  <2>5. hand' \in [Worker -> SUBSET Dispatcher]
    BY <1>1 DEF TaskTypes
  <2> QED BY <1>1, <2>1, <2>2, <2>3, <2>4, <2>5 DEF TaskTypes
<1>4. /\ \A v \in Worker : wpc'[v] # "off" => wq'[v] = wq[v] /\ wpc[v] # "off"
      /\ hand'[w] = {} /\ wpc'[w] = "off"
      /\ \A v \in Worker : v # w => hand'[v] = hand[v] /\ wpc'[v] = wpc[v]
  BY <1>1 DEF TaskTypes
<1>5. HasOpen' /\ HandsHold'
  BY <1>1, <1>4 DEF HasOpen, HandsHold
<1>6. OnePlace'
  <2>1. \A d \in Dispatcher, v \in Worker : d \in hand'[v] => d \in hand[v]
    BY <1>4
  <2> QED BY <1>1, <2>1 DEF OnePlace, InQueue
<1>7. LostFew'
  <2>1. On' = On \ {w} /\ w \in On
    BY <1>1, <1>4 DEF On
  <2>2. IsFiniteSet(On)
    BY TaskQueueAssumption, FS_Subset DEF On
  <2>3. Cardinality(On') = Cardinality(On) - 1
    BY <2>1, <2>2, FS_RemoveElement
  <2>4. IsFiniteSet(lost') /\ Cardinality(lost') <= Cardinality(lost) + 1
    <3>1. IsFiniteSet(lost) /\ Cardinality(lost) \in Nat
      BY FS_CardinalityType DEF LostFew
    <3>2. CASE hand[w] = {}
      <4>1. lost' = lost
        BY <1>1, <3>2
      <4> QED BY <4>1, <3>1
    <3>3. ASSUME NEW d, hand[w] = {d}
          PROVE  IsFiniteSet(lost') /\ Cardinality(lost') <= Cardinality(lost) + 1
      <4>1. lost' = lost \cup {d}
        BY <1>1, <3>3
      <4>2. /\ IsFiniteSet(lost \cup {d})
            /\ Cardinality(lost \cup {d}) \in {Cardinality(lost), Cardinality(lost) + 1}
        BY <3>1, FS_AddElement
      <4>3. lost' \in {lost \cup {d}}
        BY <4>1
      <4>4. IsFiniteSet(lost') /\ Cardinality(lost') \in {Cardinality(lost), Cardinality(lost) + 1}
        BY <4>2, <4>3
      <4> QED BY <3>1, <4>4
    <3> QED BY <3>2, <3>3 DEF HandsHold
  <2>5. /\ Cardinality(On) \in Nat /\ Cardinality(lost) \in Nat /\ runs \in Nat
        /\ Cardinality(lost') \in Nat
    BY <2>2, <2>4, FS_CardinalityType DEF LostFew, TaskTypes
  <2> QED BY <1>1, <2>3, <2>4, <2>5 DEF LostFew
<1>8. ASSUME ~cleaned' PROVE OneQueue' /\ NothingElseLost'
  <2>1. UNCHANGED <<named, cleaned>> /\ ~cleaned
    BY <1>2, <1>8
  <2>2. OneQueue'
    BY <2>1, <1>1, <1>4 DEF OneQueue, InQueue
  <2>3. \A d \in Dispatcher, v \in Worker : d \in hand[v] => d \in lost' \/ d \in hand'[v]
    BY <1>1, <1>4
  <2>4. NothingElseLost'
    BY <2>1, <2>3, <1>1 DEF NothingElseLost, Waiting, InQueue
  <2> QED BY <2>2, <2>4
<1> QED BY <1>3, <1>5, <1>8, <1>6, <1>7

-----------------------------------------------------------------------------
(* Dispatchers. *)

\* A dispatcher that finds no queue gives up; what waits stays.
LEMMA DispatcherOpensKeeps ==
  ASSUME QueueInv, NEW d \in Dispatcher, Opens(d)
  PROVE  QueueInv'
<1> USE DEF QueueInv
<1>1. PICK to \in {"send", "failed"} :
        (named = NoQueue => to = "failed") /\ dpc' = [dpc EXCEPT ![d] = to]
  BY DEF Opens
<1>2. /\ dpc[d] = "idle" /\ dq' = [dq EXCEPT ![d] = named]
      /\ UNCHANGED <<queue, named, wpc, wq, hand, priority, processed, runs, cleaned, lost>>
  BY DEF Opens, WorkersUnchanged
<1>3. TaskTypes'
  BY <1>1, <1>2 DEF TaskTypes
<1>4. \A e \in Dispatcher : dpc'[e] = "sent" <=> dpc[e] = "sent"
  BY <1>1, <1>2 DEF TaskTypes
<1>5. HasOpen'
  <2>1. \A e \in Dispatcher : dpc'[e] = "send" => dq'[e] # NoQueue
    BY <1>1, <1>2 DEF HasOpen, TaskTypes
  <2> QED BY <2>1, <1>2 DEF HasOpen
<1>6. OnePlace'
  BY <1>2, <1>4 DEF OnePlace, InQueue
<1>7. ASSUME ~cleaned PROVE OneQueue' /\ NothingElseLost'
  <2>1. \A e \in Dispatcher :
          dpc'[e] \in {"send", "sent"} => dq'[e] = named /\ named # NoQueue
    BY <1>1, <1>2, <1>7 DEF OneQueue, TaskTypes
  <2>2. OneQueue'
    BY <2>1, <1>2, <1>7 DEF OneQueue, InQueue
  <2>3. NothingElseLost'
    BY <1>2, <1>4, <1>7 DEF NothingElseLost, Waiting, InQueue
  <2> QED BY <2>2, <2>3
<1>8. HandsHold' /\ LostFew'
  BY <1>2, NoEnd DEF HandsHold
<1> QED BY <1>2, <1>3, <1>5, <1>6, <1>7, <1>8

\* A dispatcher adds its task to the queue it has open, and no other one moves.
LEMMA SendsAdds ==
  ASSUME QueueInv, NEW d \in Dispatcher, Sends(d)
  PROVE  /\ dq[d] \in Queue
         /\ queue' \in [Queue -> Seq(Dispatcher)]
         /\ \A q \in Queue : Lone(queue'[q])
         /\ \A e \in Dispatcher, q \in Queue :
              InQueue(e, q)' <=> InQueue(e, q) \/ (e = d /\ q = dq[d])
<1> DEFINE q == dq[d]
           s == queue[q]
           x == Append(s, d)
<1>1. dpc[d] = "send" /\ queue' = [queue EXCEPT ![q] = x]
  BY DEF Sends
<1>2. q \in Queue
  BY <1>1 DEF QueueInv, TaskTypes, HasOpen, Queue
<1>3. s \in Seq(Dispatcher) /\ Lone(s)
  BY <1>2 DEF QueueInv, TaskTypes, OnePlace
<1>4. ~In(d, s)
  BY <1>1, <1>2 DEF QueueInv, OnePlace, InQueue, In
<1>5. /\ x \in Seq(Dispatcher) /\ Lone(x)
      /\ \A e : In(e, x) <=> In(e, s) \/ e = d
  BY <1>3, <1>4, AppendOne, Zenon
<1> HIDE DEF x
<1>6. /\ queue' \in [Queue -> Seq(Dispatcher)] /\ queue'[q] = x
      /\ \A p \in Queue : p # q => queue'[p] = queue[p]
  <2>1. queue \in [Queue -> Seq(Dispatcher)]
    BY DEF QueueInv, TaskTypes
  <2> HIDE DEF q
  <2> QED BY <2>1, <1>1, <1>2, <1>5
<1>7. \A p \in Queue : Lone(queue'[p])
  BY <1>5, <1>6 DEF QueueInv, OnePlace
<1>8. ASSUME NEW e \in Dispatcher, NEW p \in Queue
      PROVE  InQueue(e, p)' <=> InQueue(e, p) \/ (e = d /\ p = q)
  <2>1. CASE p = q
    BY <2>1, <1>5, <1>6 DEF In, InQueue
  <2>2. CASE p # q
    BY <2>2, <1>6 DEF InQueue
  <2> QED BY <2>1, <2>2
<1> QED BY <1>2, <1>6, <1>7, <1>8

\* What a dispatcher sends waits in the one queue, and had not been sent before.
LEMMA DispatcherSendsKeeps ==
  ASSUME QueueInv, NEW d \in Dispatcher, Sends(d)
  PROVE  QueueInv'
<1>1. /\ dq[d] \in Queue
      /\ queue' \in [Queue -> Seq(Dispatcher)]
      /\ \A q \in Queue : Lone(queue'[q])
      /\ \A e \in Dispatcher, q \in Queue :
           InQueue(e, q)' <=> InQueue(e, q) \/ (e = d /\ q = dq[d])
  BY SendsAdds
<1>2. /\ dpc[d] = "send" /\ dpc' = [dpc EXCEPT ![d] = "sent"]
      /\ UNCHANGED <<dq, named, wpc, wq, hand, priority, processed, runs, cleaned, lost>>
  BY DEF Sends, WorkersUnchanged
<1> USE DEF QueueInv
<1>3. dpc' \in [Dispatcher -> {"idle", "send", "sent", "failed"}]
  BY <1>2 DEF TaskTypes
<1>4. TaskTypes'
  BY <1>1, <1>2, <1>3 DEF TaskTypes
<1>5. dpc'[d] = "sent" /\ \A e \in Dispatcher : e # d => dpc'[e] = dpc[e]
  BY <1>2 DEF TaskTypes
<1>6. HasOpen'
  BY <1>2, <1>5 DEF HasOpen
<1>7. /\ d \notin processed /\ \A q \in Queue : ~InQueue(d, q)
      /\ \A w \in Worker : d \notin hand[w]
  BY <1>2 DEF OnePlace
<1>8. OnePlace'
  <2>1. \A e \in Dispatcher, q, r \in Queue : InQueue(e, q)' /\ InQueue(e, r)' => q = r
    BY <1>1, <1>7 DEF OnePlace
  <2>2. \A e \in Dispatcher, q \in Queue :
          InQueue(e, q)' => dpc'[e] = "sent" /\ e \notin processed'
    BY <1>1, <1>2, <1>5, <1>7 DEF OnePlace
  <2>3. \A e \in Dispatcher : e \in processed' => dpc'[e] = "sent"
    BY <1>2, <1>5 DEF OnePlace
  <2>4. \A e \in Dispatcher, w \in Worker :
          e \in hand[w] => dpc'[e] = "sent" /\ \A q \in Queue : ~InQueue(e, q)'
    BY <1>1, <1>2, <1>5, <1>7 DEF OnePlace
  <2>5. \A e \in Dispatcher, v, w \in Worker : e \in hand'[v] /\ e \in hand'[w] => v = w
    BY <1>2 DEF OnePlace
  <2> QED BY <1>1, <1>2, <2>1, <2>2, <2>3, <2>4, <2>5 DEF OnePlace
<1>9. ASSUME ~cleaned PROVE OneQueue' /\ NothingElseLost'
  <2>1. dq[d] = named /\ named # NoQueue
    BY <1>2, <1>9 DEF OneQueue
  <2>2. OneQueue'
    BY <2>1, <1>1, <1>2, <1>5, <1>9 DEF OneQueue
  <2> SUFFICES ASSUME NEW e \in Dispatcher, Waiting(e)', e \notin lost,
                      \A w \in Worker : e \notin hand[w]
               PROVE  InQueue(e, named)'
    BY <2>2, <1>2 DEF NothingElseLost
  <2>3. e = d \/ Waiting(e)
    BY <1>2, <1>5 DEF Waiting
  <2>4. e = d \/ InQueue(e, named)
    BY <2>3, <1>9 DEF NothingElseLost
  <2>5. \E i \in DOMAIN queue'[named] : queue'[named][i] = e
    BY <2>1, <2>4, <1>1 DEF InQueue
  <2> QED BY <2>5, <1>2 DEF InQueue
<1>10. HandsHold' /\ LostFew'
  BY <1>2, NoEnd DEF HandsHold
<1> QED BY <1>2, <1>4, <1>6, <1>8, <1>9, <1>10

-----------------------------------------------------------------------------
(* What follows. *)

\* The invariant is inductive.
LEMMA QueueInductive == TaskSpec => []QueueInv
<1>1. QueueInv /\ [TaskNext]_taskVars => QueueInv'
  <2> SUFFICES ASSUME QueueInv, [TaskNext]_taskVars PROVE QueueInv'
    OBVIOUS
  <2>1. CASE UNCHANGED taskVars
    <3>1. LostFew'
      BY <2>1, NoEnd DEF taskVars, QueueInv
    <3> QED BY <2>1, <3>1 DEF taskVars, QueueInv, TaskTypes, HasOpen, HandsHold, OnePlace,
                OneQueue, NothingElseLost, Waiting, InQueue
  <2>2. CASE \E w \in Worker : WorkerOpens(w) \/ WorkerStep(w) \/ WorkerEnds(w)
    BY <2>2, OpensKeeps, MovesKeeps, ReceiveKeeps, PrintsKeeps, EndsKeeps DEF WorkerStep
  <2>3. CASE \E d \in Dispatcher : Opens(d) \/ Sends(d)
    BY <2>3, DispatcherOpensKeeps, DispatcherSendsKeeps
  <2> QED BY <2>1, <2>2, <2>3 DEF TaskNext
<1> QED BY QueueInit, <1>1, PTL DEF TaskSpec

\* Every end of a worker loses one task at most, and only an end does: what was
\* sent and not processed is in some worker's hand, was in the hand of one that
\* has ended, or, until the first Ctrl+C, waits where the next worker looks.
CrashLosesAtMostOne ==
  /\ Cardinality(lost) <= runs - Cardinality(On)
  /\ ~cleaned =>
       /\ runs > 0 => named # NoQueue
       /\ \A d \in Dispatcher :
            Waiting(d) => InQueue(d, named) \/ d \in lost \/ \E w \in Worker : d \in hand[w]

\* baitap7: however often workers are killed, no more tasks are lost in their
\* hands than workers have ended, and until one is stopped by Ctrl+C no task is
\* lost anywhere else; for any number of dispatchers and workers.
THEOREM TaskCrash == TaskSpec => []CrashLosesAtMostOne
<1>1. QueueInv => CrashLosesAtMostOne
  <2> SUFFICES ASSUME QueueInv PROVE CrashLosesAtMostOne
    OBVIOUS
  <2>1. ~cleaned => (runs > 0 => named # NoQueue)
    BY DEF QueueInv, OneQueue, TaskTypes
  <2>2. IsFiniteSet(On)
    BY TaskQueueAssumption, FS_Subset DEF On
  <2>3. Cardinality(On) \in Nat /\ Cardinality(lost) \in Nat /\ runs \in Nat
    BY <2>2, FS_CardinalityType DEF QueueInv, LostFew, TaskTypes
  <2>4. Cardinality(lost) <= runs - Cardinality(On)
    BY <2>3 DEF QueueInv, LostFew
  <2> QED BY <2>1, <2>4 DEF QueueInv, NothingElseLost, CrashLosesAtMostOne
<1> QED BY QueueInductive, <1>1, PTL

-----------------------------------------------------------------------------
(* The box of tasks. *)

\* Until the first cleanup all tasks are in the queue with the name, so what is
\* in the box is what waits anywhere.
LEMMA BoxHoldsAll ==
  /\ QueueInv => InBox = {d \in Dispatcher : \E q \in Queue : InQueue(d, q)}
  /\ QueueInv' => InBox' = {d \in Dispatcher : \E q \in Queue : InQueue(d, q)'}
<1>1. ASSUME QueueInv
      PROVE  InBox = {d \in Dispatcher : \E q \in Queue : InQueue(d, q)}
  <2>1. Reached \subseteq Queue
    BY DEF Reached
  <2>2. \A d \in Dispatcher, q \in Queue : InQueue(d, q) => q \in Reached
    BY <1>1 DEF QueueInv, OneQueue, Reached
  <2> QED BY <2>1, <2>2 DEF InBox
<1>2. ASSUME QueueInv'
      PROVE  InBox' = {d \in Dispatcher : \E q \in Queue : InQueue(d, q)'}
  <2>1. Reached' \subseteq Queue
    BY DEF Reached
  <2>2. \A d \in Dispatcher, q \in Queue : InQueue(d, q)' => q \in Reached'
    BY <1>2 DEF QueueInv, OneQueue, Reached
  <2> QED BY <2>1, <2>2 DEF InBox
<1> QED BY <1>1, <1>2

\* Who moves no task moves nothing in the box.
LEMMA BoxStays ==
  ASSUME QueueInv, QueueInv', UNCHANGED queue
  PROVE  UNCHANGED InBox
<1>1. InBox' = {d \in Dispatcher : \E q \in Queue : InQueue(d, q)'}
  BY BoxHoldsAll
<1>2. \A d \in Dispatcher, q \in Queue : InQueue(d, q)' <=> InQueue(d, q)
  BY DEF InQueue
<1> QED BY <1>1, <1>2, BoxHoldsAll

\* What is held is in some hand.
LEMMA HeldInHand ==
  /\ \A d : d \in InHand <=> \E w \in Worker : d \in hand[w]
  /\ \A d : d \in InHand' <=> \E w \in Worker : d \in hand'[w]
BY DEF InHand

\* The first worker opens the box; for a later one it is open.
LEMMA WorkerOpensBox ==
  ASSUME QueueInv, QueueInv', NEW w \in Worker, WorkerOpens(w)
  PROVE  Box!Open
<1>1. /\ named' # NoQueue
      /\ UNCHANGED <<queue, hand, processed, cleaned, dpc, priority>>
  BY DEF WorkerOpens, Existing, DispatchersUnchanged, QueueInv, TaskTypes
<1>2. UNCHANGED InBox
  BY <1>1, BoxStays
<1>3. UNCHANGED <<InHand, Accepted>>
  BY <1>1 DEF InHand, Accepted
<1> QED BY <1>1, <1>2, <1>3 DEF Box!Open, Opened

\* A worker takes out a most urgent task.
LEMMA ReceiveTakesOut ==
  ASSUME QueueInv, QueueInv', NEW w \in Worker, Receive(w)
  PROVE  \E t \in Dispatcher : Box!Take(t)
<1>1. PICK t \in Dispatcher :
        /\ InQueue(t, wq[w]) /\ wq[w] \in Queue
        /\ \A u \in Dispatcher : InQueue(u, wq[w]) => priority[t] >= priority[u]
        /\ hand' = [hand EXCEPT ![w] = {t}]
        /\ \A d \in Dispatcher, q \in Queue : InQueue(d, q)' <=> InQueue(d, q) /\ d # t
  BY ReceiveTakes
<1>2. wpc[w] = "recv" /\ UNCHANGED <<named, processed, cleaned, dpc, priority>>
  BY DEF Receive, DispatchersUnchanged
<1>3. t \in InBox
  BY <1>1, BoxHoldsAll
<1>4. InHand' = InHand \cup {t}
  <2>1. hand[w] = {}
    BY <1>2 DEF QueueInv, HandsHold
  <2>2. \A v \in Worker : hand'[v] = IF v = w THEN {t} ELSE hand[v]
    BY <1>1 DEF QueueInv, TaskTypes
  <2>3. \A d : d \in InHand' <=> d \in InHand \/ d = t
    BY <2>1, <2>2, HeldInHand
  <2> QED BY <2>3
<1>5. InBox' = InBox \ {t}
  <2>1. InBox' = {d \in Dispatcher : \E q \in Queue : InQueue(d, q)'}
    BY BoxHoldsAll
  <2> QED BY <2>1, <1>1, BoxHoldsAll
<1>6. ASSUME ~cleaned, NEW u \in InBox PROVE priority[t] >= priority[u]
  <2>1. u \in Dispatcher /\ InQueue(u, wq[w])
    BY <1>2, <1>6 DEF InBox, Reached, QueueInv, OneQueue
  <2> QED BY <2>1, <1>1
<1>7. UNCHANGED <<Opened, cleaned, Accepted, priority>>
  BY <1>2 DEF Opened, Accepted
<1>8. Box!Take(t)
  BY <1>2, <1>3, <1>5, <1>6, <1>7, <1>4 DEF Box!Take
<1> QED BY <1>8

\* A worker that drops what it has in hand takes it from the box.
LEMMA HandEmptied ==
  ASSUME QueueInv, NEW w \in Worker, hand' = [hand EXCEPT ![w] = {}]
  PROVE  /\ hand[w] = {} => InHand' = InHand
         /\ \A t \in Dispatcher : hand[w] = {t} => t \in InHand /\ InHand' = InHand \ {t}
<1>1. \A v \in Worker : hand'[v] = IF v = w THEN {} ELSE hand[v]
  BY DEF QueueInv, TaskTypes
<1>2. ASSUME hand[w] = {} PROVE InHand' = InHand
  <2>1. \A d : d \in InHand' <=> d \in InHand
    BY <1>1, <1>2, HeldInHand
  <2> QED BY <2>1
<1>3. ASSUME NEW t \in Dispatcher, hand[w] = {t}
      PROVE  t \in InHand /\ InHand' = InHand \ {t}
  <2>1. \A v \in Worker : t \in hand[v] <=> v = w
    BY <1>3 DEF QueueInv, OnePlace
  <2>2. \A d : d \in InHand' <=> d \in InHand /\ d # t
    BY <1>1, <1>3, <2>1, HeldInHand
  <2> QED BY <2>1, <2>2, HeldInHand
<1> QED BY <1>2, <1>3

\* A task that is printed is done.
LEMMA PrintsFinishes ==
  ASSUME QueueInv, QueueInv', NEW w \in Worker, Prints(w)
  PROVE  (\E t \in Dispatcher : Box!Finish(t)) \/ UNCHANGED Box!boxVars
<1>1. /\ hand' = [hand EXCEPT ![w] = {}] /\ processed' = processed \cup hand[w]
      /\ UNCHANGED <<queue, named, cleaned, dpc, priority>>
  BY DEF Prints, DispatchersUnchanged
<1>2. UNCHANGED <<InBox, Accepted, Opened>>
  BY <1>1, BoxStays DEF Accepted, Opened
<1>3. CASE hand[w] = {}
  BY <1>1, <1>2, <1>3, HandEmptied DEF Box!boxVars
<1>4. ASSUME NEW t \in Dispatcher, hand[w] = {t} PROVE Box!Finish(t)
  BY <1>1, <1>2, <1>4, HandEmptied DEF Box!Finish
<1> QED BY <1>3, <1>4 DEF QueueInv, HandsHold

\* Ctrl+C closes the box; an end of a worker loses what it has in hand.
LEMMA WorkerEndsBox ==
  ASSUME QueueInv, QueueInv', NEW w \in Worker, WorkerEnds(w)
  PROVE  Box!Close \/ (\E t \in Dispatcher : Box!Lose(t)) \/ UNCHANGED Box!boxVars
<1>1. /\ wpc[w] # "off" /\ UNCHANGED <<queue, processed, dpc, priority>>
      /\ hand' = [hand EXCEPT ![w] = {}]
      /\ UNCHANGED <<named, cleaned>> \/ cleaned' = TRUE
  BY DEF WorkerEnds, DispatchersUnchanged
<1>2. UNCHANGED <<InBox, Accepted>>
  BY <1>1, BoxStays DEF Accepted
<1>3. Opened
  BY <1>1 DEF Opened, QueueInv, HasOpen, OneQueue
<1>4. CASE UNCHANGED <<named, cleaned>>
  <2>1. UNCHANGED Opened
    BY <1>4 DEF Opened
  <2>2. CASE hand[w] = {}
    BY <1>1, <1>2, <1>4, <2>1, <2>2, HandEmptied DEF Box!boxVars
  <2>3. ASSUME NEW t \in Dispatcher, hand[w] = {t} PROVE Box!Lose(t)
    BY <1>1, <1>2, <1>4, <2>1, <2>3, HandEmptied DEF Box!Lose
  <2> QED BY <2>2, <2>3 DEF QueueInv, HandsHold
<1>5. CASE cleaned' = TRUE
  <2>1. InHand' = InHand \/ \E t \in InHand : InHand' = InHand \ {t}
    BY <1>1, HandEmptied DEF QueueInv, HandsHold
  <2>2. Opened'
    BY <1>5 DEF Opened
  <2> QED BY <1>1, <1>2, <1>3, <1>5, <2>1, <2>2 DEF Box!Close
<1> QED BY <1>1, <1>4, <1>5

\* A dispatcher puts its task in, once.
LEMMA SendsPuts ==
  ASSUME QueueInv, QueueInv', NEW d \in Dispatcher, Sends(d)
  PROVE  Box!Put(d)
<1>1. /\ dq[d] \in Queue
      /\ \A e \in Dispatcher, q \in Queue :
           InQueue(e, q)' <=> InQueue(e, q) \/ (e = d /\ q = dq[d])
  BY SendsAdds
<1>2. /\ dpc[d] = "send" /\ dpc' = [dpc EXCEPT ![d] = "sent"]
      /\ UNCHANGED <<named, hand, priority, processed, cleaned>>
  BY DEF Sends, WorkersUnchanged
<1>3. InBox' = InBox \cup {d}
  <2>1. InBox' = {e \in Dispatcher : \E q \in Queue : InQueue(e, q)'}
    BY BoxHoldsAll
  <2> QED BY <2>1, <1>1, BoxHoldsAll
<1>4. d \notin Accepted /\ Accepted' = Accepted \cup {d}
  BY <1>2 DEF Accepted, QueueInv, TaskTypes
<1>5. Opened /\ UNCHANGED Opened
  BY <1>2 DEF Opened, QueueInv, OneQueue
<1>6. UNCHANGED InHand
  BY <1>2 DEF InHand
<1> QED BY <1>2, <1>3, <1>4, <1>5, <1>6 DEF Box!Put

\* Every other step leaves the box as it is.
LEMMA OthersLeaveBox ==
  ASSUME QueueInv, QueueInv',
         \/ \E w \in Worker : CatchesInterrupt(w) \/ Worked(w)
         \/ \E d \in Dispatcher : Opens(d)
         \/ UNCHANGED taskVars
  PROVE  UNCHANGED Box!boxVars
<1>1. UNCHANGED <<queue, named, hand, processed, cleaned, priority>>
  BY DEF CatchesInterrupt, Worked, Opens, DispatchersUnchanged, WorkersUnchanged, taskVars
<1>2. UNCHANGED InBox
  BY <1>1, BoxStays
<1>3. UNCHANGED Accepted
  <2>1. CASE UNCHANGED dpc
    BY <2>1 DEF Accepted
  <2>2. ASSUME NEW d \in Dispatcher, Opens(d) PROVE UNCHANGED Accepted
    <3>1. PICK to \in {"send", "failed"} : dpc' = [dpc EXCEPT ![d] = to]
      BY <2>2 DEF Opens
    <3>2. \A e \in Dispatcher : dpc'[e] = "sent" <=> dpc[e] = "sent"
      BY <3>1, <2>2 DEF Opens, QueueInv, TaskTypes
    <3> QED BY <3>2 DEF Accepted
  <2> QED BY <2>1, <2>2 DEF CatchesInterrupt, Worked, DispatchersUnchanged, taskVars
<1>4. UNCHANGED <<InHand, Opened>>
  BY <1>1 DEF InHand, Opened
<1> QED BY <1>1, <1>2, <1>3, <1>4 DEF Box!boxVars

\* baitap7 implements the box of tasks, for any number of dispatchers, workers,
\* priorities and places: with queues, names and processes hidden every step is
\* a step of the box or a stutter.
THEOREM TaskRefines == TaskSpec => TasksSpec
<1>1. TaskInit => Box!BoxInit
  BY DEF TaskInit, Box!BoxInit, Opened, Accepted, InBox, InHand, Reached, Queue
<1>2. QueueInv /\ QueueInv' /\ [TaskNext]_taskVars => [Box!BoxNext]_(Box!boxVars)
  <2> SUFFICES ASSUME QueueInv, QueueInv', [TaskNext]_taskVars
               PROVE  Box!BoxNext \/ UNCHANGED Box!boxVars
    OBVIOUS
  <2>1. ASSUME NEW w \in Worker, WorkerOpens(w) PROVE Box!BoxNext
    BY <2>1, WorkerOpensBox DEF Box!BoxNext
  <2>2. ASSUME NEW w \in Worker, Receive(w) PROVE Box!BoxNext
    BY <2>2, ReceiveTakesOut DEF Box!BoxNext
  <2>3. ASSUME NEW w \in Worker, WorkerEnds(w) PROVE Box!BoxNext \/ UNCHANGED Box!boxVars
    BY <2>3, WorkerEndsBox DEF Box!BoxNext
  <2>4. ASSUME NEW w \in Worker, Prints(w) PROVE Box!BoxNext \/ UNCHANGED Box!boxVars
    BY <2>4, PrintsFinishes DEF Box!BoxNext
  <2>5. ASSUME NEW d \in Dispatcher, Sends(d) PROVE Box!BoxNext
    BY <2>5, SendsPuts DEF Box!BoxNext
  <2> QED BY <2>1, <2>2, <2>3, <2>5, <2>4, OthersLeaveBox DEF TaskNext, WorkerStep
<1> QED BY QueueInductive, <1>1, <1>2, PTL DEF TaskSpec, TasksSpec, Box!BoxSpec
=============================================================================

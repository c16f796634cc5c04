--------------------------- MODULE SignalsProofs ---------------------------
(***************************************************************************)
(* A theorem about Signals: what System V's signal() makes of the programs *)
(* that count signals, for every number of signals they mean to count.     *)
(***************************************************************************)
EXTENDS Signals, TLAPS

\* With System V's signal() no program of ex1 to ex3 ever handles a second
\* signal, so none ends by its own exit: the second delivery kills it.
SecondSignalKills ==
  program # "echo" => count <= 1 /\ status # "exited"

\* A program that counts has its handler from signal() to the first delivery,
\* and has counted nothing before and one signal after.
OneShot ==
  program # "echo" =>
    /\ pc \in {"start", "pause"}
    /\ count \in {0, 1}
    /\ handled # {} => pc = "pause" /\ count = 0
    /\ pc = "start" => count = 0
    /\ \E sig \in Signal : handled \subseteq {sig}
    /\ status # "exited"

ProgramKnown == program \in {"counter", "timer", "child", "echo"}

LEMMA OneShotInit == SignalsInit => ProgramKnown /\ OneShot
  BY DEF SignalsInit, ProgramKnown, OneShot, Signal

LEMMA OneShotInstall ==
  ASSUME ProgramKnown, OneShot, Install, status = "running"
  PROVE  OneShot'
<1>1. program' = program /\ count' = count /\ status' = status /\ pc = "start"
  BY DEF Install
<1> SUFFICES ASSUME program # "echo" PROVE OneShot'
  BY <1>1 DEF OneShot
<1>2. pc' = "pause" /\ count' = 0
  BY <1>1 DEF Install, OneShot
<1>3. \E sig \in Signal : handled' \subseteq {sig}
  BY DEF Install, Caught, ProgramKnown, Signal
<1> QED BY <1>1, <1>2, <1>3 DEF OneShot

\* The first delivery uses the handler up; the second one ends the program
\* before it can count again.
LEMMA OneShotDelivery ==
  ASSUME ProgramKnown, OneShot, NEW sig \in Signal, Delivery(sig), Times > 1
  PROVE  OneShot'
<1>1. program' = program
  BY DEF Delivery, Deliver
<1> SUFFICES ASSUME program # "echo" PROVE OneShot'
  BY <1>1 DEF OneShot
<1>2. CASE sig \in handled
  <2>1. /\ handled' = handled \ {sig}
        /\ count = 0 /\ count' = count + 1
        /\ pc' = pc /\ pc = "pause"
        /\ status' = IF program # "child" /\ count + 1 >= Times THEN "exited" ELSE status
    BY <1>2 DEF Delivery, Deliver, Reset, CountHandler, OneShot
  <2>2. status' # "exited" /\ count' = 1
    BY <2>1, SignalsAssumption DEF SignalsAssumption, OneShot
  <2>3. handled' = {}
    BY <1>2, <2>1 DEF OneShot
  <2> QED BY <1>1, <2>1, <2>2, <2>3 DEF OneShot
<1>3. CASE sig \notin handled
  <2>1. status' = "killed" /\ UNCHANGED <<handled, count, pc>>
    BY <1>3 DEF Delivery, Deliver
  <2> QED BY <1>1, <2>1 DEF OneShot
<1> QED BY <1>2, <1>3

\* The rest of ex4 runs only there; alarms, the user and the parent leave the
\* program itself alone, except that the parent's wait collects it.
LEMMA OneShotOthers ==
  ASSUME ProgramKnown, OneShot,
         \/ status = "running" /\ (Test \/ Sleep \/ Wake \/ Echo)
         \/ AlarmRings \/ User \/ Parent \/ UNCHANGED signalsVars
  PROVE  OneShot'
<1>1. CASE status = "running" /\ (Test \/ Sleep \/ Wake \/ Echo)
  BY <1>1 DEF OneShot, Test, Sleep, Wake, Echo, EchoUnchanged
<1>2. CASE AlarmRings \/ User \/ UNCHANGED signalsVars
  BY <1>2 DEF OneShot, AlarmRings, User, signalsVars
<1>3. CASE Parent
  BY <1>3 DEF OneShot, Parent
<1> QED BY <1>1, <1>2, <1>3

\* baitap5, ex1 to ex3: no program that counts by signal() ever handles a
\* second signal or reaches its own exit, if it means to count more than one.
THEOREM SignalsOneShot ==
  ASSUME Times > 1
  PROVE  SignalsSpec => []SecondSignalKills
<1>1. ProgramKnown /\ OneShot /\ [SignalsNext]_signalsVars => ProgramKnown' /\ OneShot'
  <2> SUFFICES ASSUME ProgramKnown, OneShot, [SignalsNext]_signalsVars
               PROVE  ProgramKnown' /\ OneShot'
    OBVIOUS
  <2>1. program' = program
    BY DEF SignalsNext, signalsVars, Run, Install, Test, Sleep, Wake, Echo,
           EchoUnchanged, AlarmRings, User, Parent, Delivery, Deliver
  <2>2. CASE status = "running" /\ Install
    BY <2>1, <2>2, OneShotInstall DEF ProgramKnown
  <2>3. CASE \E sig \in Signal : Delivery(sig)
    BY <2>1, <2>3, OneShotDelivery DEF ProgramKnown
  <2>4. CASE \/ status = "running" /\ (Test \/ Sleep \/ Wake \/ Echo)
             \/ AlarmRings \/ User \/ Parent \/ UNCHANGED signalsVars
    BY <2>1, <2>4, OneShotOthers DEF ProgramKnown
  <2> QED BY <2>2, <2>3, <2>4 DEF SignalsNext, Run
<1>2. ProgramKnown /\ OneShot => SecondSignalKills
  BY DEF OneShot, SecondSignalKills
<1> QED BY OneShotInit, <1>1, <1>2, PTL DEF SignalsSpec
=============================================================================

-------------------------- MODULE ProcessesProofs --------------------------
(***************************************************************************)
(* Theorems about Processes, for every length of ls's output and every     *)
(* size of the pipe.                                                       *)
(***************************************************************************)
EXTENDS Processes, TLAPS

USE DEF Kid

Types ==
  /\ exe \in {"status", "command", "zombie", "orphan", "pipe"}
  /\ kid \in [Kid -> {"none", "start", "exec", "zombie", "reaped"}]
  /\ code \in [Kid -> Nat]
  /\ buffered \in Nat /\ output \in Nat /\ counted \in Nat

Ended(k) == kid[k] \in {"zombie", "reaped"}

\* Only mypipe.c forks a second child, after the first, and the parent holds
\* the write end until then; ls holds it until it ends.
Forks ==
  /\ exe # "pipe" => pstep # "fork2" /\ \A k \in Kid : kid[k] # "exec"
  /\ exe # "pipe" => kid[2] = "none"
  /\ pstep \in {"pipe", "fork1"} => kid[1] = "none"
  /\ pstep \in {"pipe", "fork1", "fork2"} => kid[2] = "none"
  /\ pstep = "fork2" => kid[1] # "none"
  /\ exe = "pipe" =>
       /\ pstep \in {"fork1", "fork2"} => 0 \in wr
       /\ kid[1] \in {"start", "exec"} => 1 \in wr
       /\ kid[2] # "none" => kid[1] # "none"

\* What ls wrote is in the pipe or counted, and wc ends with the pipe empty and
\* without a writer.
Lines ==
  /\ counted + buffered = output
  /\ Ended(2) /\ code[2] = 0 => buffered = 0 /\ Ended(1)

PipeInv == Types /\ Forks /\ Lines

LEMMA PipeInit == ProcessesInit => PipeInv
  BY DEF ProcessesInit, PipeInv, Types, Forks, Lines, Ended

-----------------------------------------------------------------------------
(* The parent. *)

LEMMA MakePipeKeeps ==
  ASSUME PipeInv, MakePipe PROVE PipeInv'
<1>1. UNCHANGED <<exe, listing, kid, code, buffered, output, counted>> /\ pstep = "pipe"
  BY DEF MakePipe
<1>2. \/ pstep' = "fork1" /\ wr' = {0}
      \/ pstep' = "done"
  BY DEF MakePipe, ParentFails
<1>3. Types' /\ Lines'
  BY <1>1 DEF PipeInv, Types, Lines, Ended
<1>4. Forks'
  BY <1>1, <1>2 DEF PipeInv, Forks
<1> QED BY <1>3, <1>4 DEF PipeInv

LEMMA ForkKeeps ==
  ASSUME PipeInv, NEW k \in Kid, Fork(k) PROVE PipeInv'
<1> USE DEF PipeInv
<1>1. /\ UNCHANGED <<exe, listing, code, buffered, output, counted>>
      /\ pstep = IF k = 1 THEN "fork1" ELSE "fork2"
  BY DEF Fork
<1>2. CASE /\ kid' = [kid EXCEPT ![k] = "start"]
           /\ pstep' = AfterFork(k)
           /\ wr' = Inherit(wr, k)
  <2>1. Types'
    BY <1>1, <1>2 DEF Types
  <2>2. kid[k] = "none"
    BY <1>1 DEF Forks
  <2>3. \A j \in Kid \ {k} : kid'[j] = kid[j]
    BY <1>2 DEF Types
  <2>4. kid'[k] = "start"
    BY <1>2 DEF Types
  <2>5. k = 2 => exe = "pipe" /\ pstep' = "close"
    BY <1>1, <1>2 DEF Forks, AfterFork
  <2>6. pstep' \in {"wait", "sleep", "done", "fork2", "close"}
    BY <1>2 DEF AfterFork, Types
  <2>7. pstep' = "fork2" <=> exe = "pipe" /\ k = 1
    BY <1>2 DEF AfterFork, Types
  <2>8. exe = "pipe" => 0 \in wr /\ wr' = wr \cup {k}
    BY <1>1, <1>2 DEF Forks, Inherit
  <2>9. Forks'
    <3>1. k = 2 => kid[1] # "none"
      BY <1>1 DEF Forks
    <3>2. CASE k = 1
      BY <3>2, <1>1, <2>2, <2>3, <2>4, <2>6, <2>7, <2>8 DEF Forks
    <3>3. CASE k = 2
      BY <3>1, <3>3, <1>1, <2>2, <2>3, <2>4, <2>5, <2>8 DEF Forks
    <3> QED BY <3>2, <3>3
  <2>10. Lines'
    BY <1>1, <2>2, <2>3, <2>4 DEF Lines, Ended
  <2> QED BY <2>1, <2>9, <2>10
<1>3. CASE ParentFails /\ UNCHANGED kid
  <2>1. pstep' = "done" /\ wr' = wr \ {0} /\ UNCHANGED kid
    BY <1>3 DEF ParentFails
  <2>2. Types' /\ Lines'
    BY <1>1, <2>1 DEF Types, Lines, Ended
  <2>3. Forks'
    BY <1>1, <2>1 DEF Forks
  <2> QED BY <2>2, <2>3
<1> QED BY <1>2, <1>3 DEF Fork

LEMMA CloseKeeps ==
  ASSUME PipeInv, CloseOrSleep PROVE PipeInv'
<1>1. /\ UNCHANGED <<exe, listing, kid, code, buffered, output, counted>>
      /\ pstep' = "wait" /\ wr' = wr \ {0}
  BY DEF CloseOrSleep, Closed
<1>2. Types' /\ Lines'
  BY <1>1 DEF PipeInv, Types, Lines, Ended
<1>3. Forks'
  BY <1>1 DEF PipeInv, Forks
<1> QED BY <1>2, <1>3 DEF PipeInv

\* wait and init turn a zombie into nothing.
LEMMA ReapKeeps ==
  ASSUME PipeInv, NEW k \in Kid, kid[k] = "zombie",
         kid' = [kid EXCEPT ![k] = "reaped"],
         UNCHANGED <<exe, listing, code, wr, buffered, output, counted>>,
         pstep' \in {pstep, "wait", "done"}
  PROVE  PipeInv'
<1> USE DEF PipeInv
<1>1. Types'
  BY DEF Types
<1>2. \A j \in Kid : Ended(j)' <=> Ended(j)
  BY DEF Ended, Types
<1>3. Lines'
  BY <1>2 DEF Lines
<1>4. kid'[k] = "reaped" /\ \A j \in Kid \ {k} : kid'[j] = kid[j]
  BY DEF Types
<1>5. Forks'
  BY <1>4 DEF Forks
<1> QED BY <1>1, <1>3, <1>5

-----------------------------------------------------------------------------
(* The children. *)

\* A child that ends, with a code other than 0 unless it is ls, or wc at the
\* end of its input.
LEMMA ExitKeeps ==
  ASSUME PipeInv, NEW k \in Kid, NEW c \in Nat, KidExits(k, c),
         kid[k] \in {"start", "exec"},
         k = 2 /\ c = 0 => buffered = 0 /\ wr = {}
  PROVE  PipeInv'
<1> USE DEF PipeInv
<1>1. /\ kid' = [kid EXCEPT ![k] = "zombie"] /\ code' = [code EXCEPT ![k] = c]
      /\ wr' = wr \ {k}
      /\ UNCHANGED <<exe, listing, pstep, buffered, output, counted>>
  BY DEF KidExits, KidUnchanged
<1>2. Types'
  BY <1>1 DEF Types
<1>3. /\ kid'[k] = "zombie" /\ code'[k] = c
      /\ \A j \in Kid \ {k} : kid'[j] = kid[j] /\ code'[j] = code[j]
  BY <1>1 DEF Types
<1>4. Forks'
  BY <1>1, <1>3 DEF Forks
<1>5. Lines'
  <2>1. CASE k = 1
    BY <2>1, <1>1, <1>3 DEF Lines, Ended
  <2>2. CASE k = 2
    <3>1. c = 0 => Ended(1)
      BY <2>2 DEF Forks, Types, Ended
    <3> QED BY <2>2, <3>1, <1>1, <1>3 DEF Lines, Ended
  <2> QED BY <2>1, <2>2
<1> QED BY <1>2, <1>4, <1>5

LEMMA ExecKeeps ==
  ASSUME PipeInv, NEW k \in Kid, Exec(k) PROVE PipeInv'
<1> USE DEF PipeInv
<1>1. /\ exe = "pipe" /\ kid[k] = "start" /\ kid' = [kid EXCEPT ![k] = "exec"]
      /\ UNCHANGED <<exe, listing, pstep, code, buffered, output, counted>>
      /\ wr' = IF k = 1 THEN wr ELSE wr \ {2}
  BY DEF Exec, LsEnds, KidUnchanged
<1>2. Types'
  BY <1>1 DEF Types
<1>3. kid'[k] = "exec" /\ \A j \in Kid \ {k} : kid'[j] = kid[j]
  BY <1>1 DEF Types
<1>4. Forks'
  BY <1>1, <1>3 DEF Forks
<1>5. Lines'
  BY <1>1, <1>3 DEF Lines, Ended
<1> QED BY <1>2, <1>4, <1>5

LEMMA LsKeeps ==
  ASSUME PipeInv, LsStep PROVE PipeInv'
<1> USE DEF PipeInv
<1>1. kid[1] = "exec" /\ exe = "pipe" /\ 1 \in wr
  BY DEF LsStep, LsWrites, LsDone, Forks
<1>2. CASE KidExits(1, 0) \/ KidExits(1, 13)
  BY <1>1, <1>2, ExitKeeps
<1>3. CASE /\ buffered' = buffered + 1 /\ output' = output + 1
           /\ UNCHANGED <<exe, listing, pstep, kid, code, wr, counted>>
  <2>1. Types'
    BY <1>3 DEF Types
  <2>2. Forks'
    BY <1>3 DEF Forks
  <2>3. ~(Ended(2) /\ code[2] = 0)
    BY <1>1 DEF Lines, Ended
  <2>4. Lines'
    BY <1>3, <2>3 DEF Lines, Ended, Types
  <2> QED BY <2>1, <2>2, <2>4
<1> QED BY <1>1, <1>2, <1>3 DEF LsStep, LsWrites, LsDone, KidUnchanged

LEMMA WcKeeps ==
  ASSUME PipeInv, WcStep PROVE PipeInv'
<1> USE DEF PipeInv
<1>1. kid[2] = "exec"
  BY DEF WcStep, WcReads, WcDone
<1>2. CASE WcDone
  BY <1>1, <1>2, ExitKeeps DEF WcDone
<1>3. CASE WcReads
  <2>1. /\ buffered' = 0 /\ counted' = counted + buffered
        /\ UNCHANGED <<exe, listing, pstep, kid, code, wr, output>>
    BY <1>3 DEF WcReads, KidUnchanged
  <2>2. Types' /\ Lines'
    BY <2>1 DEF Types, Lines, Ended
  <2>3. Forks'
    BY <2>1 DEF Forks
  <2> QED BY <2>2, <2>3
<1> QED BY <1>2, <1>3 DEF WcStep

LEMMA PipeStep ==
  ASSUME PipeInv, [ProcessesNext]_processesVars PROVE PipeInv'
<1>1. CASE ParentStep
  <2>1. CASE MakePipe
    BY <2>1, MakePipeKeeps
  <2>2. CASE CloseOrSleep
    BY <2>2, CloseKeeps
  <2>3. CASE \E k \in Kid : Fork(k)
    BY <2>3, ForkKeeps
  <2>4. ASSUME NEW k \in Kid, Wait(k) PROVE PipeInv'
    BY <2>4, ReapKeeps DEF Wait, MayCollect, pipeVars
  <2> QED BY <1>1, <2>1, <2>2, <2>3, <2>4 DEF ParentStep
<1>2. ASSUME NEW k \in Kid, InitReaps(k) PROVE PipeInv'
  BY <1>2, ReapKeeps DEF InitReaps, pipeVars
<1>3. ASSUME NEW k \in Kid, RunToEnd(k) PROVE PipeInv'
  <2>1. PICK c \in ExitCodes[exe] : KidExits(k, c)
    BY <1>3 DEF RunToEnd
  <2>2. kid[k] = "start" /\ c \in Nat
    BY <1>3, <2>1 DEF RunToEnd, ExitCodes, PipeInv, Types
  <2>3. k = 2 => c # 0
    BY <2>1, <2>2 DEF ExitCodes, PipeInv, Types, Forks
  <2> QED BY <2>1, <2>2, <2>3, ExitKeeps
<1>4. CASE \E k \in Kid : Exec(k)
  BY <1>4, ExecKeeps
<1>5. CASE UNCHANGED processesVars
  BY <1>5 DEF processesVars, pipeVars, PipeInv, Types, Forks, Lines, Ended
<1> QED BY <1>1, <1>2, <1>3, <1>4, <1>5, LsKeeps, WcKeeps DEF ProcessesNext

\* mypipe.c: when wc has ended well it has counted every line ls wrote and ls
\* has ended, for every amount of output, size of the pipe and order of the
\* three processes, whichever call fails.
THEOREM PipeCountsAll == ProcessesSpec => []WcCountsAll
<1>1. PipeInv => WcCountsAll
  BY DEF PipeInv, Types, Lines, Ended, WcCountsAll
<1> QED BY PipeInit, PipeStep, <1>1, PTL DEF ProcessesSpec

-----------------------------------------------------------------------------
(* Nobody waits in vain.                                                    *)
(*                                                                          *)
(* In mypipe.c ls waits for room until wc reads, wc waits for the end of    *)
(* file until every write end is closed, and the parent waits for both.     *)
(* The waits close no circle because each process drops the ends it does    *)
(* not need: the parent has none when it waits, ls has no read end and wc   *)
(* no write end once they run.                                              *)

ParentGoesOn ==
  \/ pstep \in {"pipe", "fork1", "fork2", "close", "sleep"}
  \/ pstep = "wait" /\ \E k \in Kid : kid[k] = "zombie"

\* write has room or nobody to write to; or nothing is left to write.
LsGoesOn ==
  /\ kid[1] = "exec"
  /\ output < listing => (1 \in wr => rd = {} \/ buffered < PipeSize)

\* read has something to return, or the end of the file.
WcGoesOn == kid[2] = "exec" /\ (buffered > 0 \/ wr = {})

KidGoesOn(k) == kid[k] = "start" \/ (kid[k] = "zombie" /\ pstep = "done")

Finished == pstep = "done" /\ \A k \in Kid : kid[k] \in {"none", "reaped"}

NobodyWaitsInVain ==
  Finished \/ ParentGoesOn \/ LsGoesOn \/ WcGoesOn \/ \E k \in Kid : KidGoesOn(k)

\* Who holds an end of the pipe, and since when not.
Ends ==
  /\ exe # "pipe" => rd = {} /\ wr = {} /\ pstep # "pipe"
  /\ rd \subseteq {0, 1, 2} /\ wr \subseteq {0, 1, 2}
  /\ 0 \in rd \cup wr => pstep \in {"fork1", "fork2", "close"}
  /\ 1 \in rd => kid[1] = "start"
  /\ 2 \in rd => kid[2] \in {"start", "exec"}
  /\ 1 \in wr => kid[1] \in {"start", "exec"}
  /\ 2 \in wr => kid[2] = "start"

\* A parent that waits has a child that it has not waited for.
Children ==
  /\ pstep \in {"pipe", "fork1", "fork2", "close", "sleep", "wait", "done"}
  /\ exe = "pipe" => pstep # "sleep"
  /\ exe = "pipe" /\ pstep \in {"close", "wait"} => \A k \in Kid : kid[k] # "none"
  /\ pstep \in {"close", "sleep", "wait"} =>
       \E k \in Kid : kid[k] \in {"start", "exec", "zombie"}

WaitInv == Ends /\ Children /\ output <= listing /\ listing \in Nat

LEMMA WaitInit == ProcessesInit => WaitInv
<1> SUFFICES ASSUME ProcessesInit PROVE WaitInv
  OBVIOUS
<1>1. listing \in Nat /\ output <= listing
  BY ProcessesAssumption DEF ProcessesInit, ProcessesAssumption
<1>2. Ends /\ Children
  BY DEF ProcessesInit, Ends, Children
<1> QED BY <1>1, <1>2 DEF WaitInv

\* The parent's steps, but for its waits.
LEMMA ParentWaits ==
  ASSUME PipeInv, WaitInv, MakePipe \/ CloseOrSleep \/ \E k \in Kid : Fork(k)
  PROVE  WaitInv'
<1> USE DEF PipeInv, WaitInv
<1>1. CASE MakePipe
  <2>1. /\ pstep = "pipe" /\ pstep' \in {"fork1", "done"}
        /\ UNCHANGED <<exe, kid, listing, output>>
        /\ \/ pstep' = "fork1" /\ rd' = {0} /\ wr' = {0}
           \/ pstep' = "done" /\ rd' = rd \ {0} /\ wr' = wr \ {0}
    BY <1>1 DEF MakePipe, ParentFails
  <2>2. exe = "pipe"
    BY <2>1 DEF Ends
  <2>3. Ends'
    <3>1. CASE pstep' = "fork1" /\ rd' = {0} /\ wr' = {0}
      BY <2>1, <2>2, <3>1 DEF Ends
    <3>2. CASE pstep' = "done" /\ rd' = rd \ {0} /\ wr' = wr \ {0}
      BY <2>1, <2>2, <3>2 DEF Ends
    <3> QED BY <2>1, <3>1, <3>2
  <2>4. Children'
    BY <2>1, <2>2 DEF Children
  <2> QED BY <2>1, <2>3, <2>4
<1>2. CASE CloseOrSleep
  <2>1. /\ pstep \in {"close", "sleep"} /\ pstep' = "wait"
        /\ rd' = rd \ {0} /\ wr' = wr \ {0}
        /\ UNCHANGED <<exe, kid, listing, output>>
    BY <1>2 DEF CloseOrSleep, Closed
  <2>2. Ends'
    BY <2>1 DEF Ends
  <2>3. exe = "pipe" => pstep = "close"
    BY <2>1 DEF Children
  <2>4. Children'
    BY <2>1, <2>3 DEF Children
  <2> QED BY <2>1, <2>2, <2>4
<1>3. ASSUME NEW k \in Kid, Fork(k) PROVE WaitInv'
  <2>1. /\ UNCHANGED <<exe, listing, output>>
        /\ pstep = IF k = 1 THEN "fork1" ELSE "fork2"
    BY <1>3 DEF Fork
  <2>2. CASE ParentFails /\ UNCHANGED kid
    BY <2>1, <2>2 DEF ParentFails, Ends, Children
  <2>3. CASE /\ kid' = [kid EXCEPT ![k] = "start"]
             /\ pstep' = AfterFork(k)
             /\ rd' = Inherit(rd, k) /\ wr' = Inherit(wr, k)
    <3>1. kid'[k] = "start" /\ \A j \in Kid \ {k} : kid'[j] = kid[j]
      BY <2>3 DEF Types
    <3>2. rd' \subseteq rd \cup {k} /\ wr' \subseteq wr \cup {k}
      BY <2>3 DEF Inherit
    <3>3. /\ pstep' \in {"wait", "sleep", "done", "fork2", "close"}
          /\ exe = "pipe" => pstep' \in {"fork2", "close"}
          /\ exe = "pipe" /\ pstep' = "close" => k = 2
      BY <2>3 DEF AfterFork, Types
    <3>4. exe # "pipe" => k = 1 /\ rd' = {} /\ wr' = {}
      BY <2>1, <2>3 DEF Forks, Ends, Inherit
    <3>5. Ends'
      BY <2>1, <3>1, <3>2, <3>3, <3>4 DEF Ends, Forks
    <3>6. Children'
      BY <2>1, <3>1, <3>3 DEF Children, Forks
    <3> QED BY <2>1, <3>5, <3>6
  <2> QED BY <1>3, <2>2, <2>3 DEF Fork
<1> QED BY <1>1, <1>2, <1>3

\* A wait takes a zombie, and another child is left or the parent ends.
LEMMA ReapWaits ==
  ASSUME PipeInv, WaitInv, NEW k \in Kid, Wait(k) \/ InitReaps(k)
  PROVE  WaitInv'
<1> USE DEF PipeInv, WaitInv
<1>1. /\ kid[k] = "zombie" /\ kid' = [kid EXCEPT ![k] = "reaped"]
      /\ UNCHANGED <<exe, listing, rd, wr, output>>
  BY DEF Wait, MayCollect, InitReaps, pipeVars
<1>2. kid'[k] = "reaped" /\ \A j \in Kid \ {k} : kid'[j] = kid[j]
  BY <1>1 DEF Types
<1>3. \/ pstep = "done" /\ pstep' = "done"
      \/ pstep = "wait" /\ pstep' = "done"
      \/ /\ pstep = "wait" /\ pstep' = "wait" /\ exe = "pipe"
         /\ \E j \in Kid \ {k} : kid[j] # "reaped"
  BY DEF Wait, InitReaps, LastWait
<1>4. Ends'
  BY <1>1, <1>2, <1>3 DEF Ends
<1>5. Children'
  <2>1. CASE pstep' = "done"
    BY <2>1, <1>1, <1>2 DEF Children
  <2>2. CASE pstep' # "done"
    <3>1. PICK j \in Kid \ {k} : kid[j] # "reaped"
      BY <2>2, <1>3
    <3>2. kid[j] \in {"start", "exec", "zombie"}
      BY <3>1, <2>2, <1>3 DEF Children, Types
    <3> QED BY <2>2, <3>1, <3>2, <1>1, <1>2, <1>3 DEF Children
  <2> QED BY <2>1, <2>2
<1> QED BY <1>1, <1>4, <1>5

\* A child that runs or ends keeps only what it needs.
LEMMA KidWaits ==
  ASSUME PipeInv, WaitInv,
         (\E k \in Kid : RunToEnd(k) \/ Exec(k)) \/ LsStep \/ WcStep
  PROVE  WaitInv'
<1> USE DEF PipeInv, WaitInv
<1>1. ASSUME NEW k \in Kid, NEW c, KidExits(k, c), kid[k] \in {"start", "exec"}
      PROVE  WaitInv'
  <2>1. /\ kid' = [kid EXCEPT ![k] = "zombie"]
        /\ rd' = rd \ {k} /\ wr' = wr \ {k}
        /\ UNCHANGED <<exe, listing, pstep, output>>
    BY <1>1 DEF KidExits, KidUnchanged
  <2>2. kid'[k] = "zombie" /\ \A j \in Kid \ {k} : kid'[j] = kid[j]
    BY <2>1 DEF Types
  <2>3. Ends'
    <3>1. CASE k = 1
      BY <2>1, <2>2, <1>1, <3>1 DEF Ends, Kid
    <3>2. CASE k = 2
      BY <2>1, <2>2, <1>1, <3>2 DEF Ends, Kid
    <3> QED BY <3>1, <3>2 DEF Kid
  <2>4. Children'
    <3>1. \E j \in Kid : kid'[j] \in {"start", "exec", "zombie"}
      BY <2>2
    <3>2. \A j \in Kid : kid[j] # "none" => kid'[j] # "none"
      BY <2>2
    <3> QED BY <2>1, <3>1, <3>2 DEF Children
  <2> QED BY <2>1, <2>3, <2>4
<1>2. ASSUME NEW k \in Kid, RunToEnd(k) PROVE WaitInv'
  BY <1>1, <1>2 DEF RunToEnd
<1>3. ASSUME NEW k \in Kid, Exec(k) PROVE WaitInv'
  <2>1. /\ exe = "pipe" /\ kid[k] = "start" /\ kid' = [kid EXCEPT ![k] = "exec"]
        /\ IF k = 1 THEN rd' = rd \ {1} /\ wr' = wr ELSE wr' = wr \ {2} /\ rd' = rd
        /\ UNCHANGED <<exe, listing, pstep, output>>
    BY <1>3 DEF Exec, LsEnds, KidUnchanged
  <2>2. kid'[k] = "exec" /\ \A j \in Kid \ {k} : kid'[j] = kid[j]
    BY <2>1 DEF Types
  <2>3. Ends'
    <3>1. CASE k = 1
      <4>1. /\ kid[1] = "start" /\ kid'[1] = "exec" /\ kid'[2] = kid[2]
            /\ rd' = rd \ {1} /\ wr' = wr
        BY <2>1, <2>2, <3>1 DEF Kid
      <4> QED BY <2>1, <4>1 DEF Ends
    <3>2. CASE k = 2
      <4>1. /\ kid[2] = "start" /\ kid'[2] = "exec" /\ kid'[1] = kid[1]
            /\ rd' = rd /\ wr' = wr \ {2}
        BY <2>1, <2>2, <3>2 DEF Kid
      <4> QED BY <2>1, <4>1 DEF Ends
    <3> QED BY <3>1, <3>2 DEF Kid
  <2>4. Children'
    <3>1. \E j \in Kid : kid'[j] \in {"start", "exec", "zombie"}
      BY <2>2
    <3>2. \A j \in Kid : kid[j] # "none" => kid'[j] # "none"
      BY <2>2
    <3> QED BY <2>1, <3>1, <3>2 DEF Children
  <2> QED BY <2>1, <2>3, <2>4
<1>4. CASE LsStep
  <2>1. CASE KidExits(1, 0) \/ KidExits(1, 13)
    BY <2>1, <1>1, <1>4 DEF LsStep, LsWrites, LsDone
  <2>2. CASE /\ output < listing /\ output' = output + 1
             /\ UNCHANGED <<exe, listing, pstep, kid, rd, wr>>
    <3>1. output' <= listing
      BY <2>2 DEF Types
    <3>2. Ends' /\ Children'
      BY <2>2 DEF Ends, Children
    <3> QED BY <2>2, <3>1, <3>2
  <2> QED BY <1>4, <2>1, <2>2 DEF LsStep, LsWrites, LsDone, KidUnchanged
<1>5. CASE WcStep
  <2>1. CASE WcDone
    BY <2>1, <1>1 DEF WcDone
  <2>2. CASE WcReads
    <3>1. UNCHANGED <<exe, listing, pstep, kid, rd, wr, output>>
      BY <2>2 DEF WcReads, KidUnchanged
    <3> QED BY <3>1 DEF Ends, Children
  <2> QED BY <1>5, <2>1, <2>2 DEF WcStep
<1> QED BY <1>2, <1>3, <1>4, <1>5

\* Where all wait, all have ended: the one a process waits for can go on, or
\* waits for a third that can.
LEMMA NoCircle ==
  ASSUME PipeInv, WaitInv PROVE NobodyWaitsInVain
<1> USE DEF PipeInv, WaitInv
<1>1. SUFFICES ASSUME ~ParentGoesOn, ~LsGoesOn, ~WcGoesOn, \A k \in Kid : ~KidGoesOn(k)
               PROVE  Finished
  BY DEF NobodyWaitsInVain
<1>2. /\ pstep \in {"wait", "done"}
      /\ pstep = "wait" => \A k \in Kid : kid[k] # "zombie"
      /\ \A k \in Kid : kid[k] # "start"
      /\ pstep = "done" => \A k \in Kid : kid[k] # "zombie"
  BY <1>1 DEF ParentGoesOn, KidGoesOn, Children
<1>3. rd \subseteq {2} /\ (2 \in rd => kid[2] = "exec")
  BY <1>2 DEF Ends
<1>4. wr \subseteq {1} /\ (1 \in wr => kid[1] = "exec")
  BY <1>2 DEF Ends
<1>5. kid[1] # "exec"
  <2>1. SUFFICES ASSUME kid[1] = "exec" PROVE FALSE
    OBVIOUS
  <2>2. rd # {} /\ ~(buffered < PipeSize)
    BY <2>1, <1>1 DEF LsGoesOn
  <2>3. kid[2] = "exec"
    BY <2>2, <1>3
  <2>4. buffered \in Nat /\ PipeSize \in Nat \ {0}
    BY ProcessesAssumption DEF ProcessesAssumption, Types
  <2>5. buffered > 0
    BY <2>2, <2>4
  <2> QED BY <2>3, <2>5, <1>1 DEF WcGoesOn
<1>6. kid[2] # "exec"
  BY <1>1, <1>4, <1>5 DEF WcGoesOn
<1>7. \A k \in Kid : kid[k] \in {"none", "reaped"}
  BY <1>2, <1>5, <1>6 DEF Types
<1>8. pstep = "done"
  BY <1>2, <1>7 DEF Children
<1> QED BY <1>7, <1>8 DEF Finished

\* baitap3 and baitap8: in every state in which not all has ended some process
\* can go on, for every amount of output, size of the pipe and failing call.
THEOREM ProcessesGoOn == ProcessesSpec => []NobodyWaitsInVain
<1>1. WaitInv /\ PipeInv /\ [ProcessesNext]_processesVars => WaitInv'
  <2> SUFFICES ASSUME WaitInv, PipeInv, [ProcessesNext]_processesVars PROVE WaitInv'
    OBVIOUS
  <2>1. CASE UNCHANGED processesVars
    BY <2>1 DEF processesVars, pipeVars, WaitInv, Ends, Children
  <2> QED BY <2>1, ParentWaits, ReapWaits, KidWaits DEF ProcessesNext, ParentStep
<1>2. PipeInv /\ [ProcessesNext]_processesVars => PipeInv'
  BY PipeStep
<1>3. PipeInv /\ WaitInv => NobodyWaitsInVain
  BY NoCircle
<1> QED BY PipeInit, WaitInit, <1>1, <1>2, <1>3, PTL DEF ProcessesSpec
=============================================================================

----------------------------- MODULE Processes -----------------------------
(***************************************************************************)
(* baitap3 and baitap8: programs that fork; exe says which one runs.       *)
(*   "status"   process1.c: the child exits with 10, the parent waits;     *)
(*   "command"  process2.c: the child execs a command, the parent waits;   *)
(*   "zombie"   zombie.c: the parent sleeps before it waits;               *)
(*   "orphan"   orphan.c: the parent exits at once;                        *)
(*   "pipe"     mypipe.c: ls -l | wc -l, children 1 and 2.                 *)
(* Process 0 is the parent.  Of the kernel the model keeps the child's     *)
(* zombie state between its exit and the wait of its parent, or of init    *)
(* when the parent is gone, and which processes hold the ends of the pipe. *)
(* orphan.c is modelled with the brace its line 19 lacks.                  *)
(***************************************************************************)
EXTENDS Integers, FiniteSets

CONSTANTS
  MaxOutput,   \* bound: lines ls has to write
  PipeSize     \* lines the pipe holds

ASSUME ProcessesAssumption == MaxOutput \in Nat /\ PipeSize \in Nat \ {0}

Kid == {1, 2}

VARIABLES
  exe,
  listing,    \* lines ls has to write
  pstep,      \* parent: "pipe", "fork1", "fork2", "close", "sleep", "wait", "done"
  kid,        \* "none", "start", "exec", "zombie", "reaped"
  code,       \* exit status; 13: killed by SIGPIPE
  report,     \* the status the parent's last wait returned
  rd, wr,     \* processes that hold the read end, the write end
  buffered, output, counted   \* lines in the pipe, written by ls, read by wc

pipeVars      == <<rd, wr, buffered, output, counted>>
processesVars == <<exe, listing, pstep, kid, code, report, pipeVars>>

ProcessesInit ==
  /\ exe \in {"status", "command", "zombie", "orphan", "pipe"}
  /\ listing \in 0 .. MaxOutput
  /\ pstep = IF exe = "pipe" THEN "pipe" ELSE "fork1"
  /\ kid = [k \in Kid |-> "none"]
  /\ code = [k \in Kid |-> 0]
  /\ report = 0
  /\ rd = {} /\ wr = {}
  /\ buffered = 0 /\ output = 0 /\ counted = 0

-----------------------------------------------------------------------------
(* The parent. *)

\* exit(1) after a failed call closes what the parent has open.
ParentFails == pstep' = "done" /\ rd' = rd \ {0} /\ wr' = wr \ {0}

MakePipe ==
  /\ pstep = "pipe"
  /\ \/ pstep' = "fork1" /\ rd' = {0} /\ wr' = {0}
     \/ ParentFails
  /\ UNCHANGED <<exe, listing, kid, code, report, buffered, output, counted>>

AfterFork(k) ==
  CASE exe \in {"status", "command"} -> "wait"
    [] exe = "zombie"                -> "sleep"
    [] exe = "orphan"                -> "done"
    [] exe = "pipe"                  -> IF k = 1 THEN "fork2" ELSE "close"

\* The child has what its parent has open.
Inherit(holders, k) == IF 0 \in holders THEN holders \cup {k} ELSE holders

Fork(k) ==
  /\ pstep = IF k = 1 THEN "fork1" ELSE "fork2"
  /\ \/ /\ kid' = [kid EXCEPT ![k] = "start"]
        /\ pstep' = AfterFork(k)
        /\ rd' = Inherit(rd, k) /\ wr' = Inherit(wr, k)
     \/ ParentFails /\ UNCHANGED kid
  /\ UNCHANGED <<exe, listing, code, report, buffered, output, counted>>

Closed_BugReadOnly == wr   \* without close(fd[1])
Closed == wr \ {0}

\* mypipe.c closes both ends, zombie.c sleeps.
CloseOrSleep ==
  /\ pstep \in {"close", "sleep"}
  /\ pstep' = "wait"
  /\ rd' = rd \ {0} /\ wr' = Closed
  /\ UNCHANGED <<exe, listing, kid, code, report, buffered, output, counted>>

LastWait(k) == exe = "pipe" => \A j \in Kid \ {k} : kid[j] = "reaped"

\* wait() returns for a child that has ended.
MayCollect(k) == kid[k] = "zombie"

Wait(k) ==
  /\ pstep = "wait"
  /\ MayCollect(k)
  /\ kid' = [kid EXCEPT ![k] = "reaped"]
  /\ report' = code[k]
  /\ pstep' = IF LastWait(k) THEN "done" ELSE "wait"
  /\ UNCHANGED <<exe, listing, code, pipeVars>>

ParentStep == MakePipe \/ CloseOrSleep \/ \E k \in Kid : Fork(k) \/ Wait(k)

\* The child of a parent that is gone is init's, which waits for it.
InitReaps(k) ==
  /\ pstep = "done"
  /\ kid[k] = "zombie"
  /\ kid' = [kid EXCEPT ![k] = "reaped"]
  /\ UNCHANGED <<exe, listing, pstep, code, report, pipeVars>>

-----------------------------------------------------------------------------
(* The children. *)

KidUnchanged == UNCHANGED <<exe, listing, pstep, report>>

KidExits(k, c) ==
  /\ kid' = [kid EXCEPT ![k] = "zombie"]
  /\ code' = [code EXCEPT ![k] = c]
  /\ rd' = rd \ {k} /\ wr' = wr \ {k}
  /\ UNCHANGED <<buffered, output, counted>>
  /\ KidUnchanged

ExitCodes == [status |-> {10}, command |-> {0, 127}, zombie |-> {0},
              orphan |-> {0}, pipe |-> {1}]

\* The children that exec nothing or whose execlp fails, and process2.c's
\* command, run to their end in one step.
RunToEnd(k) ==
  /\ kid[k] = "start"
  /\ \E c \in ExitCodes[exe] : KidExits(k, c)

LsEnds_BugNoDup == rd' = rd \ {1} /\ wr' = wr \ {1}   \* without dup2
\* ls keeps the write end as its stdout, and closes the read end.
LsEnds == rd' = rd \ {1} /\ UNCHANGED wr

\* mypipe.c: dup2, the two closes and a successful execlp.
Exec(k) ==
  /\ exe = "pipe"
  /\ kid[k] = "start"
  /\ kid' = [kid EXCEPT ![k] = "exec"]
  /\ IF k = 1 THEN LsEnds ELSE wr' = wr \ {2} /\ UNCHANGED rd
  /\ UNCHANGED <<code, buffered, output, counted>>
  /\ KidUnchanged

\* ls writes a line: into the pipe, or to its death if nobody can read it.
LsWrites ==
  /\ kid[1] = "exec"
  /\ output < listing
  /\ IF rd = {} /\ 1 \in wr
     THEN KidExits(1, 13)
     ELSE /\ 1 \in wr => buffered < PipeSize
          /\ buffered' = IF 1 \in wr THEN buffered + 1 ELSE buffered
          /\ output' = output + 1
          /\ UNCHANGED <<kid, code, rd, wr, counted>>
          /\ KidUnchanged

LsDone == kid[1] = "exec" /\ output = listing /\ KidExits(1, 0)

WcReads ==
  /\ kid[2] = "exec"
  /\ buffered > 0
  /\ buffered' = 0
  /\ counted' = counted + buffered
  /\ UNCHANGED <<kid, code, rd, wr, output>>
  /\ KidUnchanged

\* End of file: the pipe is empty and nobody holds a write end.
WcDone ==
  /\ kid[2] = "exec"
  /\ buffered = 0
  /\ wr = {}
  /\ KidExits(2, 0)

LsStep == LsWrites \/ LsDone
WcStep == WcReads \/ WcDone

ProcessesNext ==
  \/ ParentStep
  \/ \E k \in Kid : RunToEnd(k) \/ Exec(k) \/ InitReaps(k)
  \/ LsStep
  \/ WcStep

\* Every process that can run does, and init waits for its children.
ProcessesFairness ==
  /\ WF_processesVars(ParentStep)
  /\ \A k \in Kid : WF_processesVars(RunToEnd(k) \/ Exec(k) \/ InitReaps(k))
  /\ WF_processesVars(LsStep) /\ WF_processesVars(WcStep)

ProcessesSpec ==
  ProcessesInit /\ [][ProcessesNext]_processesVars /\ ProcessesFairness

-----------------------------------------------------------------------------
(* Properties. *)

\* mypipe.c: what wc prints is the number of lines ls wrote, all of them, and
\* ls has ended.
WcCountsAll ==
  kid[2] \in {"zombie", "reaped"} /\ code[2] = 0
    => counted = output /\ kid[1] # "exec"

\* Every program ends and leaves no zombie: no process waits for ever for end
\* of file, for room in the pipe or for a child, also when fork or exec fails.
EverythingEnds ==
  <>(pstep = "done" /\ \A k \in Kid : kid[k] \in {"none", "reaped"})
=============================================================================

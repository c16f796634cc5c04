------------------------------ MODULE Signals ------------------------------
(***************************************************************************)
(* baitap5: four programs that catch signals; program says which one runs. *)
(*   "counter"  ex1: counts SIGINT and exits at the third;                 *)
(*   "timer"    ex2: counts seconds by SIGALRM and exits at the tenth;     *)
(*   "child"    ex3: a child that waits for SIGUSR1s from its parent;      *)
(*   "echo"     ex4: echoes lines with select until SIGTERM.               *)
(* The first three call signal(), which _POSIX_C_SOURCE and -std=gnu11 of  *)
(* the Makefile make System V's: a handler is there for ONE delivery.  The *)
(* fourth uses sigaction.  A signal already pending is not queued again,   *)
(* and one without a handler ends the process.  A handler runs as one      *)
(* step: a signal that would interrupt it has the same effect just after   *)
(* it.  ex1 is modelled without its line 29, a stray word that keeps it    *)
(* from compiling.                                                         *)
(***************************************************************************)
EXTENDS Integers

CONSTANTS
  Times,      \* SIGINTs "counter" waits for (3), seconds "timer" does (10)
  Shots,      \* SIGUSR1s the parent sends (5)
  MaxLines    \* bound: lines waiting on stdin

ASSUME SignalsAssumption == Times \in Nat /\ Shots \in Nat /\ MaxLines \in Nat

VARIABLES
  program,
  status,     \* "running", "exited", "killed", "reaped" (by the parent's wait)
  pc,         \* "start", "pause"; of "echo": "test", "ready", "select", "read"
  handled,    \* signals with a handler
  pending,    \* signals sent and not delivered
  count,      \* sigint_count, seconds; of "child": signals handled
  armed,      \* an alarm is set
  got,        \* got_sigint, got_sigterm: the signals "echo" has handled
  lines, eof, \* stdin
  sent        \* what the parent has sent: SIGUSR1s, then SIGTERM; then it waits

signalsVars == <<program, status, pc, handled, pending, count, armed, got,
                 lines, eof, sent>>

SignalsInit ==
  /\ program \in {"counter", "timer", "child", "echo"}
  /\ status = "running" /\ pc = "start"
  /\ handled = {} /\ pending = {} /\ got = {}
  /\ count = 0 /\ lines = 0 /\ sent = 0
  /\ armed = FALSE /\ eof = FALSE

-----------------------------------------------------------------------------
(* The program that is signalled. *)

Caught == [counter |-> {"SIGINT"}, timer |-> {"SIGALRM"}, child |-> {"SIGUSR1"},
           echo |-> {"SIGINT", "SIGTERM"}]

\* signal() or the two sigaction()s, and for the timer its first alarm(1).
Install ==
  /\ pc = "start"
  /\ handled' = Caught[program]
  /\ armed' = (program = "timer")
  /\ pc' = IF program = "echo" THEN "test" ELSE "pause"
  /\ UNCHANGED <<program, status, pending, count, got, lines, eof, sent>>

\* The handlers that are left when sig has been delivered.
Reset(sig) == IF program = "echo" THEN handled ELSE handled \ {sig}

\* The three handlers of ex1 to ex3.
CountHandler ==
  /\ count' = count + 1
  /\ status' = IF program # "child" /\ count + 1 >= Times THEN "exited" ELSE status
  /\ armed' = (program = "timer" /\ count + 1 < Times)
  /\ UNCHANGED <<pc, got>>

\* The two of ex4 set a flag; a select under way returns EINTR, and whether
\* the code breaks or continues the flag is what decides.
FlagHandler(sig) ==
  /\ got' = got \cup {sig}
  /\ pc' = IF pc = "select" THEN "test" ELSE pc
  /\ UNCHANGED <<count, status, armed>>

Deliver(sig) ==
  /\ sig \in pending
  /\ pending' = pending \ {sig}
  /\ IF sig \in handled
     THEN /\ handled' = Reset(sig)
          /\ IF program = "echo" THEN FlagHandler(sig) ELSE CountHandler
     ELSE /\ status' = "killed"
          /\ UNCHANGED <<handled, count, got, pc, armed>>
  /\ UNCHANGED <<program, lines, eof, sent>>

EchoUnchanged ==
  UNCHANGED <<program, handled, pending, count, armed, got, eof, sent>>

Asked == "SIGTERM" \in got   \* got_sigterm

Leave_BugForever == FALSE   \* while (1)
Leave == Asked              \* while (!got_sigterm)

Test ==
  /\ pc = "test"
  /\ IF Leave THEN status' = "exited" /\ UNCHANGED pc
              ELSE pc' = "ready" /\ UNCHANGED status
  /\ UNCHANGED lines
  /\ EchoUnchanged

\* select() begins: it will sleep whatever the flag says by now.
Sleep ==
  /\ pc = "ready"
  /\ pc' = "select"
  /\ UNCHANGED <<status, lines>>
  /\ EchoUnchanged

\* select() returns because stdin has something to read.
Wake ==
  /\ pc = "select"
  /\ lines > 0 \/ eof
  /\ pc' = "read"
  /\ UNCHANGED <<status, lines>>
  /\ EchoUnchanged

\* read(): a line is echoed, or end of input ends the program.
Echo ==
  /\ pc = "read"
  /\ IF lines > 0
     THEN /\ lines' = lines - 1
          /\ pc' = "test"
          /\ UNCHANGED status
     ELSE /\ status' = "exited"
          /\ UNCHANGED <<lines, pc>>
  /\ EchoUnchanged

Run == status = "running" /\ (Install \/ Test \/ Sleep \/ Wake \/ Echo)

-----------------------------------------------------------------------------
(* Who sends signals. *)

Post(sig) == pending' = IF status = "running" THEN pending \cup {sig} ELSE pending

AlarmRings ==
  /\ armed
  /\ Post("SIGALRM")
  /\ armed' = FALSE
  /\ UNCHANGED <<program, status, pc, handled, count, got, lines, eof, sent>>

\* Ctrl+C, kill, a line, the end of input.
User ==
  /\ program \in {"counter", "echo"} /\ status = "running"
  /\ \/ /\ \E sig \in Caught[program] : Post(sig)
        /\ UNCHANGED <<lines, eof>>
     \/ /\ program = "echo" /\ lines < MaxLines /\ ~eof
        /\ lines' = lines + 1
        /\ UNCHANGED <<pending, eof>>
     \/ program = "echo" /\ eof' = TRUE /\ UNCHANGED <<lines, pending>>
  /\ UNCHANGED <<program, status, pc, handled, count, armed, got, sent>>

Stop_BugMissing == UNCHANGED pending   \* without kill(pid, SIGTERM)
Stop == Post("SIGTERM")

\* ex3's parent: kill() of a child that has ended and was not waited for
\* succeeds and does nothing; wait() collects the child.
Parent ==
  /\ program = "child"
  /\ \/ sent < Shots /\ Post("SIGUSR1") /\ UNCHANGED status
     \/ sent = Shots /\ Stop /\ UNCHANGED status
     \/ sent = Shots + 1 /\ status \in {"exited", "killed"}
        /\ status' = "reaped" /\ UNCHANGED pending
  /\ sent' = sent + 1
  /\ UNCHANGED <<program, pc, handled, count, armed, got, lines, eof>>

Signal == {"SIGINT", "SIGALRM", "SIGUSR1", "SIGTERM"}
Delivery(sig) == status = "running" /\ Deliver(sig)

SignalsNext ==
  \/ Run \/ AlarmRings \/ User \/ Parent
  \/ \E sig \in Signal : Delivery(sig)

\* Processes run, the clock goes on and pending signals are delivered; nothing
\* is assumed of the user.
SignalsFairness ==
  /\ WF_signalsVars(Run) /\ WF_signalsVars(AlarmRings) /\ WF_signalsVars(Parent)
  /\ \A sig \in Signal : WF_signalsVars(Delivery(sig))

SignalsSpec == SignalsInit /\ [][SignalsNext]_signalsVars /\ SignalsFairness

-----------------------------------------------------------------------------
(* Properties. *)

\* ex3: whether the child dies at the first SIGUSR1, at a later one or only by
\* SIGTERM, and however many are merged, the parent gets through its loop and
\* its wait and leaves no zombie.
ParentFinishes == <>(program = "child" => status = "reaped")

\* ex4: a program that missed SIGTERM, because the flag was set between its
\* test and select, is ended by the next input or the next signal.
QuitsAtNextInput ==
  (Asked /\ (lines > 0 \/ eof \/ (pc = "select" /\ pending # {})))
    ~> (status # "running")

-----------------------------------------------------------------------------
(* What the programs' text says and the programs do not do. *)

\* ex1 line 27, "Press Ctrl+C up to 3 times to exit."; ex2 line 28, "Starting
\* timer (1s tick). Will stop after 10 seconds."; ex3 line 33, "Will send SIGUSR1
\* to child (pid %d) 5 times every 2 seconds.", whose child pauses for ever: a
\* signal that a program has set up its handler for does not kill it.  ex3's
\* child is to be killed, but by the SIGTERM that comes last.
SurvivesWhatItCatches ==
  pc # "start" /\ (program = "child" => sent <= Shots) => status # "killed"

\* ex4 line 47, "SIGTERM to quit.": a SIGTERM that has been handled ends the
\* program, also when it comes between the test of the flag and select.
SigtermQuits == Asked ~> (status # "running")
=============================================================================

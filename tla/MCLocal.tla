------------------------------ MODULE MCLocal ------------------------------
(***************************************************************************)
(* For TLC: the exercises about threads, signals, processes and strings of *)
(* one machine.  They share nothing, so one run checks them all: mode says *)
(* which one a behaviour is of, and the variables of the others stay at    *)
(* one of their initial values.                                            *)
(***************************************************************************)
EXTENDS Threads, Signals, Processes, StrUtils

\* Number reads digits as decimals do: each counts ten times the next.
ASSUME NumberIsPositional ==
  \A n \in 0 .. Size : \A s \in [1 .. n -> DOMAIN Digit] :
    Number(s) = MapThenSumSet(LAMBDA i : Digit[s[i]] * 10 ^ (n - i), 1 .. n)

VARIABLE mode

LocalInit ==
  /\ mode \in {"threads", "signals", "processes", "strings"}
  /\ StrInit
  /\ mode # "strings" => \A i \in DOMAIN buf : buf[i] = NUL
  /\ ThreadsInit /\ SignalsInit /\ ProcessesInit
  /\ mode # "signals" => program = "counter"
  /\ mode # "processes" => exe = "status" /\ listing = 0

LocalNext ==
  /\ UNCHANGED mode
  /\ \/ mode = "threads" /\ ThreadsNext /\ UNCHANGED <<signalsVars, processesVars, strVars>>
     \/ mode = "signals" /\ SignalsNext /\ UNCHANGED <<threadsVars, processesVars, strVars>>
     \/ mode = "processes" /\ ProcessesNext /\ UNCHANGED <<threadsVars, signalsVars, strVars>>
     \/ mode = "strings" /\ StrNext /\ UNCHANGED <<threadsVars, signalsVars, processesVars>>

LocalSpec ==
  /\ LocalInit
  /\ [][LocalNext]_<<mode, threadsVars, signalsVars, processesVars, strVars>>
  /\ mode = "threads" => ThreadsFairness
  /\ mode = "signals" => SignalsFairness
  /\ mode = "processes" => ProcessesFairness

-----------------------------------------------------------------------------
(* The properties that say something of every behaviour of their module. *)

\* baitap4 ends, unless the consumer has missed an item.
ThreadsEnd == mode = "threads" => EndsUnlessLost

\* baitap3 and baitap8 end without a zombie.
ProcessesEnd == mode = "processes" => EverythingEnds
=============================================================================

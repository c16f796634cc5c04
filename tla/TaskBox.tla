------------------------------ MODULE TaskBox ------------------------------
(***************************************************************************)
(* What the dispatchers and workers of baitap7 are promised of their task  *)
(* queue, with queues, names, processes and their crashes forgotten:       *)
(*   - from its opening to its closing a task that was put in stays until  *)
(*     it is taken, whoever is killed;                                     *)
(*   - what is taken is one of the most urgent tasks that wait;            *)
(*   - a task that was taken is done, or lost by the one who took it, and  *)
(*     then alone;                                                         *)
(*   - a task is taken at most once, even after the closing, when tasks    *)
(*     can be left where nobody takes them.                                *)
(***************************************************************************)
EXTENDS Integers

CONSTANT Task

VARIABLES
  opened, closed,   \* the box has been opened, has been closed
  put, waiting,     \* tasks put in; those of them not taken
  held, done,       \* tasks taken and not yet done; tasks done
  urgency           \* of every task

boxVars == <<opened, closed, put, waiting, held, done, urgency>>

BoxInit ==
  /\ opened = FALSE /\ closed = FALSE
  /\ put = {} /\ waiting = {} /\ held = {} /\ done = {}

Open ==
  /\ opened' = TRUE
  /\ UNCHANGED <<closed, put, waiting, held, done, urgency>>

Put(t) ==
  /\ opened
  /\ t \notin put
  /\ put' = put \cup {t}
  /\ waiting' = waiting \cup {t}
  /\ UNCHANGED <<opened, closed, held, done, urgency>>

Take(t) ==
  /\ t \in waiting
  /\ ~closed => \A u \in waiting : urgency[t] >= urgency[u]
  /\ waiting' = waiting \ {t}
  /\ held' = held \cup {t}
  /\ UNCHANGED <<opened, closed, put, done, urgency>>

Finish(t) ==
  /\ t \in held
  /\ held' = held \ {t}
  /\ done' = done \cup {t}
  /\ UNCHANGED <<opened, closed, put, waiting, urgency>>

Lose(t) ==
  /\ t \in held
  /\ held' = held \ {t}
  /\ UNCHANGED <<opened, closed, put, waiting, done, urgency>>

\* Who closes the box may have a task in hand.
Close ==
  /\ opened
  /\ closed' = TRUE
  /\ held' = held \/ \E t \in held : held' = held \ {t}
  /\ UNCHANGED <<opened, put, waiting, done, urgency>>

BoxNext ==
  \/ Open
  \/ Close
  \/ \E t \in Task : Put(t) \/ Take(t) \/ Finish(t) \/ Lose(t)

BoxSpec == BoxInit /\ [][BoxNext]_boxVars
=============================================================================

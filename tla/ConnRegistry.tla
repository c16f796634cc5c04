---------------------------- MODULE ConnRegistry ----------------------------
(***************************************************************************)
(* What both chat programs promise of their connection table, with slots,  *)
(* descriptors, locks and threads forgotten: a set of members, each a pair *)
(* of a connection id and the connection it stands for.                    *)
(*   - a new member gets the next id, so no id is ever given out twice;    *)
(*   - a connection is never listed under two ids;                         *)
(*   - the table never holds more than Capacity members;                   *)
(*   - a member is never changed, only removed.                            *)
(***************************************************************************)
EXTENDS Naturals, FiniteSets

CONSTANTS
  Capacity,   \* MAX_CONN of the first program, MAX_CONN of the second
  MaxId,      \* bound: ids given out
  Conn        \* connections

VARIABLES
  members,    \* <<id, connection>> pairs
  last        \* the id given out last, 0 before the first

regVars == <<members, last>>

Ids == 1 .. MaxId

RegInit ==
  /\ members = {}
  /\ last = 0

Join(s) ==
  /\ Cardinality(members) < Capacity
  /\ \A m \in members : m[2] # s
  /\ last < MaxId
  /\ last' = last + 1
  /\ members' = members \cup {<<last', s>>}

\* An id is used up by an attempt that fails.
Burn ==
  /\ last < MaxId
  /\ last' = last + 1
  /\ UNCHANGED members

Leave(m) ==
  /\ m \in members
  /\ members' = members \ {m}
  /\ UNCHANGED last

Clear ==
  /\ members' = {}
  /\ UNCHANGED last

RegNext ==
  \/ \E s \in Conn : Join(s)
  \/ Burn
  \/ \E m \in members : Leave(m)
  \/ Clear

RegSpec == RegInit /\ [][RegNext]_regVars
=============================================================================

--------------------------- MODULE StrUtilsProofs ---------------------------
(***************************************************************************)
(* Theorems about StrUtils, for every size of the buffer, every text in it *)
(* and every range of the numbers.  The loops of strutils.c are recursive  *)
(* functions; what they compute is proved by the least counterexample, of  *)
(* which LeastNat says that there would be one.                            *)
(***************************************************************************)
EXTENDS StrUtils, SequenceTheorems, WellFoundedInduction, TLAPS

-----------------------------------------------------------------------------
(* Least elements and induction. *)

\* A set of natural numbers has a least element.
LEMMA LeastNat ==
  ASSUME NEW S, S \subseteq Nat, S # {}
  PROVE  \E x \in S : \A y \in S : x =< y
<1>1. PICK x \in S : \A y \in S : <<y, x>> \notin OpToRel(<, Nat)
  BY NatLessThanWellFounded, WFMin, Zenon
<1>2. ASSUME NEW y \in S PROVE x =< y
  <2>1. <<y, x>> \in OpToRel(<, Nat) <=> y < x
    BY DEF OpToRel
  <2>2. ~(y < x)
    BY <2>1, <1>1
  <2>3. x \in Nat /\ y \in Nat
    OBVIOUS
  <2> QED BY <2>2, <2>3
<1> QED BY <1>2

\* Min, with which the loops that look for a character are written, finds it.
LEMMA MinLeast ==
  ASSUME NEW S, S \subseteq Nat, S # {}
  PROVE  Min(S) \in S /\ \A y \in S : Min(S) =< y
BY LeastNat, Zenon DEF Min

\* So does Max, with which the loop that looks backwards is written.
LEMMA MaxGreatest ==
  ASSUME NEW S, NEW n \in Nat, S \subseteq 0 .. n, S # {}
  PROVE  Max(S) \in S /\ \A y \in S : Max(S) >= y
<1> DEFINE T == {n - i : i \in S}
<1>1. PICK x \in T : \A y \in T : x =< y
  <2>1. T # {}
    OBVIOUS
  <2>2. \A i \in S : n - i \in Nat
    OBVIOUS
  <2>3. T \subseteq Nat
    BY <2>2
  <2> HIDE DEF T
  <2> QED BY <2>1, <2>3, LeastNat
<1>2. PICK i \in S : x = n - i
  OBVIOUS
<1>3. ASSUME NEW y \in S PROVE i >= y
  <2>1. n - y \in T
    OBVIOUS
  <2> QED BY <2>1, <1>1, <1>2
<1>4. \E z \in S : \A y \in S : z >= y
  BY <1>3
<1> QED BY <1>4, Zenon DEF Max

\* Induction up to n, over the set of the indices for which the claim holds.
LEMMA InductionUpTo ==
  ASSUME NEW n \in Nat, NEW S,
         0 \in S, \A k \in 0 .. n - 1 : k \in S => k + 1 \in S
  PROVE  \A k \in 0 .. n : k \in S
<1> DEFINE Fails == {k \in 0 .. n : k \notin S}
<1>1. SUFFICES ASSUME Fails # {} PROVE FALSE
  OBVIOUS
<1>2. PICK x \in Fails : \A y \in Fails : x =< y
  <2>1. Fails \subseteq Nat
    OBVIOUS
  <2> HIDE DEF Fails
  <2> QED BY <2>1, <1>1, LeastNat
<1>3. x # 0 /\ x \in 0 .. n
  OBVIOUS
<1>4. x - 1 \in 0 .. n - 1 /\ ~(x =< x - 1)
  BY <1>3
<1>5. x - 1 \in S
  BY <1>2, <1>4
<1>6. x \in S
  BY <1>4, <1>5, <1>3
<1> QED BY <1>6

\* The rounds of a loop: from the value after round i - 1 each yields the one
\* after round i.
Rounds(n, V) == [(1 .. n) \X V -> V]

\* f holds the values of such a loop, from b on.
Runs(f, V, b, n, G) ==
  /\ f \in [0 .. n -> V]
  /\ \A i \in 0 .. n : f[i] = IF i = 0 THEN b ELSE G[<<i, f[i - 1]>>]

\* There is such an f, whatever the rounds do: the recursive functions that
\* describe loops are not empty words.
LEMMA LoopExists ==
  ASSUME NEW V, NEW b \in V, NEW n \in Nat, NEW G \in Rounds(n, V)
  PROVE  \E f : Runs(f, V, b, n, G)
<1> DEFINE Ends(k) ==
      \E f \in [0 .. k -> V] :
        \A i \in 0 .. k : f[i] = IF i = 0 THEN b ELSE G[<<i, f[i - 1]>>]
           S == {k \in 0 .. n : Ends(k)}
<1>1. 0 \in S
  <2>1. [i \in 0 .. 0 |-> b] \in [0 .. 0 -> V]
    OBVIOUS
  <2>2. \A i \in 0 .. 0 : [j \in 0 .. 0 |-> b][i] = IF i = 0 THEN b ELSE G[<<i, [j \in 0 .. 0 |-> b][i - 1]>>]
    OBVIOUS
  <2>3. Ends(0)
    BY <2>1, <2>2
  <2> QED BY <2>3
<1>2. ASSUME NEW k \in 0 .. n - 1, k \in S PROVE k + 1 \in S
  <2>1. PICK f \in [0 .. k -> V] :
          \A i \in 0 .. k : f[i] = IF i = 0 THEN b ELSE G[<<i, f[i - 1]>>]
    BY <1>2
  <2> DEFINE g == [i \in 0 .. k + 1 |-> IF i = k + 1 THEN G[<<k + 1, f[k]>>] ELSE f[i]]
  <2>2. f[k] \in V /\ k + 1 \in 1 .. n
    OBVIOUS
  <2>3. G[<<k + 1, f[k]>>] \in V
    BY <2>2 DEF Rounds
  <2>4. g \in [0 .. k + 1 -> V]
    BY <2>3
  <2>5. ASSUME NEW i \in 0 .. k + 1
        PROVE  g[i] = IF i = 0 THEN b ELSE G[<<i, g[i - 1]>>]
    <3>1. CASE i = k + 1
      <4>1. g[i] = G[<<i, f[k]>>]
        BY <3>1
      <4>2. i # 0 /\ i - 1 = k /\ k # k + 1 /\ k \in 0 .. k + 1
        BY <3>1
      <4>3. g[k] = f[k]
        BY <4>2
      <4> QED BY <4>1, <4>2, <4>3
    <3>2. CASE i # k + 1
      <4>1. i \in 0 .. k /\ (i # 0 => i - 1 \in 0 .. k /\ i - 1 # k + 1)
        BY <3>2
      <4>2. g[i] = f[i] /\ (i # 0 => g[i - 1] = f[i - 1])
        BY <4>1, <3>2
      <4> QED BY <4>1, <4>2, <2>1
    <3> QED BY <3>1, <3>2
  <2>6. Ends(k + 1)
    <3> HIDE DEF g
    <3> QED BY <2>4, <2>5
  <2> QED BY <2>6
<1>3. n \in S
  <2>1. \A k \in 0 .. n - 1 : k \in S => k + 1 \in S
    BY <1>2
  <2> HIDE DEF S
  <2> QED BY <1>1, <2>1, InductionUpTo
<1> QED BY <1>3 DEF Runs

-----------------------------------------------------------------------------
(* Buffers. *)

Position == 0 .. Size - 1

\* A buffer has positions from 0 on.
LEMMA Positions ==
  /\ Size \in Nat \ {0}
  /\ Position \subseteq Nat
  /\ \A m \in Buffer : DOMAIN m = Position
BY StrUtilsAssumption DEF StrUtilsAssumption, Position, Buffer

\* strlen finds the first NUL.
LEMMA StrlenFinds ==
  ASSUME NEW m \in Buffer
  PROVE  /\ strlen(m) \in Position
         /\ m[strlen(m)] = NUL
         /\ \A j \in 0 .. strlen(m) - 1 : j \in Position /\ m[j] # NUL
<1> DEFINE S == {i \in DOMAIN m : m[i] = NUL}
<1>1. S \subseteq Nat /\ S # {}
  BY Positions DEF Buffer
<1>2. Min(S) \in S /\ \A y \in S : Min(S) =< y
  <2> HIDE DEF S
  <2> QED BY <1>1, MinLeast
<1>3. strlen(m) = Min(S)
  BY DEF strlen
<1>4. strlen(m) \in Position /\ m[strlen(m)] = NUL
  BY <1>2, <1>3, Positions
<1>5. ASSUME NEW j \in 0 .. strlen(m) - 1 PROVE j \in Position /\ m[j] # NUL
  <2>1. j \in Position /\ ~(strlen(m) =< j)
    BY <1>4, Positions DEF Position
  <2> QED BY <2>1, <1>2, <1>3, Positions
<1> QED BY <1>4, <1>5

\* A NUL with none before it is where strlen stops.
LEMMA StrlenIs ==
  ASSUME NEW m \in Buffer, NEW n \in Position, m[n] = NUL,
         \A j \in 0 .. n - 1 : m[j] # NUL
  PROVE  strlen(m) = n
<1>1. strlen(m) \in Nat /\ n \in Nat
  BY StrlenFinds, Positions
<1>2. ~(strlen(m) < n)
  BY <1>1, StrlenFinds
<1>3. ~(n < strlen(m))
  BY <1>1, StrlenFinds
<1> QED BY <1>1, <1>2, <1>3

\* The text of a string is a sequence of its length.
LEMMA TextIs ==
  ASSUME NEW m \in Buffer
  PROVE  /\ Text(m) \in Seq(Char)
         /\ Len(Text(m)) = strlen(m)
         /\ DOMAIN Text(m) = 1 .. strlen(m)
         /\ \A i \in 1 .. strlen(m) : Text(m)[i] = m[i - 1]
<1>1. strlen(m) \in Nat
  BY StrlenFinds, Positions
<1>2. ASSUME NEW i \in 1 .. strlen(m) PROVE m[i - 1] \in Char
  <2>1. i - 1 \in 0 .. strlen(m) - 1
    BY <1>1
  <2>2. i - 1 \in Position
    BY <2>1, StrlenFinds
  <2> QED BY <2>2 DEF Buffer, Position
<1> QED BY <1>1, <1>2 DEF Text

\* Skipping spaces from a place in the string or at its end stops in it or at
\* its end, at the first character that is no space.
LEMMA SkipStops ==
  ASSUME NEW m \in Buffer, NEW p \in 0 .. strlen(m)
  PROVE  /\ SkipSpaces(m, p) \in p .. strlen(m)
         /\ m[SkipSpaces(m, p)] # Space
         /\ \A j \in p .. SkipSpaces(m, p) - 1 : m[j] = Space
<1> DEFINE S == {i \in p .. Size - 1 : m[i] # Space}
           n == strlen(m)
           z == SkipSpaces(m, p)
<1>1. n \in Nat /\ n =< Size - 1 /\ m[n] = NUL /\ Size \in Nat
  BY StrlenFinds, Positions DEF Position
<1> HIDE DEF n
<1>2. p \in 0 .. n
  BY DEF n
<1>3. p \in Nat /\ p =< n
  BY <1>1, <1>2
<1>4. n \in p .. Size - 1 /\ p .. Size - 1 \subseteq Nat
  BY <1>1, <1>3
<1>5. n \in S /\ S \subseteq Nat
  BY <1>1, <1>4 DEF NUL, Space
<1>6. Min(S) \in S /\ \A y \in S : Min(S) =< y
  <2> HIDE DEF S
  <2> QED BY <1>5, MinLeast
<1>7. z \in S /\ \A y \in S : z =< y
  BY <1>6 DEF SkipSpaces
<1> HIDE DEF z
<1>8. z \in p .. n /\ m[z] # Space
  BY <1>1, <1>3, <1>5, <1>7
<1>9. ASSUME NEW j \in p .. z - 1 PROVE m[j] = Space
  <2>1. j \in p .. Size - 1 /\ ~(z =< j)
    BY <1>1, <1>3, <1>8
  <2> QED BY <2>1, <1>7
<1> QED BY <1>8, <1>9 DEF n, z

\* Where it stops is known by what is before it and there.
LEMMA SkipIs ==
  ASSUME NEW m \in Buffer, NEW p \in 0 .. strlen(m), NEW e \in p .. strlen(m),
         m[e] # Space, \A j \in p .. e - 1 : m[j] = Space
  PROVE  SkipSpaces(m, p) = e
<1> DEFINE z == SkipSpaces(m, p)
<1>1. strlen(m) \in Nat
  BY StrlenFinds, Positions
<1>2. z \in p .. strlen(m) /\ m[z] # Space /\ \A j \in p .. z - 1 : m[j] = Space
  BY SkipStops
<1> HIDE DEF z
<1>3. p \in Int /\ z \in Int /\ e \in Int /\ p =< z /\ p =< e
  BY <1>1, <1>2
<1>4. ~(z < e)
  BY <1>2, <1>3
<1>5. ~(e < z)
  BY <1>2, <1>3
<1>6. z = e
  BY <1>3, <1>4, <1>5
<1> QED BY <1>6 DEF z

-----------------------------------------------------------------------------
(* str_reverse *)

\* The array after i swaps: the first i and the last i characters of the text
\* have changed places.
Turned(m, i) ==
  LET n == strlen(m)
  IN  [j \in Position |-> IF j < i \/ (n - i <= j /\ j < n) THEN m[n - 1 - j] ELSE m[j]]

\* One more swap turns one more character of each end.
LEMMA SwapTurns ==
  ASSUME NEW m \in Buffer, NEW i \in 1 .. Half(strlen(m))
  PROVE  Turned(m, i) = Swap(Turned(m, i - 1), i - 1, strlen(m) - i)
<1> DEFINE n == strlen(m)
           x == Turned(m, i - 1)
           y == Turned(m, i)
<1>1. n \in Nat /\ n =< Size - 1 /\ Size \in Nat
  BY StrlenFinds, Positions DEF Position
<1>2. \A j \in Position : j \in Int /\ 0 =< j /\ j < Size
  BY Positions DEF Position
<1>3. /\ \A j \in Position : x[j] = IF j < i - 1 \/ (n - (i - 1) <= j /\ j < n) THEN m[n - 1 - j] ELSE m[j]
      /\ \A j \in Position : y[j] = IF j < i \/ (n - i <= j /\ j < n) THEN m[n - 1 - j] ELSE m[j]
      /\ DOMAIN x = Position /\ DOMAIN y = Position
      /\ x = [j \in Position |-> x[j]] /\ y = [j \in Position |-> y[j]]
  BY DEF Turned
<1> HIDE DEF x, y, n
<1>4. i \in 1 .. n \div 2
  BY DEF n, Half
<1>5. i \in Nat /\ 1 =< i /\ 2 * i =< n
  BY <1>1, <1>4
<1>6. i - 1 \in Position /\ n - i \in Position /\ i - 1 # n - i
  BY <1>1, <1>5 DEF Position
<1>7. x[i - 1] = m[i - 1] /\ x[n - i] = m[n - i]
  BY <1>1, <1>3, <1>5, <1>6
<1>8. y[i - 1] = m[n - i] /\ y[n - i] = m[i - 1]
  <2>1. n - 1 - (i - 1) = n - i /\ n - 1 - (n - i) = i - 1
    BY <1>1, <1>5
  <2>2. i - 1 < i /\ n - i =< n - i /\ n - i < n
    BY <1>1, <1>5
  <2> QED BY <1>3, <1>6, <2>1, <2>2
<1>9. ASSUME NEW j \in Position, j # i - 1, j # n - i PROVE y[j] = x[j]
  <2>1. (j < i \/ (n - i <= j /\ j < n)) <=> (j < i - 1 \/ (n - (i - 1) <= j /\ j < n))
    BY <1>1, <1>2, <1>5, <1>9
  <2> QED BY <1>3, <2>1
<1>10. y = Swap(x, i - 1, n - i)
  BY <1>3, <1>6, <1>7, <1>8, <1>9 DEF Swap
<1> QED BY <1>10 DEF x, y, n

\* The loop ends with the whole text turned.
LEMMA ReverseTurns ==
  ASSUME NEW m \in Buffer
  PROVE  str_reverse(m) = Turned(m, Half(strlen(m)))
<1> DEFINE n == strlen(m)
           h == Half(n)
           Loop(f) == f = [i \in 0 .. h |-> IF i = 0 THEN m ELSE Swap(f[i - 1], i - 1, n - i)]
           round == CHOOSE f : Loop(f)
           g == [i \in 0 .. h |-> Turned(m, i)]
<1>1. str_reverse(m) = round[h]
  BY DEF str_reverse
<1>2. h \in Nat
  <2>1. n \in Nat
    BY StrlenFinds, Positions
  <2> QED BY <2>1 DEF Half
<1>3. Turned(m, 0) = m
  <2>1. n \in Nat /\ \A j \in Position : j \in Nat
    BY StrlenFinds, Positions
  <2>2. \A j \in Position : ~(j < 0 \/ (n - 0 <= j /\ j < n))
    BY <2>1
  <2>3. m = [j \in Position |-> m[j]]
    BY Positions DEF Buffer, Position
  <2> QED BY <2>2, <2>3 DEF Turned
<1>4. \A i \in 1 .. h : Turned(m, i) = Swap(Turned(m, i - 1), i - 1, n - i)
  BY SwapTurns
<1> HIDE DEF n, h
<1>5. Loop(g)
  <2>1. ASSUME NEW i \in 0 .. h
        PROVE  Turned(m, i) = IF i = 0 THEN m ELSE Swap(g[i - 1], i - 1, n - i)
    <3>1. CASE i = 0
      BY <1>3, <3>1
    <3>2. CASE i # 0
      <4>1. i \in 1 .. h /\ i - 1 \in 0 .. h
        BY <1>2, <3>2
      <4>2. g[i - 1] = Turned(m, i - 1)
        BY <4>1
      <4> QED BY <1>4, <3>2, <4>1, <4>2
    <3> QED BY <3>1, <3>2
  <2>2. g = [i \in 0 .. h |-> IF i = 0 THEN m ELSE Swap(g[i - 1], i - 1, n - i)]
    BY <2>1
  <2> QED BY <2>2
<1>6. Loop(round)
  <2> HIDE DEF Loop, g
  <2>1. \E f : Loop(f)
    BY <1>5
  <2> QED BY <2>1, Zenon
<1> HIDE DEF round
<1> DEFINE Right == {i \in 0 .. h : round[i] = Turned(m, i)}
<1>7. 0 \in Right
  BY <1>2, <1>3, <1>6
<1>8. ASSUME NEW k \in 0 .. h - 1, k \in Right PROVE k + 1 \in Right
  <2>1. k + 1 \in 0 .. h /\ k + 1 \in 1 .. h /\ k + 1 # 0 /\ (k + 1) - 1 = k
    BY <1>2
  <2>2. round[k + 1] = Swap(round[k], k, n - (k + 1))
    BY <1>6, <2>1
  <2>3. Turned(m, k + 1) = Swap(Turned(m, k), k, n - (k + 1))
    BY <1>4, <2>1
  <2> QED BY <1>8, <2>1, <2>2, <2>3
<1>9. h \in Right
  <2> HIDE DEF Right
  <2>1. \A k \in 0 .. h : k \in Right
    BY <1>2, <1>7, <1>8, InductionUpTo
  <2> QED BY <1>2, <2>1
<1>10. round[h] = Turned(m, h)
  BY <1>9
<1> QED BY <1>1, <1>10 DEF h, n

\* A string that is turned round is a string of the same length, with the same
\* memory behind it.
LEMMA ReverseIs ==
  ASSUME NEW m \in Buffer
  PROVE  /\ str_reverse(m) \in Buffer
         /\ strlen(str_reverse(m)) = strlen(m)
         /\ \A j \in 0 .. strlen(m) - 1 : str_reverse(m)[j] = m[strlen(m) - 1 - j]
         /\ \A j \in strlen(m) .. Size - 1 : str_reverse(m)[j] = m[j]
<1> DEFINE n == strlen(m)
           h == n \div 2
           r == str_reverse(m)
<1>1. n \in Nat /\ n =< Size - 1 /\ Size \in Nat
  BY StrlenFinds, Positions DEF Position
<1>2. /\ r = [j \in Position |-> r[j]]
      /\ \A j \in Position : r[j] = IF j < h \/ (n - h <= j /\ j < n) THEN m[n - 1 - j] ELSE m[j]
  BY ReverseTurns DEF Turned, Half
<1>3. \A j \in 0 .. n - 1 : j \in Position /\ m[j] # NUL /\ m[j] \in Char
  BY StrlenFinds DEF Buffer, Position
<1>4. m[n] = NUL /\ \A j \in Position : m[j] \in Char
  BY StrlenFinds DEF Buffer, Position
<1> HIDE DEF n, r
<1>5. h \in Nat /\ (n = 2 * h \/ n = 2 * h + 1)
  BY <1>1
<1> HIDE DEF h
<1>6. ASSUME NEW j \in 0 .. n - 1 PROVE r[j] = m[n - 1 - j]
  <2>1. j \in Position
    BY <1>3
  <2>2. j < h \/ (n - h =< j /\ j < n) \/ j = n - 1 - j
    BY <1>1, <1>5
  <2> QED BY <1>2, <2>1, <2>2
<1>7. ASSUME NEW j \in n .. Size - 1 PROVE r[j] = m[j]
  <2>1. j \in Position /\ ~(j < h \/ (n - h =< j /\ j < n))
    BY <1>1, <1>5 DEF Position
  <2> QED BY <1>2, <2>1
<1>8. \A j \in 0 .. n - 1 : r[j] # NUL /\ r[j] \in Char
  <2>1. \A j \in 0 .. n - 1 : n - 1 - j \in 0 .. n - 1
    BY <1>1
  <2> QED BY <1>3, <1>6, <2>1
<1>9. \A j \in Position : r[j] \in Char
  <2>1. \A j \in Position : j \in 0 .. n - 1 \/ j \in n .. Size - 1
    BY <1>1 DEF Position
  <2> QED BY <1>4, <1>7, <1>8, <2>1
<1>10. n \in Position /\ r[n] = NUL
  <2>1. n \in Position /\ n \in n .. Size - 1
    BY <1>1 DEF Position
  <2> QED BY <1>4, <1>7, <2>1
<1>11. r \in Buffer
  <2>1. r \in [Position -> Char] /\ DOMAIN r = Position
    BY <1>2, <1>9
  <2> QED BY <2>1, <1>10 DEF Buffer, Position
<1>12. strlen(r) = n
  BY <1>8, <1>10, <1>11, StrlenIs
<1> QED BY <1>6, <1>7, <1>11, <1>12 DEF n, r

\* What ReverseReverses says of the caller's string holds of every string.
LEMMA Reverses ==
  ASSUME NEW m \in Buffer
  PROVE  LET n == strlen(m)
             r == str_reverse(m)
         IN  /\ Text(r) = [i \in 1 .. n |-> Text(m)[n + 1 - i]]
             /\ Behind(r, n) = Behind(m, n)
<1> DEFINE n == strlen(m)
           r == str_reverse(m)
<1>1. n \in Nat
  BY StrlenFinds, Positions
<1>2. r \in Buffer /\ strlen(r) = n /\ \A j \in 0 .. n - 1 : r[j] = m[n - 1 - j]
  BY ReverseIs
<1>3. Behind(r, n) = Behind(m, n)
  BY ReverseIs DEF Behind
<1>4. \A i \in 1 .. n : Text(m)[i] = m[i - 1]
  BY TextIs
<1>5. Text(r) = [i \in 1 .. n |-> r[i - 1]]
  BY <1>2 DEF Text
<1> HIDE DEF n, r
<1>6. ASSUME NEW i \in 1 .. n PROVE r[i - 1] = Text(m)[n + 1 - i]
  <2>1. i - 1 \in 0 .. n - 1 /\ n + 1 - i \in 1 .. n
    BY <1>1
  <2>2. n - 1 - (i - 1) = (n + 1 - i) - 1
    BY <1>1
  <2> QED BY <1>2, <1>4, <2>1, <2>2
<1>7. Text(r) = [i \in 1 .. n |-> Text(m)[n + 1 - i]]
  BY <1>5, <1>6
<1> QED BY <1>3, <1>7 DEF n, r

-----------------------------------------------------------------------------
(* str_trim *)

\* The array after i characters have been copied: although source and
\* destination overlap, what is read has not been overwritten.
Copied(m, start, i) == [j \in Position |-> IF j < i THEN m[start + j] ELSE m[j]]

\* The loop leaves the array so.
LEMMA CopyCopies ==
  ASSUME NEW m \in Buffer, NEW start \in Nat, NEW len \in Nat, start + len =< Size
  PROVE  CopyDown(m, start, len) = Copied(m, start, len)
<1> DEFINE Loop(f) ==
             f = [i \in 0 .. len |->
                    IF i = 0 THEN m
                    ELSE [f[i - 1] EXCEPT ![i - 1] = f[i - 1][start + i - 1]]]
           round == CHOOSE f : Loop(f)
           g == [i \in 0 .. len |-> Copied(m, start, i)]
<1>1. CopyDown(m, start, len) = round[len]
  BY DEF CopyDown
<1>2. m = [j \in Position |-> m[j]] /\ \A j \in Position : j \in Nat
  BY Positions DEF Buffer, Position
<1>3. Copied(m, start, 0) = m
  <2>1. \A j \in Position : ~(j < 0)
    BY <1>2
  <2> QED BY <1>2, <2>1 DEF Copied
<1>4. ASSUME NEW i \in 1 .. len
      PROVE  Copied(m, start, i) =
               [Copied(m, start, i - 1) EXCEPT ![i - 1] = Copied(m, start, i - 1)[start + i - 1]]
  <2> DEFINE x == Copied(m, start, i - 1)
             y == Copied(m, start, i)
  <2>1. i - 1 \in Position /\ start + i - 1 \in Position
    BY Positions DEF Position
  <2>2. /\ \A j \in Position : x[j] = IF j < i - 1 THEN m[start + j] ELSE m[j]
        /\ \A j \in Position : y[j] = IF j < i THEN m[start + j] ELSE m[j]
        /\ x = [j \in Position |-> x[j]] /\ y = [j \in Position |-> y[j]]
    BY DEF Copied
  <2> HIDE DEF x, y
  <2>3. x[start + i - 1] = m[start + i - 1]
    <3>1. ~(start + i - 1 < i - 1)
      OBVIOUS
    <3> QED BY <2>1, <2>2, <3>1
  <2>4. y[i - 1] = m[start + i - 1]
    <3>1. i - 1 < i /\ start + (i - 1) = start + i - 1
      OBVIOUS
    <3> QED BY <2>1, <2>2, <3>1
  <2>5. ASSUME NEW j \in Position, j # i - 1 PROVE y[j] = x[j]
    <3>1. j < i <=> j < i - 1
      BY <1>2, <2>5
    <3> QED BY <2>2, <3>1
  <2>6. y = [x EXCEPT ![i - 1] = x[start + i - 1]]
    BY <2>1, <2>2, <2>3, <2>4, <2>5
  <2> QED BY <2>6 DEF x, y
<1>5. Loop(g)
  <2>1. ASSUME NEW i \in 0 .. len
        PROVE  Copied(m, start, i) =
                 IF i = 0 THEN m ELSE [g[i - 1] EXCEPT ![i - 1] = g[i - 1][start + i - 1]]
    <3>1. CASE i = 0
      BY <1>3, <3>1
    <3>2. CASE i # 0
      <4>1. i \in 1 .. len /\ i - 1 \in 0 .. len
        BY <3>2
      <4>2. g[i - 1] = Copied(m, start, i - 1)
        BY <4>1
      <4> HIDE DEF g
      <4> QED BY <1>4, <3>2, <4>1, <4>2
    <3> QED BY <3>1, <3>2
  <2>2. g = [i \in 0 .. len |->
               IF i = 0 THEN m ELSE [g[i - 1] EXCEPT ![i - 1] = g[i - 1][start + i - 1]]]
    BY <2>1
  <2> QED BY <2>2
<1>6. Loop(round)
  <2> HIDE DEF Loop, g
  <2>1. \E f : Loop(f)
    BY <1>5
  <2> QED BY <2>1, Zenon
<1> HIDE DEF round
<1> DEFINE Right == {i \in 0 .. len : round[i] = Copied(m, start, i)}
<1>7. 0 \in Right
  BY <1>3, <1>6
<1>8. ASSUME NEW k \in 0 .. len - 1, k \in Right PROVE k + 1 \in Right
  <2>1. k + 1 \in 0 .. len /\ k + 1 \in 1 .. len /\ k + 1 # 0 /\ (k + 1) - 1 = k
    OBVIOUS
  <2>2. round[k + 1] = [round[k] EXCEPT ![k] = round[k][start + (k + 1) - 1]]
    BY <1>6, <2>1
  <2>3. Copied(m, start, k + 1) =
          [Copied(m, start, k) EXCEPT ![k] = Copied(m, start, k)[start + (k + 1) - 1]]
    BY <1>4, <2>1
  <2> QED BY <1>8, <2>1, <2>2, <2>3
<1>9. len \in Right
  <2> HIDE DEF Right
  <2>1. \A k \in 0 .. len : k \in Right
    BY <1>7, <1>8, InductionUpTo
  <2> QED BY <2>1
<1> QED BY <1>1, <1>9

\* The loop that looks backwards stops at the last character that is no space.
LEMMA EndStops ==
  ASSUME NEW m \in Buffer, NEW p \in 0 .. strlen(m) - 1, m[p] # Space
  PROVE  LET n == strlen(m)
             e == Max({i \in p .. n - 1 : i = p \/ m[i] # Space})
         IN  /\ e \in p .. n - 1
             /\ m[e] # Space
             /\ \A j \in e + 1 .. n - 1 : m[j] = Space
<1> DEFINE n == strlen(m)
           S == {i \in p .. n - 1 : i = p \/ m[i] # Space}
           e == Max(S)
<1>1. n \in Nat
  BY StrlenFinds, Positions
<1> HIDE DEF n
<1>2. p \in 0 .. n - 1
  BY DEF n
<1>3. p \in Nat /\ p =< n - 1
  BY <1>1, <1>2
<1>4. p \in S /\ S \subseteq 0 .. n
  BY <1>1, <1>3
<1>5. e \in S /\ \A y \in S : e >= y
  <2> HIDE DEF S
  <2> QED BY <1>1, <1>4, MaxGreatest
<1> HIDE DEF e
<1>6. e \in p .. n - 1 /\ m[e] # Space
  BY <1>5
<1>7. ASSUME NEW j \in e + 1 .. n - 1 PROVE m[j] = Space
  <2>1. j \in p .. n - 1 /\ ~(e >= j)
    BY <1>1, <1>3, <1>6
  <2> QED BY <2>1, <1>5
<1> QED BY <1>6, <1>7 DEF n, e

\* What str_trim leaves: the k characters from p on, from the first that is no
\* space to the last.
Trimmed(m, r, p, k) ==
  LET n == strlen(m)
  IN  /\ r \in Buffer /\ strlen(r) = k
      /\ \A j \in 0 .. k - 1 : r[j] = m[p + j]
      /\ \A j \in n .. Size - 1 : r[j] = m[j]
      /\ \A j \in 0 .. p - 1 : m[j] = Space
      /\ \A j \in p + k .. n - 1 : m[j] = Space
      /\ k # 0 => m[p] # Space /\ m[p + k - 1] # Space

\* A text of spaces only is emptied by one NUL.
LEMMA TrimEmpties ==
  ASSUME NEW m \in Buffer, m[SkipSpaces(m, 0)] = NUL
  PROVE  Trimmed(m, str_trim(m), strlen(m), 0)
<1> DEFINE n == strlen(m)
           r == [m EXCEPT ![0] = NUL]
<1>1. str_trim(m) = r
  BY DEF str_trim
<1>2. n \in Nat /\ n =< Size - 1 /\ Size \in Nat /\ m[n] = NUL
  BY StrlenFinds, Positions DEF Position
<1>3. 0 \in Position /\ 0 \in 0 .. n
  BY <1>2 DEF Position
<1>4. SkipSpaces(m, 0) \in 0 .. n /\ \A j \in 0 .. SkipSpaces(m, 0) - 1 : m[j] = Space
  BY <1>3, SkipStops
<1>5. SkipSpaces(m, 0) = n
  <2>1. ~(SkipSpaces(m, 0) \in 0 .. n - 1)
    BY StrlenFinds
  <2> QED BY <1>2, <1>4, <2>1
<1>6. m \in [Position -> Char] /\ NUL \in Char
  BY DEF Buffer, Position, Char
<1>7. r \in [Position -> Char] /\ r[0] = NUL /\ \A j \in Position : j # 0 => r[j] = m[j]
  BY <1>3, <1>6
<1> HIDE DEF r, n
<1>8. r \in Buffer
  BY <1>3, <1>7 DEF Buffer, Position
<1>9. strlen(r) = 0
  BY <1>3, <1>7, <1>8, StrlenIs
<1>10. ASSUME NEW j \in n .. Size - 1 PROVE r[j] = m[j]
  <2>1. j \in Position /\ (j = 0 => n = 0)
    BY <1>2 DEF Position
  <2> QED BY <1>2, <1>7, <2>1
<1>11. \A j \in 0 .. n - 1 : m[j] = Space
  BY <1>4, <1>5
<1>12. \A j \in n + 0 .. n - 1 : m[j] = Space
  BY <1>2
<1>13. \A j \in 0 .. 0 - 1 : r[j] = m[n + j]
  OBVIOUS
<1> QED BY <1>1, <1>8, <1>9, <1>10, <1>11, <1>12, <1>13 DEF Trimmed, n

\* Any other text is copied down from its first character that is no space to
\* its last, and terminated again.
LEMMA TrimCopies ==
  ASSUME NEW m \in Buffer, m[SkipSpaces(m, 0)] # NUL
  PROVE  \E p \in 0 .. strlen(m) : \E k \in 0 .. strlen(m) - p :
           Trimmed(m, str_trim(m), p, k)
<1> DEFINE n == strlen(m)
           p == SkipSpaces(m, 0)
           e == Max({i \in p .. n - 1 : i = p \/ m[i] # Space})
           k == e - p + 1
           c == Copied(m, p, k)
           r == [c EXCEPT ![k] = NUL]
<1>1. n \in Nat /\ n =< Size - 1 /\ Size \in Nat /\ m[n] = NUL
  BY StrlenFinds, Positions DEF Position
<1>2. p \in 0 .. n /\ m[p] # Space /\ \A j \in 0 .. p - 1 : m[j] = Space
  <2>1. 0 \in 0 .. n
    BY <1>1
  <2> QED BY <2>1, SkipStops
<1>3. p \in Nat /\ p =< n - 1
  <2>1. p # n
    BY <1>1
  <2> HIDE DEF p, n
  <2> QED BY <1>1, <1>2, <2>1
<1>4. e \in p .. n - 1 /\ m[e] # Space /\ \A j \in e + 1 .. n - 1 : m[j] = Space
  <2>1. p \in 0 .. n - 1
    BY <1>1, <1>3
  <2> QED BY <1>2, <2>1, EndStops
<1>5. str_trim(m) = [CopyDown(m, p, k) EXCEPT ![k] = NUL]
  BY DEF str_trim
<1> HIDE DEF p, e, n
<1>6. e \in Nat /\ k \in Nat /\ 1 =< k /\ p + k =< n /\ p + k - 1 = e /\ p + k = e + 1
  BY <1>1, <1>3, <1>4
<1>7. str_trim(m) = r
  <2>1. p + k =< Size
    BY <1>1, <1>3, <1>6
  <2> HIDE DEF k
  <2> QED BY <1>3, <1>5, <1>6, <2>1, CopyCopies
<1> HIDE DEF k
<1>8. \A j \in 0 .. n - 1 : j \in Position /\ m[j] # NUL /\ m[j] \in Char
  BY StrlenFinds DEF Buffer, Position, n
<1>9. ASSUME NEW j \in 0 .. k - 1
      PROVE  j \in Position /\ p + j \in 0 .. n - 1 /\ c[j] = m[p + j] /\ r[j] = m[p + j]
  <2>1. j \in Position /\ p + j \in 0 .. n - 1 /\ j < k /\ j # k
    BY <1>1, <1>3, <1>6 DEF Position
  <2> QED BY <2>1 DEF Copied
<1>10. k \in Position /\ r[k] = NUL
  <2>1. k \in Position
    BY <1>1, <1>3, <1>6 DEF Position
  <2> QED BY <2>1 DEF Copied
<1>11. ASSUME NEW j \in Position, j > k PROVE r[j] = m[j]
  <2>1. ~(j < k) /\ j # k
    BY <1>6, <1>11, Positions
  <2> QED BY <2>1 DEF Copied
<1>12. DOMAIN r = Position /\ r = [j \in Position |-> r[j]]
  BY DEF Copied
<1> HIDE DEF r, c
<1>13. ASSUME NEW j \in Position PROVE r[j] \in Char
  <2>1. m[j] \in Char /\ NUL \in Char
    BY DEF Buffer, Position, Char
  <2>2. j \in 0 .. k - 1 \/ j = k \/ j > k
    BY <1>6 DEF Position
  <2> QED BY <1>8, <1>9, <1>10, <1>11, <2>1, <2>2
<1>14. r \in Buffer
  <2>1. r \in [Position -> Char]
    BY <1>12, <1>13
  <2> QED BY <1>10, <2>1 DEF Buffer, Position
<1>15. strlen(r) = k
  BY <1>8, <1>9, <1>10, <1>14, StrlenIs
<1>16. ASSUME NEW j \in n .. Size - 1 PROVE r[j] = m[j]
  <2>1. j \in Position /\ (j = k \/ j > k) /\ (j = k => j = n)
    BY <1>1, <1>3, <1>6 DEF Position
  <2> QED BY <1>1, <1>10, <1>11, <2>1
<1>17. Trimmed(m, r, p, k)
  BY <1>2, <1>4, <1>6, <1>9, <1>14, <1>15, <1>16 DEF Trimmed, n
<1>18. p \in 0 .. n /\ k \in 0 .. n - p
  BY <1>1, <1>3, <1>6
<1> QED BY <1>7, <1>17, <1>18 DEF n

\* Either way str_trim leaves k characters from p on.
LEMMA TrimIs ==
  ASSUME NEW m \in Buffer
  PROVE  \E p \in 0 .. strlen(m) : \E k \in 0 .. strlen(m) - p :
           Trimmed(m, str_trim(m), p, k)
<1>1. strlen(m) \in 0 .. strlen(m) /\ 0 \in 0 .. strlen(m) - strlen(m)
  <2>1. strlen(m) \in Nat
    BY StrlenFinds, Positions
  <2> QED BY <2>1
<1>2. CASE m[SkipSpaces(m, 0)] = NUL
  <2>1. Trimmed(m, str_trim(m), strlen(m), 0)
    BY <1>2, TrimEmpties
  <2> QED BY <1>1, <2>1
<1>3. CASE m[SkipSpaces(m, 0)] # NUL
  BY <1>3, TrimCopies
<1> QED BY <1>2, <1>3

\* Spaces everywhere in a stretch of a text make a stretch of spaces, and the
\* other way round.
LEMMA SpacesBetween ==
  ASSUME NEW s, NEW a \in Int, NEW b \in Int, \A i \in a .. b : s[i] \in Char
  PROVE  IsSpaces(SubSeq(s, a, b)) <=> \A i \in a .. b : s[i] = Space
<1> DEFINE u == SubSeq(s, a, b)
<1>1. /\ u \in Seq(Char)
      /\ Len(u) = IF a <= b THEN b - a + 1 ELSE 0
      /\ \A i \in 1 .. b - a + 1 : u[i] = s[a + i - 1]
  BY SubSeqProperties
<1>2. DOMAIN u = 1 .. Len(u)
  BY <1>1, LenProperties
<1> HIDE DEF u
<1>3. DOMAIN u = 1 .. b - a + 1
  BY <1>1, <1>2
<1>4. ASSUME \A i \in a .. b : s[i] = Space, NEW i \in 1 .. b - a + 1
      PROVE  u[i] = Space
  <2>1. a + i - 1 \in a .. b
    OBVIOUS
  <2> QED BY <1>1, <1>4, <2>1
<1>5. ASSUME \A i \in 1 .. b - a + 1 : u[i] = Space, NEW i \in a .. b
      PROVE  s[i] = Space
  <2>1. i - a + 1 \in 1 .. b - a + 1 /\ a + (i - a + 1) - 1 = i
    OBVIOUS
  <2> QED BY <1>1, <1>5, <2>1
<1>6. (\A i \in DOMAIN u : u[i] = Space) <=> \A i \in a .. b : s[i] = Space
  BY <1>3, <1>4, <1>5
<1> QED BY <1>6 DEF u, IsSpaces

\* The k characters behind the first a of a text.
LEMMA Between ==
  ASSUME NEW s, NEW a \in Nat, NEW k \in Nat, \A i \in 1 .. k : s[a + i] \in Char
  PROVE  /\ SubSeq(s, a + 1, a + k) \in Seq(Char)
         /\ Len(SubSeq(s, a + 1, a + k)) = k
         /\ \A i \in 1 .. k : SubSeq(s, a + 1, a + k)[i] = s[a + i]
<1> DEFINE lo == a + 1
           hi == a + k
           u == SubSeq(s, lo, hi)
<1>1. ASSUME NEW i \in lo .. hi PROVE s[i] \in Char
  <2>1. i - a \in 1 .. k /\ a + (i - a) = i
    OBVIOUS
  <2> QED BY <2>1
<1>2. lo \in Int /\ hi \in Int /\ (lo <= hi <=> k # 0) /\ hi - lo + 1 = k
  OBVIOUS
<1>3. \A i \in 1 .. k : lo + i - 1 = a + i
  OBVIOUS
<1> HIDE DEF lo, hi
<1>4. /\ u \in Seq(Char)
      /\ Len(u) = IF lo <= hi THEN hi - lo + 1 ELSE 0
      /\ \A i \in 1 .. hi - lo + 1 : u[i] = s[lo + i - 1]
  BY <1>1, <1>2, SubSeqProperties
<1> HIDE DEF u
<1>5. u \in Seq(Char) /\ Len(u) = k /\ \A i \in 1 .. k : u[i] = s[a + i]
  BY <1>2, <1>3, <1>4
<1> QED BY <1>5 DEF u, lo, hi

\* What TrimTrims says of the caller's string holds of every string.
LEMMA Trims ==
  ASSUME NEW m \in Buffer
  PROVE  LET s == Text(m)
             t == Text(str_trim(m))
         IN  /\ \E i \in 0 .. Len(s) - Len(t) :
                  /\ SubSeq(s, i + 1, i + Len(t)) = t
                  /\ IsSpaces(SubSeq(s, 1, i))
                  /\ IsSpaces(SubSeq(s, i + Len(t) + 1, Len(s)))
             /\ t # <<>> => Space \notin {t[1], t[Len(t)]}
             /\ Behind(str_trim(m), Len(s)) = Behind(m, Len(s))
<1> DEFINE n == strlen(m)
           r == str_trim(m)
           s == Text(m)
           t == Text(r)
<1>0. PICK p \in 0 .. n : \E k \in 0 .. n - p : Trimmed(m, r, p, k)
  BY TrimIs
<1>1. PICK k \in 0 .. n - p : Trimmed(m, r, p, k)
  BY <1>0
<1>2. n \in Nat
  BY StrlenFinds, Positions
<1>3. /\ s \in Seq(Char) /\ Len(s) = n /\ DOMAIN s = 1 .. n
      /\ \A i \in 1 .. n : s[i] = m[i - 1]
  BY TextIs
<1>4. r \in Buffer /\ strlen(r) = k
  BY <1>1 DEF Trimmed
<1>5. /\ t \in Seq(Char) /\ Len(t) = k /\ DOMAIN t = 1 .. k
      /\ \A i \in 1 .. k : t[i] = r[i - 1]
  BY <1>4, TextIs
<1>6. /\ \A j \in 0 .. k - 1 : r[j] = m[p + j]
      /\ \A j \in 0 .. p - 1 : m[j] = Space
      /\ \A j \in p + k .. n - 1 : m[j] = Space
      /\ k # 0 => m[p] # Space /\ m[p + k - 1] # Space
  BY <1>1 DEF Trimmed
<1>7. Behind(r, n) = Behind(m, n)
  BY <1>1 DEF Trimmed, Behind
<1> HIDE DEF n, r, s, t
<1>8. p \in Nat /\ k \in Nat /\ p + k =< n
  BY <1>2
<1>9. ASSUME NEW i \in 1 .. n PROVE s[i] \in Char
  BY <1>3, <1>9, ElementOfSeq
<1>10. SubSeq(s, p + 1, p + k) = t
  <2> DEFINE u == SubSeq(s, p + 1, p + k)
  <2>1. \A i \in 1 .. k : p + i \in 1 .. n
    BY <1>2, <1>8
  <2>2. u \in Seq(Char) /\ Len(u) = k /\ \A i \in 1 .. k : u[i] = s[p + i]
    BY <1>8, <1>9, <2>1, Between
  <2> HIDE DEF u
  <2>3. ASSUME NEW i \in 1 .. k PROVE u[i] = t[i]
    <3>1. p + i \in 1 .. n /\ i - 1 \in 0 .. k - 1 /\ (p + i) - 1 = p + (i - 1)
      BY <1>2, <1>8
    <3>2. u[i] = m[p + i - 1] /\ t[i] = m[p + (i - 1)]
      BY <1>3, <1>5, <1>6, <2>2, <3>1
    <3>3. p + i - 1 = p + (i - 1)
      BY <1>8
    <3> QED BY <3>2, <3>3
  <2>4. u = t
    BY <1>5, <2>2, <2>3, SeqEqual
  <2> QED BY <2>4 DEF u
<1>11. IsSpaces(SubSeq(s, 1, p))
  <2>1. 1 \in Int /\ p \in Int /\ \A i \in 1 .. p : i \in 1 .. n /\ i - 1 \in 0 .. p - 1
    BY <1>2, <1>8
  <2> QED BY <1>3, <1>6, <1>9, <2>1, SpacesBetween
<1>12. IsSpaces(SubSeq(s, p + k + 1, n))
  <2>1. /\ p + k + 1 \in Int /\ n \in Int
        /\ \A i \in p + k + 1 .. n : i \in 1 .. n /\ i - 1 \in p + k .. n - 1
    BY <1>2, <1>8
  <2> QED BY <1>3, <1>6, <1>9, <2>1, SpacesBetween
<1>13. t # <<>> => Space \notin {t[1], t[k]}
  <2>1. SUFFICES ASSUME t # <<>> PROVE Space \notin {t[1], t[k]}
    OBVIOUS
  <2>2. k # 0
    BY <1>5, <2>1, EmptySeq
  <2>3. 1 \in 1 .. k /\ k \in 1 .. k /\ 0 \in 0 .. k - 1 /\ k - 1 \in 0 .. k - 1
    BY <1>8, <2>2
  <2>4. t[1] = m[p]
    <3>1. t[1] = r[0] /\ r[0] = m[p + 0] /\ p + 0 = p
      BY <1>5, <1>6, <1>8, <2>3
    <3> QED BY <3>1
  <2>5. t[k] = m[p + k - 1]
    <3>1. t[k] = r[k - 1] /\ r[k - 1] = m[p + (k - 1)] /\ p + (k - 1) = p + k - 1
      BY <1>5, <1>6, <1>8, <2>3
    <3> QED BY <3>1
  <2> QED BY <1>6, <2>2, <2>4, <2>5
<1>14. p \in 0 .. n - k
  BY <1>2, <1>8
<1> QED BY <1>3, <1>5, <1>7, <1>10, <1>11, <1>12, <1>13, <1>14 DEF r, s, t

-----------------------------------------------------------------------------
(* str_to_int: the number *)

\* Digits, spaces, signs and NUL are different characters.
LEMMA DigitIs ==
  /\ \A c \in DOMAIN Digit : Digit[c] \in 0 .. 9
  /\ DOMAIN Digit \subseteq Char
  /\ \A c \in DOMAIN Digit : c # NUL /\ c # Space /\ c \notin {"-", "+"}
  /\ Space \notin {"-", "+"} /\ NUL # Space /\ NUL \notin {"-", "+"}
BY DEF Digit, Char, NUL, Space

\* A long overflows only above LongMax.
LEMMA WrapIs ==
  /\ \A x \in Nat : Wrap(x) \in Nat
  /\ \A x \in 0 .. LongMax : Wrap(x) = x
BY StrUtilsAssumption DEF Wrap, StrUtilsAssumption

\* What Number computes, for digits of any number.
LEMMA NumberIs ==
  ASSUME NEW s, Len(s) \in Nat, \A i \in 1 .. Len(s) : s[i] \in DOMAIN Digit
  PROVE  \E v \in [0 .. Len(s) -> Nat] :
           /\ v[0] = 0
           /\ \A k \in 1 .. Len(s) : v[k] = v[k - 1] * 10 + Digit[s[k]]
           /\ Number(s) = v[Len(s)]
<1> DEFINE n == Len(s)
           Loop(f) == f = [k \in 0 .. n |-> IF k = 0 THEN 0 ELSE f[k - 1] * 10 + Digit[s[k]]]
           number == CHOOSE f : Loop(f)
           G == [x \in (1 .. n) \X Nat |-> x[2] * 10 + Digit[s[x[1]]]]
<1>1. Number(s) = number[n]
  BY DEF Number
<1>2. \A k \in 1 .. n : Digit[s[k]] \in Nat
  BY DigitIs
<1> HIDE DEF n
<1>3. n \in Nat
  BY DEF n
<1>4. G \in Rounds(n, Nat)
  BY <1>2 DEF Rounds
<1>5. PICK f : Runs(f, Nat, 0, n, G)
  <2>1. 0 \in Nat
    OBVIOUS
  <2> HIDE DEF G
  <2> QED BY <1>3, <1>4, <2>1, LoopExists
<1>6. Loop(f)
  <2>1. ASSUME NEW k \in 0 .. n PROVE f[k] = IF k = 0 THEN 0 ELSE f[k - 1] * 10 + Digit[s[k]]
    <3>1. CASE k = 0
      BY <1>5, <3>1 DEF Runs
    <3>2. CASE k # 0
      <4>1. k - 1 \in 0 .. n /\ k \in 1 .. n
        BY <1>3, <3>2
      <4>2. <<k, f[k - 1]>> \in (1 .. n) \X Nat
        BY <1>5, <4>1 DEF Runs
      <4>3. f[k] = G[<<k, f[k - 1]>>]
        BY <1>5, <3>2 DEF Runs
      <4> QED BY <3>2, <4>2, <4>3
    <3> QED BY <3>1, <3>2
  <2>2. f = [k \in 0 .. n |-> f[k]]
    BY <1>5 DEF Runs
  <2> QED BY <2>1, <2>2
<1>7. Loop(number)
  <2> HIDE DEF Loop
  <2>1. \E x : Loop(x)
    BY <1>6
  <2> QED BY <2>1, Zenon
<1> HIDE DEF number
<1>8. /\ number[0] = 0
      /\ \A k \in 1 .. n : number[k] = number[k - 1] * 10 + Digit[s[k]]
  BY <1>3, <1>7
<1> DEFINE S == {k \in 0 .. n : number[k] \in Nat}
<1>9. 0 \in S
  BY <1>3, <1>8
<1>10. ASSUME NEW k \in 0 .. n - 1, k \in S PROVE k + 1 \in S
  <2>1. k + 1 \in 1 .. n /\ (k + 1) - 1 = k
    BY <1>3
  <2>2. number[k + 1] = number[k] * 10 + Digit[s[k + 1]]
    BY <1>8, <2>1
  <2>3. number[k] \in Nat /\ Digit[s[k + 1]] \in Nat
    BY <1>2, <1>10, <2>1
  <2>4. number[k + 1] \in Nat
    BY <2>2, <2>3
  <2>5. k + 1 \in 0 .. n
    BY <1>3
  <2> QED BY <2>4, <2>5
<1>11. \A k \in 0 .. n : k \in S
  <2> HIDE DEF S
  <2> QED BY <1>3, <1>9, <1>10, InductionUpTo
<1>12. number \in [0 .. n -> Nat]
  <2>1. DOMAIN number = 0 .. n /\ number = [k \in 0 .. n |-> number[k]]
    BY <1>7
  <2> QED BY <1>11, <2>1
<1> QED BY <1>1, <1>8, <1>12 DEF n

AreDigits(d, n) == \A k \in 1 .. n : Digit[d[k]] \in 0 .. 9

\* The loop of str_to_int over n digits, with temp after each of them.
TempLoop(temp, d, n) ==
  temp = [k \in 0 .. n |-> IF k = 0 THEN 0 ELSE Wrap(temp[k - 1] * 10 + Digit[d[k]])]

\* There are such values of temp.
LEMMA TempExists ==
  ASSUME NEW n \in Nat, NEW d, AreDigits(d, n)
  PROVE  \E temp : TempLoop(temp, d, n)
<1> DEFINE G == [x \in (1 .. n) \X Nat |-> Wrap(x[2] * 10 + Digit[d[x[1]]])]
<1>1. \A k \in 1 .. n, x \in Nat : Wrap(x * 10 + Digit[d[k]]) \in Nat
  <2>1. \A k \in 1 .. n, x \in Nat : x * 10 + Digit[d[k]] \in Nat
    BY DEF AreDigits
  <2> QED BY <2>1, WrapIs
<1>2. G \in Rounds(n, Nat)
  BY <1>1 DEF Rounds
<1>3. PICK f : Runs(f, Nat, 0, n, G)
  <2>1. 0 \in Nat
    OBVIOUS
  <2> HIDE DEF G
  <2> QED BY <1>2, <2>1, LoopExists
<1>4. TempLoop(f, d, n)
  <2>1. ASSUME NEW k \in 0 .. n
        PROVE  f[k] = IF k = 0 THEN 0 ELSE Wrap(f[k - 1] * 10 + Digit[d[k]])
    <3>1. CASE k = 0
      BY <1>3, <3>1 DEF Runs
    <3>2. CASE k # 0
      <4>1. k - 1 \in 0 .. n /\ k \in 1 .. n
        BY <3>2
      <4>2. <<k, f[k - 1]>> \in (1 .. n) \X Nat
        BY <1>3, <4>1 DEF Runs
      <4>3. f[k] = G[<<k, f[k - 1]>>]
        BY <1>3, <3>2 DEF Runs
      <4> QED BY <3>2, <4>2, <4>3
    <3> QED BY <3>1, <3>2
  <2>2. f = [k \in 0 .. n |-> f[k]]
    BY <1>3 DEF Runs
  <2> QED BY <2>1, <2>2 DEF TempLoop
<1> QED BY <1>4

\* The values that the digits write, and what a long makes of them.
Exact(v, d, n) ==
  /\ v \in [0 .. n -> Nat]
  /\ v[0] = 0
  /\ \A k \in 1 .. n : v[k] = v[k - 1] * 10 + Digit[d[k]]

Wrapped(temp, d, n) ==
  /\ temp \in [0 .. n -> Nat]
  /\ temp[0] = 0
  /\ \A k \in 1 .. n : temp[k] = Wrap(temp[k - 1] * 10 + Digit[d[k]])

\* They are natural numbers and follow from one another as the loop says.
LEMMA TempIs ==
  ASSUME NEW n \in Nat, NEW d, AreDigits(d, n),
         NEW temp, TempLoop(temp, d, n)
  PROVE  Wrapped(temp, d, n)
<1>1. \A k \in 1 .. n, x \in Nat : Wrap(x * 10 + Digit[d[k]]) \in Nat
  <2>1. \A k \in 1 .. n, x \in Nat : x * 10 + Digit[d[k]] \in Nat
    BY DEF AreDigits
  <2> QED BY <2>1, WrapIs
<1>2. /\ temp[0] = 0
      /\ \A k \in 1 .. n : temp[k] = Wrap(temp[k - 1] * 10 + Digit[d[k]])
  BY DEF TempLoop
<1> DEFINE S == {k \in 0 .. n : temp[k] \in Nat}
<1>3. 0 \in S
  BY <1>2
<1>4. ASSUME NEW k \in 0 .. n - 1, k \in S PROVE k + 1 \in S
  <2>1. k + 1 \in 1 .. n /\ (k + 1) - 1 = k /\ k + 1 \in 0 .. n
    OBVIOUS
  <2>2. temp[k + 1] = Wrap(temp[k] * 10 + Digit[d[k + 1]])
    BY <1>2, <2>1
  <2>3. temp[k + 1] \in Nat
    BY <1>1, <1>4, <2>1, <2>2
  <2> QED BY <2>1, <2>3
<1>5. \A k \in 0 .. n : k \in S
  <2> HIDE DEF S
  <2> QED BY <1>3, <1>4, InductionUpTo
<1>6. temp = [k \in 0 .. n |-> temp[k]]
  BY DEF TempLoop
<1> QED BY <1>2, <1>5, <1>6 DEF Wrapped

\* The test after every digit refuses exactly the numbers above IntMax: no
\* number wraps round to one that is accepted.
LEMMA SameNumber ==
  ASSUME NEW n \in Nat, NEW d, AreDigits(d, n),
         NEW v, Exact(v, d, n), NEW temp, Wrapped(temp, d, n)
  PROVE  /\ Fits(temp, n) <=> v[n] <= IntMax
         /\ Fits(temp, n) => temp[n] = v[n]
<1> DEFINE Same == {k \in 0 .. n : temp[k] = v[k] /\ v[k] <= IntMax}
           Down == {j \in 0 .. n : v[n - j] <= v[n]}
<1>1. IntMax \in Nat /\ LongMax \in Nat /\ 10 * IntMax + 9 <= LongMax
  BY StrUtilsAssumption DEF StrUtilsAssumption
<1> USE DEF Exact, Wrapped
<1>2. 0 \in Same
  BY <1>1
<1>3. ASSUME NEW k \in 0 .. n - 1, k \in Same
      PROVE  temp[k + 1] = v[k + 1]
  <2>1. k + 1 \in 1 .. n /\ (k + 1) - 1 = k /\ k \in 0 .. n
    OBVIOUS
  <2> DEFINE x == v[k]
             c == Digit[d[k + 1]]
  <2>2. temp[k + 1] = Wrap(x * 10 + c) /\ v[k + 1] = x * 10 + c
    BY <1>3, <2>1
  <2>3. x \in Nat /\ x <= IntMax /\ c \in 0 .. 9
    BY <1>3, <2>1 DEF AreDigits
  <2> HIDE DEF x, c
  <2>4. x * 10 + c \in 0 .. LongMax
    BY <1>1, <2>3
  <2> QED BY <2>2, <2>4, WrapIs
<1>4. ASSUME Fits(temp, n) PROVE v[n] <= IntMax /\ temp[n] = v[n]
  <2>1. ASSUME NEW k \in 0 .. n - 1, k \in Same PROVE k + 1 \in Same
    <3>1. temp[k + 1] = v[k + 1]
      BY <1>3, <2>1
    <3>2. k + 1 \in 1 .. n /\ k + 1 \in 0 .. n
      OBVIOUS
    <3>3. temp[k + 1] <= IntMax
      BY <1>4, <3>2 DEF Fits
    <3> QED BY <3>1, <3>2, <3>3
  <2>2. n \in Same
    <3>1. \A k \in 0 .. n - 1 : k \in Same => k + 1 \in Same
      BY <2>1
    <3> HIDE DEF Same
    <3>2. \A k \in 0 .. n : k \in Same
      BY <1>2, <3>1, InductionUpTo
    <3> QED BY <3>2
  <2> QED BY <2>2
<1>5. ASSUME v[n] <= IntMax PROVE Fits(temp, n)
  <2>1. \A k \in 1 .. n : v[k - 1] <= v[k]
    <3>1. ASSUME NEW k \in 1 .. n PROVE v[k - 1] <= v[k]
      <4> DEFINE x == v[k - 1]
                 c == Digit[d[k]]
      <4>1. k - 1 \in 0 .. n /\ k \in 0 .. n
        OBVIOUS
      <4>2. x \in Nat /\ v[k] = x * 10 + c /\ c \in 0 .. 9
        BY <4>1 DEF AreDigits
      <4> HIDE DEF x, c
      <4>3. x <= v[k]
        BY <4>2
      <4> QED BY <4>3 DEF x
    <3> QED BY <3>1
  <2>2. 0 \in Down
    OBVIOUS
  <2>3. ASSUME NEW j \in 0 .. n - 1, j \in Down PROVE j + 1 \in Down
    <3>1. n - j \in 1 .. n /\ n - (j + 1) = n - j - 1 /\ n - (j + 1) \in 0 .. n
      OBVIOUS
    <3>2. v[n - (j + 1)] <= v[n - j] /\ v[n - j] <= v[n]
      BY <2>1, <2>3, <3>1
    <3>3. v[n - (j + 1)] \in Nat /\ v[n - j] \in Nat /\ v[n] \in Nat
      BY <3>1
    <3>4. v[n - (j + 1)] <= v[n]
      BY <3>2, <3>3
    <3>5. j + 1 \in 0 .. n
      OBVIOUS
    <3> QED BY <3>4, <3>5
  <2>4. \A j \in 0 .. n : j \in Down
    <3> HIDE DEF Down
    <3> QED BY <2>2, <2>3, InductionUpTo
  <2>5. \A k \in 0 .. n : v[k] <= IntMax
    <3>1. ASSUME NEW k \in 0 .. n PROVE v[k] <= IntMax
      <4>1. n - k \in 0 .. n /\ n - (n - k) = k /\ n \in 0 .. n
        OBVIOUS
      <4>2. n - k \in Down
        BY <2>4, <4>1
      <4>3. v[k] <= v[n] /\ v[k] \in Nat /\ v[n] \in Nat
        BY <4>1, <4>2
      <4> QED BY <1>1, <1>5, <4>3
    <3> QED BY <3>1
  <2>6. ASSUME NEW k \in 0 .. n - 1, k \in Same PROVE k + 1 \in Same
    <3>1. k + 1 \in 0 .. n
      OBVIOUS
    <3> QED BY <1>3, <2>5, <2>6, <3>1
  <2>7. \A k \in 0 .. n : k \in Same
    <3>1. \A k \in 0 .. n - 1 : k \in Same => k + 1 \in Same
      BY <2>6
    <3> HIDE DEF Same
    <3> QED BY <1>2, <3>1, InductionUpTo
  <2>8. \A k \in 1 .. n : k \in 0 .. n
    OBVIOUS
  <2> QED BY <2>7, <2>8 DEF Fits
<1> QED BY <1>4, <1>5

-----------------------------------------------------------------------------
(* str_to_int: the text *)

Sign   == {"-", "+"}
\* Where str_to_int looks for a sign, where for the digits, how many it finds,
\* and which.
AtSign(m)   == SkipSpaces(m, 0)
AtDigits(m) == IF m[AtSign(m)] \in Sign THEN AtSign(m) + 1 ELSE AtSign(m)
Count(m)    == Min({i \in AtDigits(m) .. Size - 1 : m[i] \notin DOMAIN Digit}) - AtDigits(m)
Digits(m)   == [k \in 1 .. Count(m) |-> m[AtDigits(m) + k - 1]]

\* Spaces, then at most one sign: where str_to_int has got to before the digits.
LEMMA SignStops ==
  ASSUME NEW m \in Buffer
  PROVE  /\ AtSign(m) \in 0 .. strlen(m)
         /\ m[AtSign(m)] # Space
         /\ \A j \in 0 .. AtSign(m) - 1 : m[j] = Space
         /\ AtDigits(m) \in AtSign(m) .. strlen(m)
         /\ AtDigits(m) <= AtSign(m) + 1
<1> DEFINE n == strlen(m)
           p == AtSign(m)
<1>1. n \in Nat /\ m[n] = NUL
  BY StrlenFinds, Positions
<1>2. p \in 0 .. n /\ m[p] # Space /\ \A j \in 0 .. p - 1 : m[j] = Space
  <2>1. 0 \in 0 .. n
    BY <1>1
  <2> QED BY <2>1, SkipStops DEF AtSign
<1> HIDE DEF n, p
<1>3. CASE m[p] \in Sign
  <2>1. p # n
    BY <1>1, <1>3, DigitIs DEF Sign
  <2>2. p + 1 \in p .. n
    BY <1>1, <1>2, <2>1
  <2>3. AtDigits(m) = p + 1
    BY <1>3 DEF AtDigits, p
  <2> QED BY <1>2, <2>2, <2>3 DEF n, p
<1>4. CASE m[p] \notin Sign
  <2>1. p \in p .. n /\ p <= p + 1
    BY <1>1, <1>2
  <2>2. AtDigits(m) = p
    BY <1>4 DEF AtDigits, p
  <2> QED BY <1>2, <2>1, <2>2 DEF n, p
<1> QED BY <1>3, <1>4

\* The digits end in the string or at its end, at the first character that is none.
LEMMA DigitsStop ==
  ASSUME NEW m \in Buffer
  PROVE  /\ Count(m) \in Nat
         /\ AtDigits(m) + Count(m) \in AtDigits(m) .. strlen(m)
         /\ m[AtDigits(m) + Count(m)] \notin DOMAIN Digit
         /\ \A j \in AtDigits(m) .. AtDigits(m) + Count(m) - 1 : m[j] \in DOMAIN Digit
<1> DEFINE n == strlen(m)
           q == AtDigits(m)
           S == {i \in q .. Size - 1 : m[i] \notin DOMAIN Digit}
           e == Min(S)
<1>1. n \in Nat /\ n <= Size - 1 /\ Size \in Nat /\ m[n] = NUL
  BY StrlenFinds, Positions DEF Position
<1>2. AtSign(m) \in 0 .. n /\ q \in AtSign(m) .. n
  BY SignStops
<1>3. Count(m) = e - q
  BY DEF Count
<1> HIDE DEF n, q
<1>4. q \in Nat /\ q <= n
  BY <1>1, <1>2
<1>5. n \in S /\ S \subseteq Nat
  BY <1>1, <1>4, DigitIs
<1>6. e \in S /\ \A y \in S : e =< y
  <2> HIDE DEF S
  <2> QED BY <1>5, MinLeast
<1> HIDE DEF e
<1>7. e \in q .. n /\ m[e] \notin DOMAIN Digit
  BY <1>1, <1>4, <1>5, <1>6
<1>8. e - q \in Nat /\ q + (e - q) = e
  BY <1>4, <1>7
<1>9. ASSUME NEW j \in q .. e - 1 PROVE m[j] \in DOMAIN Digit
  <2>1. j \in q .. Size - 1 /\ ~(e =< j)
    BY <1>1, <1>4, <1>7
  <2>2. j \notin S
    <3> HIDE DEF S
    <3> QED BY <1>6, <2>1
  <2> QED BY <2>1, <2>2
<1>10. Count(m) \in Nat /\ q + Count(m) = e
  BY <1>3, <1>8
<1>11. /\ Count(m) \in Nat
       /\ q + Count(m) \in q .. n
       /\ m[q + Count(m)] \notin DOMAIN Digit
       /\ \A j \in q .. q + Count(m) - 1 : m[j] \in DOMAIN Digit
  <2> DEFINE z == q + Count(m)
  <2>1. z = e
    BY <1>10
  <2> HIDE DEF z, S
  <2>2. z \in q .. n /\ m[z] \notin DOMAIN Digit /\ \A j \in q .. z - 1 : m[j] \in DOMAIN Digit
    BY <1>7, <1>9, <2>1
  <2>3. z = q + Count(m) /\ z \in Int /\ q \in Int /\ Count(m) \in Int
    BY <1>4, <1>10 DEF z
  <2> QED BY <1>10, <2>2, <2>3
<1> QED BY <1>11 DEF n, q

\* Every character in the place of a digit has the value of one.
LEMMA DigitsAre ==
  ASSUME NEW m \in Buffer
  PROVE  \A k \in 1 .. Count(m) :
           /\ AtDigits(m) + k - 1 \in AtDigits(m) .. AtDigits(m) + Count(m) - 1
           /\ Digits(m)[k] \in DOMAIN Digit
           /\ Digit[Digits(m)[k]] \in 0 .. 9
<1>1. Count(m) \in Nat /\ AtDigits(m) \in Int
  <2>1. strlen(m) \in Nat
    BY StrlenFinds, Positions
  <2>2. AtSign(m) \in Int
    BY <2>1, SignStops
  <2> QED BY <2>1, <2>2, SignStops, DigitsStop
<1>2. ASSUME NEW k \in 1 .. Count(m)
      PROVE  AtDigits(m) + k - 1 \in AtDigits(m) .. AtDigits(m) + Count(m) - 1
  BY <1>1
<1>3. ASSUME NEW k \in 1 .. Count(m) PROVE Digits(m)[k] \in DOMAIN Digit
  BY <1>2, DigitsStop DEF Digits
<1> QED BY <1>2, <1>3, DigitIs

\* What str_to_int returns, in these terms.
LEMMA ParseIs ==
  ASSUME NEW m \in Buffer
  PROVE  \E temp :
           /\ TempLoop(temp, Digits(m), Count(m))
           /\ Parse(m).ok \in BOOLEAN
           /\ Parse(m).ok <=>
                /\ Count(m) > 0 /\ Fits(temp, Count(m))
                /\ m[SkipSpaces(m, AtDigits(m) + Count(m))] = NUL
           /\ Parse(m).value = IF m[AtSign(m)] = "-" THEN -temp[Count(m)] ELSE temp[Count(m)]
<1> DEFINE p == AtSign(m)
           q == AtDigits(m)
           n == Count(m)
           d == Digits(m)
           Loop(f) == f = [k \in 0 .. n |-> IF k = 0 THEN 0 ELSE Wrap(f[k - 1] * 10 + Digit[m[q + k - 1]])]
           temp == CHOOSE f : Loop(f)
           accepts == n > 0 /\ Fits(temp, n) /\ m[SkipSpaces(m, q + n)] = NUL
           number == IF m[p] = "-" THEN -temp[n] ELSE temp[n]
<1>1. Parse(m) = [ok |-> accepts, value |-> number]
  BY DEF Parse, AtSign, AtDigits, Count, Sign
<1>2. n \in Nat /\ AreDigits(d, n)
  BY DigitsStop, DigitsAre DEF AreDigits
<1>3. \A k \in 1 .. n : d[k] = m[q + k - 1]
  BY DEF Digits
<1>4. PICK f : TempLoop(f, d, n)
  <2> HIDE DEF d, n
  <2> QED BY <1>2, TempExists
<1> HIDE DEF n, q, d
<1>5. \A x : TempLoop(x, d, n) <=> Loop(x)
  <2>1. ASSUME NEW x
        PROVE  [k \in 0 .. n |-> IF k = 0 THEN 0 ELSE Wrap(x[k - 1] * 10 + Digit[d[k]])]
                 = [k \in 0 .. n |-> IF k = 0 THEN 0 ELSE Wrap(x[k - 1] * 10 + Digit[m[q + k - 1]])]
    <3>1. \A k \in 0 .. n : k # 0 => k \in 1 .. n
      BY <1>2
    <3> QED BY <1>3, <3>1
  <2> QED BY <2>1 DEF TempLoop
<1>6. Loop(temp)
  <2>1. Loop(f)
    BY <1>4, <1>5
  <2> HIDE DEF Loop
  <2>2. \E x : Loop(x)
    BY <2>1
  <2> QED BY <2>2, Zenon
<1>7. TempLoop(temp, d, n)
  <2> HIDE DEF Loop
  <2> QED BY <1>5, <1>6
<1> HIDE DEF temp
<1>8. Parse(m).ok = accepts /\ Parse(m).value = number
  <2> HIDE DEF accepts, number
  <2> QED BY <1>1
<1>9. Parse(m).ok \in BOOLEAN /\ (Parse(m).ok <=> accepts)
  BY <1>8, Zenon
<1> QED BY <1>7, <1>8, <1>9 DEF n, q, d

\* A reading of the text is the one that str_to_int finds.
LEMMA ReadingFound ==
  ASSUME NEW m \in Buffer, NEW r \in Readings(Text(m))
  PROVE  /\ r.a = AtSign(m) /\ r.a + r.b = AtDigits(m) /\ r.c = Count(m)
         /\ r.b = 1 <=> m[AtSign(m)] \in Sign
         /\ Count(m) > 0
         /\ SkipSpaces(m, AtDigits(m) + Count(m)) = strlen(m)
<1> DEFINE n == strlen(m)
           s == Text(m)
           a == r.a
           b == r.b
           c == r.c
           to == a + b + c
<1>1. n \in Nat /\ m[n] = NUL
  BY StrlenFinds, Positions
<1>2. s \in Seq(Char) /\ Len(s) = n /\ \A i \in 1 .. n : s[i] = m[i - 1]
  BY TextIs
<1>3. /\ a \in 0 .. n /\ b \in 0 .. 1 /\ c \in 1 .. n
      /\ to <= n
      /\ IsSpaces(SubSeq(s, 1, a))
      /\ b = 1 => s[a + 1] \in {"-", "+"}
      /\ \A i \in a + b + 1 .. to : s[i] \in DOMAIN Digit
      /\ IsSpaces(SubSeq(s, to + 1, n))
  BY <1>2 DEF Readings
<1> HIDE DEF n, s, a, b, c
<1>4. a \in Nat /\ (b = 0 \/ b = 1) /\ c \in Nat /\ c > 0 /\ to \in Nat
  BY <1>1, <1>3
<1>5. \A i \in 1 .. n : s[i] \in Char
  BY <1>2, ElementOfSeq
<1>6. \A j \in 0 .. a - 1 : m[j] = Space
  <2>1. 1 \in Int /\ a \in Int /\ \A i \in 1 .. a : i \in 1 .. n
    BY <1>1, <1>3, <1>4
  <2>2. \A i \in 1 .. a : s[i] = Space
    BY <1>3, <1>5, <2>1, SpacesBetween
  <2>3. ASSUME NEW j \in 0 .. a - 1 PROVE m[j] = Space
    <3>1. j + 1 \in 1 .. a /\ j + 1 \in 1 .. n /\ (j + 1) - 1 = j
      BY <1>1, <1>3, <1>4
    <3> QED BY <1>2, <2>2, <3>1
  <2> QED BY <2>3
<1>7. ASSUME NEW j \in to .. n - 1 PROVE m[j] = Space
  <2>1. to + 1 \in Int /\ n \in Int /\ \A i \in to + 1 .. n : i \in 1 .. n
    BY <1>1, <1>4
  <2>2. \A i \in to + 1 .. n : s[i] = Space
    BY <1>3, <1>5, <2>1, SpacesBetween
  <2>3. j + 1 \in to + 1 .. n /\ j + 1 \in 1 .. n /\ (j + 1) - 1 = j
    BY <1>1, <1>4
  <2> QED BY <1>2, <2>2, <2>3
<1>8. ASSUME NEW j \in a + b .. to - 1 PROVE m[j] \in DOMAIN Digit
  <2>1. j + 1 \in a + b + 1 .. to /\ j + 1 \in 1 .. n /\ (j + 1) - 1 = j
    BY <1>1, <1>3, <1>4
  <2> QED BY <1>2, <1>3, <2>1
<1>9. b = 1 => m[a] \in Sign
  <2>1. a + 1 \in 1 .. n /\ (a + 1) - 1 = a
    BY <1>1, <1>3, <1>4
  <2> QED BY <1>2, <1>3, <2>1 DEF Sign
<1>10. b = 0 => m[a] \in DOMAIN Digit
  <2>1. b = 0 => a \in a + b .. to - 1
    BY <1>4
  <2> QED BY <1>8, <2>1
<1>11. m[a] # Space /\ (b = 1 <=> m[a] \in Sign)
  BY <1>4, <1>9, <1>10, DigitIs DEF Sign
<1>12. AtSign(m) = a
  <2>1. 0 \in 0 .. n /\ a \in 0 .. n
    BY <1>1, <1>3
  <2> QED BY <1>6, <1>11, <2>1, SkipIs DEF AtSign, n
<1>13. AtDigits(m) = a + b
  BY <1>4, <1>11, <1>12 DEF AtDigits
<1>14. m[to] \notin DOMAIN Digit
  <2>1. to = n \/ to \in to .. n - 1
    BY <1>1, <1>3, <1>4
  <2> QED BY <1>1, <1>7, <2>1, DigitIs
<1>15. Count(m) = c
  <2> DEFINE e == a + b + Count(m)
  <2>1. Count(m) \in Nat /\ m[e] \notin DOMAIN Digit /\ \A j \in a + b .. e - 1 : m[j] \in DOMAIN Digit
    <3> DEFINE q == AtDigits(m)
    <3>1. /\ Count(m) \in Nat /\ m[q + Count(m)] \notin DOMAIN Digit
          /\ \A j \in q .. q + Count(m) - 1 : m[j] \in DOMAIN Digit
      BY DigitsStop
    <3>2. q = a + b
      BY <1>13
    <3> HIDE DEF q
    <3> QED BY <3>1, <3>2
  <2>2. ~(e < to)
    <3>1. e < to => e \in a + b .. to - 1
      BY <1>4, <2>1
    <3> QED BY <1>8, <2>1, <3>1
  <2>3. ~(to < e)
    <3>1. to < e => to \in a + b .. e - 1
      BY <1>4, <2>1
    <3> QED BY <1>14, <2>1, <3>1
  <2> QED BY <1>4, <2>1, <2>2, <2>3
<1>16. SkipSpaces(m, to) = n
  <2>1. to \in 0 .. n /\ n \in to .. n
    BY <1>1, <1>3, <1>4
  <2> QED BY <1>1, <1>7, <2>1, SkipIs, DigitIs DEF n
<1> QED BY <1>4, <1>11, <1>12, <1>13, <1>15, <1>16 DEF n, a, b, c

\* What a reading of the text writes is what temp holds, if it holds no more
\* than IntMax; str_to_int tests that after every digit.
LEMMA ReadingNumber ==
  ASSUME NEW m \in Buffer, NEW temp, TempLoop(temp, Digits(m), Count(m))
  PROVE  LET q == AtDigits(m)
             v == Number(SubSeq(Text(m), q + 1, q + Count(m)))
         IN  /\ Fits(temp, Count(m)) <=> v <= IntMax
             /\ Fits(temp, Count(m)) => temp[Count(m)] = v
<1> DEFINE n == strlen(m)
           s == Text(m)
           q == AtDigits(m)
           c == Count(m)
           d == Digits(m)
           u == SubSeq(s, q + 1, q + c)
<1>1. n \in Nat
  BY StrlenFinds, Positions
<1>2. s \in Seq(Char) /\ Len(s) = n /\ \A i \in 1 .. n : s[i] = m[i - 1]
  BY TextIs
<1>3. c \in Nat /\ q + c \in q .. n
  BY DigitsStop
<1>4. AtSign(m) \in 0 .. n /\ q \in AtSign(m) .. n
  BY SignStops
<1>5. \A k \in 1 .. c : d[k] \in DOMAIN Digit /\ Digit[d[k]] \in 0 .. 9 /\ d[k] = m[q + k - 1]
  BY DigitsAre DEF Digits
<1>6. TempLoop(temp, d, c) /\ AreDigits(d, c)
  BY <1>5 DEF AreDigits
<1> HIDE DEF n, s, q, c, d
<1>7. q \in Nat /\ q + c <= n
  BY <1>1, <1>3, <1>4
<1>8. u \in Seq(Char) /\ Len(u) = c /\ \A k \in 1 .. c : u[k] = s[q + k]
  <2>1. \A k \in 1 .. c : q + k \in 1 .. n
    BY <1>1, <1>3, <1>7
  <2>2. \A k \in 1 .. c : s[q + k] \in Char
    BY <1>2, <2>1, ElementOfSeq
  <2> QED BY <1>3, <1>7, <2>2, Between
<1> HIDE DEF u
<1>9. ASSUME NEW k \in 1 .. c PROVE u[k] = d[k]
  <2>1. q + k \in 1 .. n /\ (q + k) - 1 = q + k - 1
    BY <1>1, <1>3, <1>7
  <2> QED BY <1>2, <1>5, <1>8, <2>1
<1>10. PICK v \in [0 .. c -> Nat] :
         /\ v[0] = 0
         /\ \A k \in 1 .. c : v[k] = v[k - 1] * 10 + Digit[u[k]]
         /\ Number(u) = v[c]
  BY <1>3, <1>5, <1>8, <1>9, NumberIs
<1>11. Exact(v, d, c)
  BY <1>9, <1>10 DEF Exact
<1>12. Wrapped(temp, d, c)
  BY <1>3, <1>6, TempIs
<1>13. /\ Fits(temp, c) <=> v[c] <= IntMax
       /\ Fits(temp, c) => temp[c] = v[c]
  BY <1>3, <1>6, <1>11, <1>12, SameNumber
<1>14. /\ Fits(temp, c) <=> Number(u) <= IntMax
       /\ Fits(temp, c) => temp[c] = Number(u)
  BY <1>10, <1>13
<1> QED BY <1>14 DEF u, s, q, c

\* A text that str_to_int accepts has a reading.
LEMMA AcceptedHasReading ==
  ASSUME NEW m \in Buffer, Count(m) > 0,
         m[SkipSpaces(m, AtDigits(m) + Count(m))] = NUL,
         Number(SubSeq(Text(m), AtDigits(m) + 1, AtDigits(m) + Count(m))) <= IntMax
  PROVE  Readings(Text(m)) # {}
<1> DEFINE n == strlen(m)
           s == Text(m)
           p == AtSign(m)
           q == AtDigits(m)
           c == Count(m)
           r == [a |-> p, b |-> q - p, c |-> c]
<1>1. n \in Nat /\ \A j \in 0 .. n - 1 : m[j] # NUL
  BY StrlenFinds, Positions
<1>2. s \in Seq(Char) /\ Len(s) = n /\ \A i \in 1 .. n : s[i] = m[i - 1]
  BY TextIs
<1>3. c \in Nat /\ q + c \in q .. n /\ \A j \in q .. q + c - 1 : m[j] \in DOMAIN Digit
  BY DigitsStop
<1>4. p \in 0 .. n /\ q \in p .. n /\ q <= p + 1 /\ \A j \in 0 .. p - 1 : m[j] = Space
  BY SignStops
<1>5. q = p \/ (q = p + 1 /\ m[p] \in {"-", "+"})
  BY DEF AtDigits, Sign
<1>6. p \in Nat /\ q \in Nat /\ p <= q /\ q + c <= n
  <2> HIDE DEF n, p, q, c
  <2> QED BY <1>1, <1>3, <1>4
<1>7. \A j \in q + c .. n - 1 : m[j] = Space
  <2> DEFINE z == SkipSpaces(m, q + c)
  <2>1. q + c \in 0 .. n
    <3> HIDE DEF n, p, q, c
    <3> QED BY <1>1, <1>3, <1>6
  <2>2. z \in q + c .. n /\ \A j \in q + c .. z - 1 : m[j] = Space
    BY <2>1, SkipStops
  <2>3. m[z] = NUL
    OBVIOUS
  <2> HIDE DEF z, n, p, q, c
  <2>4. z = n
    <3>1. z \in 0 .. n /\ (z # n => z \in 0 .. n - 1)
      BY <1>1, <1>3, <1>6, <2>2
    <3> QED BY <1>1, <2>3, <3>1
  <2> QED BY <2>2, <2>4
<1>8. c > 0 /\ Number(SubSeq(s, q + 1, q + c)) <= IntMax
  OBVIOUS
<1> HIDE DEF n, s, p, q, c
<1>9. r.a = p /\ r.b = q - p /\ r.c = c /\ r.a + r.b = q /\ r.a + r.b + r.c = q + c
  BY <1>3, <1>6
<1>10. r \in [a : 0 .. n, b : 0 .. 1, c : 1 .. n]
  <2>1. p \in 0 .. n /\ q - p \in 0 .. 1 /\ c \in 1 .. n
    BY <1>1, <1>3, <1>5, <1>6, <1>8
  <2> QED BY <2>1
<1>11. \A i \in 1 .. n : s[i] \in Char
  BY <1>2, ElementOfSeq
<1>12. IsSpaces(SubSeq(s, 1, p))
  <2>1. 1 \in Int /\ p \in Int /\ \A i \in 1 .. p : i \in 1 .. n /\ i - 1 \in 0 .. p - 1
    BY <1>1, <1>3, <1>6
  <2> QED BY <1>2, <1>4, <1>11, <2>1, SpacesBetween
<1>13. IsSpaces(SubSeq(s, q + c + 1, n))
  <2>1. /\ q + c + 1 \in Int /\ n \in Int
        /\ \A i \in q + c + 1 .. n : i \in 1 .. n /\ i - 1 \in q + c .. n - 1
    BY <1>1, <1>3, <1>6
  <2> QED BY <1>2, <1>7, <1>11, <2>1, SpacesBetween
<1>14. q - p = 1 => s[p + 1] \in {"-", "+"}
  <2>1. q - p = 1 => p + 1 \in 1 .. n /\ (p + 1) - 1 = p /\ q # p
    BY <1>1, <1>3, <1>6, <1>8
  <2> QED BY <1>2, <1>5, <2>1
<1>15. ASSUME NEW i \in q + 1 .. q + c PROVE s[i] \in DOMAIN Digit
  <2>1. i \in 1 .. n /\ i - 1 \in q .. q + c - 1
    BY <1>1, <1>3, <1>6
  <2> QED BY <1>2, <1>3, <2>1
<1> HIDE DEF r
<1>16. r \in Readings(s)
  BY <1>2, <1>6, <1>8, <1>9, <1>10, <1>12, <1>13, <1>14, <1>15 DEF Readings
<1> QED BY <1>16 DEF s

\* What ParsesExactly says of the caller's string holds of every string.
LEMMA Parses ==
  ASSUME NEW m \in Buffer
  PROVE  LET s == Text(m)
         IN  /\ Parse(m).ok = (Readings(s) # {})
             /\ \A r \in Readings(s) :
                  Parse(m).value =
                    LET v == Number(SubSeq(s, r.a + r.b + 1, r.a + r.b + r.c))
                    IN  IF r.b = 1 /\ s[r.a + 1] = "-" THEN -v ELSE v
<1> DEFINE s == Text(m)
           q == AtDigits(m)
           c == Count(m)
           v == Number(SubSeq(s, q + 1, q + c))
           ends == m[SkipSpaces(m, q + c)] = NUL
<1>1. PICK temp :
        /\ TempLoop(temp, Digits(m), c)
        /\ Parse(m).ok \in BOOLEAN
        /\ Parse(m).ok <=> c > 0 /\ Fits(temp, c) /\ ends
        /\ Parse(m).value = IF m[AtSign(m)] = "-" THEN -temp[c] ELSE temp[c]
  BY ParseIs
<1>2. (Fits(temp, c) <=> v <= IntMax) /\ (Fits(temp, c) => temp[c] = v)
  BY <1>1, ReadingNumber
<1>3. c > 0 /\ ends /\ v <= IntMax => Readings(s) # {}
  BY AcceptedHasReading
<1>4. ASSUME NEW r \in Readings(s)
      PROVE  /\ r.a = AtSign(m) /\ r.a + r.b = q /\ r.c = c
             /\ r.b = 1 <=> m[AtSign(m)] \in Sign
             /\ c > 0 /\ ends /\ v <= IntMax
             /\ r.b = 1 => s[r.a + 1] = m[AtSign(m)]
  <2>1. /\ r.a = AtSign(m) /\ r.a + r.b = q /\ r.c = c
        /\ r.b = 1 <=> m[AtSign(m)] \in Sign
        /\ c > 0 /\ SkipSpaces(m, q + c) = strlen(m)
    BY ReadingFound
  <2>2. ends
    BY <2>1, StrlenFinds
  <2>3. Number(SubSeq(s, r.a + r.b + 1, r.a + r.b + r.c)) <= IntMax
    BY DEF Readings
  <2>4. v <= IntMax
    <3> HIDE DEF q, c
    <3> QED BY <2>1, <2>3
  <2>5. r.b = 1 => s[r.a + 1] = m[AtSign(m)]
    <3>1. strlen(m) \in Nat /\ q \in r.a .. strlen(m) /\ r.a \in 0 .. strlen(m)
      BY <2>1, StrlenFinds, Positions, SignStops
    <3>2. r.b = 1 => r.a + 1 \in 1 .. strlen(m) /\ (r.a + 1) - 1 = r.a
      <4> HIDE DEF q, c
      <4> QED BY <2>1, <3>1
    <3> QED BY <2>1, <3>2, TextIs
  <2> QED BY <2>1, <2>2, <2>4, <2>5
<1> HIDE DEF v, ends, s, q, c
<1>5. Parse(m).ok <=> Readings(s) # {}
  <2>1. ASSUME Readings(s) # {} PROVE c > 0 /\ ends /\ v <= IntMax
    <3>1. PICK r : r \in Readings(s)
      BY <2>1
    <3> QED BY <1>4, <3>1
  <2> QED BY <1>1, <1>2, <1>3, <2>1
<1>6. Parse(m).ok = (Readings(s) # {})
  BY <1>1, <1>5, Zenon
<1>7. ASSUME NEW r \in Readings(s)
      PROVE  Parse(m).value =
               LET w == Number(SubSeq(s, r.a + r.b + 1, r.a + r.b + r.c))
               IN  IF r.b = 1 /\ s[r.a + 1] = "-" THEN -w ELSE w
  <2>1. temp[c] = v /\ Number(SubSeq(s, r.a + r.b + 1, r.a + r.b + r.c)) = v
    BY <1>2, <1>4 DEF v
  <2>2. m[AtSign(m)] = "-" <=> r.b = 1 /\ s[r.a + 1] = "-"
    BY <1>4 DEF Sign
  <2> QED BY <1>1, <2>1, <2>2
<1> QED BY <1>6, <1>7 DEF s

-----------------------------------------------------------------------------
(* The caller. *)

\* The functions leave a string in the array: it is never without its NUL.
LEMMA BufferKept == StrSpec => [](buf \in Buffer)
<1>1. StrInit => buf \in Buffer
  BY DEF StrInit
<1>2. buf \in Buffer /\ [StrNext]_strVars => (buf \in Buffer)'
  <2> SUFFICES ASSUME buf \in Buffer, [StrNext]_strVars PROVE buf' \in Buffer
    OBVIOUS
  <2>1. CASE CallReverse
    BY <2>1, ReverseIs DEF CallReverse
  <2>2. CASE CallTrim
    BY <2>2, TrimIs DEF CallTrim, Trimmed
  <2>3. CASE CallToInt
    BY <2>3 DEF CallToInt
  <2>4. CASE UNCHANGED strVars
    BY <2>4 DEF strVars
  <2> QED BY <2>1, <2>2, <2>3, <2>4 DEF StrNext
<1> QED BY <1>1, <1>2, PTL DEF StrSpec

\* str_reverse turns every text round in place and touches nothing from its
\* terminator on, for a buffer of any size and after any calls.
THEOREM StrReverse == StrSpec => []ReverseReverses
<1>1. buf \in Buffer => ReverseReverses
  BY Reverses DEF ReverseReverses
<1> QED BY <1>1, BufferKept, PTL

\* str_trim leaves exactly what is between the spaces, although it copies
\* within the array, and touches nothing behind the old terminator.
THEOREM StrTrim == StrSpec => []TrimTrims
<1>1. buf \in Buffer => TrimTrims
  BY Trims DEF TrimTrims
<1> QED BY <1>1, BufferKept, PTL

\* str_to_int accepts the texts that write a number of at most IntMax, with
\* any number of digits, and no other, and finds their number: temp wraps
\* round to no number that is accepted, if a long holds 10 * INT_MAX + 9.
THEOREM StrToInt == StrSpec => []ParsesExactly
<1>1. buf \in Buffer => ParsesExactly
  BY Parses DEF ParsesExactly
<1> QED BY <1>1, BufferKept, PTL
=============================================================================

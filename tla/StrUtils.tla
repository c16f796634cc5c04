------------------------------ MODULE StrUtils ------------------------------
(***************************************************************************)
(* Baitap1: the three functions of strutils.c on a C string, a piece of    *)
(* memory of fixed size in which a NUL ends the text.  main.c calls them   *)
(* on arrays and literals of its own; here they are called on any buffer,  *)
(* with anything behind the NUL, in any order and again and again.  NULL   *)
(* arguments, which the functions refuse, are left out.                    *)
(***************************************************************************)
EXTENDS Integers, Sequences, FiniteSetsExt

CONSTANTS
  Size,     \* of the buffer
  IntMax,   \* 2147483647
  LongMax   \* greatest value of temp, a long

ASSUME StrUtilsAssumption ==
  /\ Size \in Nat \ {0} /\ IntMax \in Nat
  /\ LongMax \in Nat /\ 10 * IntMax + 9 <= LongMax

NUL   == "NUL"
Space == "SP"   \* any that isspace() accepts
Digit == [c \in {"0", "1", "5"} |->    \* three, for all ten
            CASE c = "0" -> 0 [] c = "1" -> 1 [] c = "5" -> 5]
Char  == {NUL, Space, "-", "+"} \cup DOMAIN Digit

Buffer == {m \in [0 .. Size - 1 -> Char] : \E i \in DOMAIN m : m[i] = NUL}

VARIABLES
  buf,      \* the caller's array
  ok,       \* what str_to_int returned
  result    \* where str_to_int puts the number

strVars == <<buf, ok, result>>

StrInit == buf \in Buffer /\ ok = FALSE /\ result = 0

strlen(m) == Min({i \in DOMAIN m : m[i] = NUL})

-----------------------------------------------------------------------------
(* str_reverse *)

Half_BugWhole(len) == len   \* i < len
Half(len) == len \div 2

Swap(m, i, j) == [m EXCEPT ![i] = m[j], ![j] = m[i]]

\* The loop: round[i] is the array after i swaps.
str_reverse(m) ==
  LET len == strlen(m)
      round[i \in 0 .. Half(len)] ==
        IF i = 0 THEN m ELSE Swap(round[i - 1], i - 1, len - i)
  IN  round[Half(len)]

-----------------------------------------------------------------------------
(* str_trim *)

\* The first position from p on that is no space; a NUL is none.
SkipSpaces(m, p) == Min({i \in p .. Size - 1 : m[i] # Space})

CopyDown_BugBackwards(m, start, len) ==   \* from the last character on
  LET round[i \in 0 .. len] ==
        IF i = 0 THEN m
        ELSE [round[i - 1] EXCEPT ![len - i] = round[i - 1][start + len - i]]
  IN  round[len]

\* The loop: round[i] is the array after i characters; source and destination
\* overlap.
CopyDown(m, start, len) ==
  LET round[i \in 0 .. len] ==
        IF i = 0 THEN m
        ELSE [round[i - 1] EXCEPT ![i - 1] = round[i - 1][start + i - 1]]
  IN  round[len]

str_trim(m) ==
  LET start == SkipSpaces(m, 0)
      end   == Max({i \in start .. strlen(m) - 1 : i = start \/ m[i] # Space})
      len   == end - start + 1
  IN  IF m[start] = NUL
      THEN [m EXCEPT ![0] = NUL]
      ELSE [CopyDown(m, start, len) EXCEPT ![len] = NUL]

-----------------------------------------------------------------------------
(* str_to_int *)

Wrap(x) == x % (LongMax + 1)

Fits_BugAtEnd(temp, n) == temp[n] <= IntMax   \* the test after the loop
\* The test in the loop, after every digit.
Fits(temp, n) == \A k \in 1 .. n : temp[k] <= IntMax

\* Whether str_to_int(m) succeeds, and with what number.
Parse(m) ==
  LET p    == SkipSpaces(m, 0)
      q    == IF m[p] \in {"-", "+"} THEN p + 1 ELSE p
      n    == Min({i \in q .. Size - 1 : m[i] \notin DOMAIN Digit}) - q
      temp[k \in 0 .. n] ==
        IF k = 0 THEN 0 ELSE Wrap(temp[k - 1] * 10 + Digit[m[q + k - 1]])
  IN  [ok    |-> n > 0 /\ Fits(temp, n) /\ m[SkipSpaces(m, q + n)] = NUL,
       value |-> IF m[p] = "-" THEN -temp[n] ELSE temp[n]]

-----------------------------------------------------------------------------
(* The caller. *)

CallReverse == buf' = str_reverse(buf) /\ UNCHANGED <<ok, result>>
CallTrim    == buf' = str_trim(buf) /\ UNCHANGED <<ok, result>>
CallToInt   ==
  /\ ok' = Parse(buf).ok
  /\ result' = IF ok' THEN Parse(buf).value ELSE result
  /\ UNCHANGED buf

StrNext == CallReverse \/ CallTrim \/ CallToInt
StrSpec == StrInit /\ [][StrNext]_strVars

-----------------------------------------------------------------------------
(* Properties. *)

Text(m)      == [i \in 1 .. strlen(m) |-> m[i - 1]]
Behind(m, n) == [i \in n .. Size - 1 |-> m[i]]
IsSpaces(s)  == \A i \in DOMAIN s : s[i] = Space

\* str_reverse turns the text round, of odd and of even length, and touches
\* nothing from the terminator on.
ReverseReverses ==
  LET n == strlen(buf)
      r == str_reverse(buf)
  IN  /\ Text(r) = [i \in 1 .. n |-> Text(buf)[n + 1 - i]]
      /\ Behind(r, n) = Behind(buf, n)

\* str_trim leaves the text between the spaces, the empty one if there is
\* none, although it copies within the array, and touches nothing behind the
\* old terminator.
TrimTrims ==
  LET s == Text(buf)
      t == Text(str_trim(buf))
  IN  /\ \E i \in 0 .. Len(s) - Len(t) :
           /\ SubSeq(s, i + 1, i + Len(t)) = t
           /\ IsSpaces(SubSeq(s, 1, i))
           /\ IsSpaces(SubSeq(s, i + Len(t) + 1, Len(s)))
      /\ t # <<>> => Space \notin {t[1], t[Len(t)]}
      /\ Behind(str_trim(buf), Len(s)) = Behind(buf, Len(s))

\* The number a sequence of digits writes.
Number(s) ==
  LET number[k \in 0 .. Len(s)] ==
        IF k = 0 THEN 0 ELSE number[k - 1] * 10 + Digit[s[k]]
  IN  number[Len(s)]

\* The ways to read s as a spaces, b signs, c digits that write at most
\* IntMax, and spaces.
Readings(s) ==
  {r \in [a : 0 .. Len(s), b : 0 .. 1, c : 1 .. Len(s)] :
     LET to == r.a + r.b + r.c IN
       /\ to <= Len(s)
       /\ IsSpaces(SubSeq(s, 1, r.a))
       /\ r.b = 1 => s[r.a + 1] \in {"-", "+"}
       /\ \A i \in r.a + r.b + 1 .. to : s[i] \in DOMAIN Digit
       /\ IsSpaces(SubSeq(s, to + 1, Len(s)))
       /\ Number(SubSeq(s, r.a + r.b + 1, to)) <= IntMax}

\* str_to_int accepts spaces, one sign, digits and spaces if the digits write
\* at most IntMax, however many there are, and nothing else (not the least
\* integer either, although an int can hold it), and the number is right.
ParsesExactly ==
  LET s == Text(buf) IN
    /\ Parse(buf).ok = (Readings(s) # {})
    /\ \A r \in Readings(s) :
         Parse(buf).value =
           LET v == Number(SubSeq(s, r.a + r.b + 1, r.a + r.b + r.c))
           IN  IF r.b = 1 /\ s[r.a + 1] = "-" THEN -v ELSE v
=============================================================================

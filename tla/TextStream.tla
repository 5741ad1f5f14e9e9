----------------------------- MODULE TextStream -----------------------------
(***************************************************************************)
(* What Stream (api/Stream.cpp) makes of the characters of a port: it      *)
(* looks for one of several strings, takes a number, or takes the          *)
(* characters up to a terminator.  Every character comes in time or the    *)
(* call gives up, wherever that happens.  A call keeps nothing for the     *)
(* next one but the characters it has not taken, so a behaviour is one     *)
(* call on any text.                                                       *)
(***************************************************************************)
EXTENDS Integers, SequencesExt

CONSTANTS
  Texts,      \* what may come in a search
  Targets,    \* the lists of strings to search for
  Numbers,    \* what may come where a number is expected
  MaxLength,  \* bound: the length readBytesUntil() is called with
  LongHalf    \* half of the values of a long

\* Characters: the digits are themselves.
Minus == 10
Comma == 11
Space == 12
Letter == 13
None == 99     \* NO_IGNORE_CHAR

TextAssumption ==
  /\ Texts \cup Numbers \subseteq Seq(0..Letter) /\ Targets \subseteq Seq(Seq(0..Letter))
  /\ MaxLength \in Nat /\ LongHalf \in Nat \ {0}

Modes == {"SKIP_ALL", "SKIP_NONE", "SKIP_WHITESPACE"}

VARIABLES
  call,              \* "find", "parseInt" or "readBytesUntil"
  pc,                \* "skip", "number" and "loop" of the calls, or "returned"
  text,              \* what has not been taken
  targets, index,    \* of findMulti()
  lookahead, ignore, isNegative, value,   \* of parseInt()
  terminator, length, buffer,             \* of readBytesUntil()
  result,
  taken, gaveUp      \* history: what was taken; a character did not come in time

search == <<targets, index>>
number == <<lookahead, ignore, isNegative, value>>
block  == <<terminator, length, buffer>>
vars   == <<call, pc, text, search, number, block, result, taken, gaveUp>>

FindInit ==
  /\ call = "find" /\ pc = "loop" /\ text \in Texts /\ targets \in Targets
  /\ lookahead = "SKIP_ALL" /\ ignore = None /\ terminator = None /\ length = 0

ParseInit ==
  /\ call = "parseInt" /\ pc = "skip" /\ text \in Numbers /\ targets = <<>>
  /\ lookahead \in Modes /\ ignore \in {Comma, None} /\ terminator = None /\ length = 0

UntilInit ==
  /\ call = "readBytesUntil" /\ pc = "loop" /\ text \in Numbers /\ targets = <<>>
  /\ lookahead = "SKIP_ALL" /\ ignore = None /\ terminator \in {Comma, 7} /\ length \in 0..MaxLength

Init ==
  /\ FindInit \/ ParseInit \/ UntilInit
  /\ index = [t \in DOMAIN targets |-> 0] /\ isNegative = FALSE /\ value = 0 /\ buffer = <<>>
  /\ result = 0 /\ taken = <<>> /\ gaveUp = FALSE

-----------------------------------------------------------------------------
(* read(), timedRead() and timedPeek().                                    *)

Peeked(c) == text # <<>> /\ c = Head(text)

Read == taken' = Append(taken, Head(text)) /\ text' = Tail(text)

Return(r) == pc' = "returned" /\ result' = r

\* A character does not come in time: the call returns what it has.
GiveUp(r) ==
  /\ gaveUp' = TRUE /\ Return(r)
  /\ UNCHANGED <<call, text, search, number, block, taken>>

-----------------------------------------------------------------------------
(* findMulti().                                                            *)

\* The shorter beginnings of a string that the characters so far, and this one, end with.
Shorter(str, i, c) ==
  {k \in 0..i - 1 : c = str[k + 1] /\ \A j \in 1..k : str[j] = str[j + i - k]}

\* Faulty variant: after a mismatch the search starts again.
Restarted(str, i, c) ==
  IF c = str[i + 1] THEN i + 1 ELSE IF c = str[1] THEN 1 ELSE 0

\* How much of the string is found after one more character.
Advanced(str, i, c) ==
  IF c = str[i + 1] THEN i + 1
  ELSE IF Shorter(str, i, c) = {} THEN 0 ELSE Max(Shorter(str, i, c)) + 1

Searches == call = "find" /\ pc = "loop"

EmptyTargets == {t \in DOMAIN targets : targets[t] = <<>>}

FindsEmpty ==
  /\ Searches /\ EmptyTargets # {}
  /\ Return(Min(EmptyTargets) - 1)
  /\ UNCHANGED <<call, text, search, number, block, taken, gaveUp>>

\* The targets are advanced in their order; the first that is complete ends the search.
FindStep(c) ==
  /\ Searches /\ EmptyTargets = {} /\ Peeked(c)
  /\ LET next == [t \in DOMAIN targets |-> Advanced(targets[t], index[t], c)]
         complete == {t \in DOMAIN targets : next[t] = Len(targets[t])} IN
       IF complete = {}
       THEN index' = next /\ UNCHANGED <<pc, result>>
       ELSE /\ Return(Min(complete) - 1)
            /\ index' = [t \in DOMAIN targets |-> IF t <= Min(complete) THEN next[t] ELSE index[t]]
  /\ Read
  /\ UNCHANGED <<call, targets, number, block, gaveUp>>

FindGivesUp == Searches /\ EmptyTargets = {} /\ GiveUp(-1)

-----------------------------------------------------------------------------
(* parseInt() and peekNextDigit().                                         *)

IsDigit(c) == c \in 0..9
Skips(c) == CASE lookahead = "SKIP_ALL" -> TRUE
              [] lookahead = "SKIP_NONE" -> FALSE
              [] lookahead = "SKIP_WHITESPACE" -> c = Space

Parses(p) == call = "parseInt" /\ pc = p

Skip(c) ==
  /\ Parses("skip") /\ Peeked(c) /\ c # Minus /\ ~IsDigit(c)
  /\ IF Skips(c) THEN Read /\ UNCHANGED <<pc, result>> ELSE Return(0) /\ UNCHANGED <<text, taken>>
  /\ UNCHANGED <<call, search, number, block, gaveUp>>

\* What a long keeps of an integer.
Long(v) == ((v + LongHalf) % (2 * LongHalf)) - LongHalf

\* A character of the number, taken; the first may be a sign.
ParseStep(c) ==
  /\ Peeked(c)
  /\ \/ Parses("skip") /\ (c = Minus \/ IsDigit(c))
     \/ Parses("number") /\ (IsDigit(c) \/ c = ignore)
  /\ pc' = "number" /\ Read
  /\ isNegative' = (isNegative \/ c = Minus)
  /\ value' = IF IsDigit(c) THEN Long(value * 10 + c) ELSE value
  /\ UNCHANGED <<call, search, lookahead, ignore, block, result, gaveUp>>

Signed == IF isNegative THEN Long(-value) ELSE value

ParseEnd(c) ==
  /\ Parses("number") /\ Peeked(c) /\ ~IsDigit(c) /\ c # ignore
  /\ Return(Signed)
  /\ UNCHANGED <<call, text, search, number, block, taken, gaveUp>>

ParseGivesUp == (Parses("skip") \/ Parses("number")) /\ GiveUp(Signed)

-----------------------------------------------------------------------------
(* readBytesUntil(), and readBytes() without a terminator.                 *)

Takes == call = "readBytesUntil" /\ pc = "loop"

UntilFull ==
  /\ Takes /\ Len(buffer) = length /\ Return(Len(buffer))
  /\ UNCHANGED <<call, text, search, number, block, taken, gaveUp>>

UntilStep(c) ==
  /\ Takes /\ Len(buffer) < length /\ Peeked(c) /\ Read
  /\ IF c = terminator
     THEN Return(Len(buffer)) /\ UNCHANGED buffer
     ELSE buffer' = Append(buffer, c) /\ UNCHANGED <<pc, result>>
  /\ UNCHANGED <<call, search, number, terminator, length, gaveUp>>

UntilGivesUp == Takes /\ Len(buffer) < length /\ GiveUp(Len(buffer))

Next ==
  \/ FindsEmpty \/ FindGivesUp \/ ParseGivesUp \/ UntilFull \/ UntilGivesUp
  \/ \E c \in 0..Letter : FindStep(c) \/ Skip(c) \/ ParseStep(c) \/ ParseEnd(c) \/ UntilStep(c)

Spec == Init /\ [][Next]_vars

-----------------------------------------------------------------------------
TypeOK ==
  /\ call \in {"find", "parseInt", "readBytesUntil"}
  /\ pc \in {"skip", "number", "loop", "returned"} /\ isNegative \in BOOLEAN /\ gaveUp \in BOOLEAN
  /\ \A t \in DOMAIN targets : index[t] \in 0..Len(targets[t])
  /\ Len(buffer) <= length /\ value \in -LongHalf..LongHalf - 1

\* A target ends at the n-th character taken.
EndsAt(str, n) == Len(str) <= n /\ SubSeq(taken, n - Len(str) + 1, n) = str

\* findMulti() stops at the first character with which one of the strings has come, and answers
\* with the first of those it completes; when it gives up, none has come.  Until then the index
\* of a string is how much of it the characters end with, whatever came before.
FindsTheFirst ==
  call = "find" =>
    /\ pc = "loop" => \A t \in DOMAIN targets :
         index[t] = Max({k \in 0..Len(targets[t]) : EndsAt(SubSeq(targets[t], 1, k), Len(taken))})
    /\ \A n \in 1..Len(taken) : \A t \in DOMAIN targets : EndsAt(targets[t], n) =>
         pc = "returned" /\ n = Len(taken) /\ result <= t - 1
    /\ pc = "returned" =>
         IF result = -1 THEN gaveUp ELSE EndsAt(targets[result + 1], Len(taken))

\* The number that a sequence of characters writes.
Written(s) == FoldLeft(LAMBDA n, c : IF IsDigit(c) THEN n * 10 + c ELSE n, 0, s)

\* parseInt() takes what it may skip, a sign and digits, and answers with the number they write,
\* unless a long does not hold it; it leaves no digit that came in time, and takes nothing when it
\* may skip nothing.
ParsesTheNumber ==
  call = "parseInt" /\ pc = "returned" =>
    /\ \E k \in 0..Len(taken) :
         /\ \A i \in 1..k : ~IsDigit(taken[i]) /\ taken[i] # Minus /\ Skips(taken[i])
         /\ \A i \in k + 1..Len(taken) :
              IsDigit(taken[i]) \/ (i > k + 1 /\ taken[i] = ignore) \/ (i = k + 1 /\ taken[i] = Minus)
         /\ Written(taken) < LongHalf =>
              result = (IF Contains(taken, Minus) THEN -1 ELSE 1) * Written(taken)
         /\ Len(taken) > k /\ ~gaveUp /\ text # <<>> => ~IsDigit(Head(text)) /\ Head(text) # ignore

\* readBytesUntil() places what came before the terminator, takes the terminator, and nothing
\* behind a full buffer.
TakesUntil ==
  call = "readBytesUntil" /\ pc = "returned" =>
    /\ taken \in {buffer, Append(buffer, terminator)} /\ ~Contains(buffer, terminator)
    /\ result = Len(buffer)
    /\ taken = buffer => gaveUp \/ Len(buffer) = length
=============================================================================

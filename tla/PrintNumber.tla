----------------------------- MODULE PrintNumber -----------------------------
(***************************************************************************)
(* print() of an integer (api/Print.cpp): the digits of a long are divided *)
(* off one by one, those of a long long in chunks whose remainders fit the *)
(* 16-bit division, which is the fast one.  Overflow wraps.                *)
(***************************************************************************)
EXTENDS Integers, SequencesExt

CONSTANTS
  Values, Bases,  \* print() is called with
  Word,           \* values of the unsigned type of the argument
  ByteMod,        \* values of the uint8_t that the base is passed on as (256)
  Max16           \* 0xFFFF

Minus == -1   \* the character, where digits are themselves

PrintAssumption ==
  /\ Values \subseteq -Word..Word /\ Word \in Nat \ {0} /\ Bases \subseteq Nat \ {0}
  /\ Max16 \in Nat /\ ByteMod \in Nat /\ 10 < ByteMod /\ 2 * ByteMod <= Max16

VARIABLES
  arg, base, wide,    \* the number, the base, which print() makes its own, and "it is a long long"
  pc,                 \* "print", "scale", "chunks", "digits" or "returned"
  n,                  \* what is left to print
  th16, innerLoops,   \* the size of a chunk, and its digits
  r, j,               \* the remainder that is being divided, and the loops so far
  buf,                \* the digits, backwards
  out                 \* what is written

chunk == <<th16, innerLoops, r, j>>
vars  == <<arg, base, wide, pc, n, chunk, buf, out>>

Init ==
  /\ arg \in Values /\ base \in Bases /\ wide \in BOOLEAN
  /\ pc = "print" /\ n = 0 /\ th16 = 1 /\ innerLoops = 0 /\ r = 0 /\ j = 0
  /\ buf = <<>> /\ out = <<>>

\* printNumber() and printULLNumber() get the low byte of the base, and take 0 and 1 for 10.
BaseOf(b) == IF b % ByteMod < 2 THEN 10 ELSE b % ByteMod

\* print(): only base 10 has a sign, other bases show the bits.
Signed ==
  /\ pc = "print"
  /\ LET negative == base = 10 /\ arg < 0 IN
       /\ out' = IF negative THEN <<Minus>> ELSE <<>>
       /\ n' = (IF negative THEN -arg ELSE arg) % Word
  /\ base' = BaseOf(base)
  /\ pc' = IF wide THEN "scale" ELSE "digits"
  /\ UNCHANGED <<arg, wide, chunk, buf>>

\* printULLNumber(): the largest power of the base below the 16 bits.
Scale ==
  /\ pc = "scale"
  /\ IF th16 < Max16 \div base
     THEN /\ th16' = (th16 * base) % (Max16 + 1) /\ innerLoops' = innerLoops + 1
          /\ UNCHANGED pc
     ELSE pc' = "chunks" /\ UNCHANGED <<th16, innerLoops>>
  /\ UNCHANGED <<arg, base, wide, n, r, j, buf, out>>

\* The division of n64, when the digits of the last remainder are done; what is left fits.
Divide ==
  /\ pc = "chunks" /\ j = 0
  /\ IF n > th16
     THEN r' = n % th16 /\ n' = n \div th16 /\ j' = innerLoops /\ UNCHANGED pc
     ELSE pc' = "digits" /\ UNCHANGED <<n, r, j>>
  /\ UNCHANGED <<arg, base, wide, th16, innerLoops, buf, out>>

\* Faulty variant: the loop ends with the remainder, as in printNumber().
LoopsToZero == IF r < base THEN 0 ELSE j - 1

\* The zeros in front of a remainder are digits too.
LoopsLeft == j - 1

DivideRemainder ==
  /\ pc = "chunks" /\ j > 0
  /\ buf' = Append(buf, r % base) /\ r' = r \div base /\ j' = LoopsLeft
  /\ UNCHANGED <<arg, base, wide, pc, n, th16, innerLoops, out>>

\* The digits of what is left: none of a long long 0, one of a long 0.
Digit ==
  /\ pc = "digits" /\ (n > 0 \/ (~wide /\ buf = <<>>))
  /\ buf' = Append(buf, n % base) /\ n' = n \div base
  /\ UNCHANGED <<arg, base, wide, pc, chunk, out>>

Write ==
  /\ pc = "digits" /\ n = 0 /\ (wide \/ buf # <<>>)
  /\ out' = out \o Reverse(buf) /\ pc' = "returned"
  /\ UNCHANGED <<arg, base, wide, n, chunk, buf>>

Next == Signed \/ Scale \/ Divide \/ DivideRemainder \/ Digit \/ Write

Spec == Init /\ [][Next]_vars

-----------------------------------------------------------------------------
\* The remainder and the size of a chunk stay in 16 bits.
TypeOK ==
  /\ pc \in {"print", "scale", "chunks", "digits", "returned"}
  /\ n \in 0..Word - 1 /\ th16 \in 1..Max16 /\ r \in 0..th16 - 1 /\ j \in 0..innerLoops

\* The number that digits write, by the place of each.
Number(digits) == FoldLeft(LAMBDA m, d : m * base + d, 0, digits)

Sign == IF out # <<>> /\ Head(out) = Minus THEN 1 ELSE 0

\* What is printed are the digits of the number in the base that is used, without zeros in front,
\* whichever way they are divided off: but for the long long 0, which prints nothing, they are
\* those of the reference implementation in the comment of printULLNumber().
PrintsTheDigits ==
  pc = "returned" /\ ~(wide /\ arg % Word = 0) =>
    LET digits == SubSeq(out, Sign + 1, Len(out)) IN
      /\ \A d \in ToSet(digits) : d \in 0..base - 1
      /\ Number(digits) = (IF Sign = 1 THEN -arg ELSE arg) % Word
      /\ (digits # <<>> /\ (Len(digits) > 1 => Head(digits) # 0))
=============================================================================

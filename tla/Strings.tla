------------------------------- MODULE Strings -------------------------------
(***************************************************************************)
(* A String (api/String.cpp): a buffer that grows when it has to and may   *)
(* fail to, and replace(), which goes over the text twice: forwards for    *)
(* the size of the result, backwards to make it.                           *)
(***************************************************************************)
EXTENDS Integers, SequencesExt

CONSTANTS
  Texts,         \* the arguments of assignments and of concat()
  Replacements,  \* the arguments of replace(), <<find, replace>>
  MaxText        \* bound: the length of a text that is appended to or replaced in

\* No end of what is searched for begins what it is replaced by, or itself.  Otherwise the way
\* back finds occurrences that were none, and not counted, on the way forth ("aab" with "ab"
\* replaced by "bcd"), and what becomes of the buffer is not modelled.
Apart(find, w) ==
  \A k \in 2..Len(find) :
    LET end == SubSeq(find, k, Len(find)) IN ~IsPrefix(end, w) /\ ~IsPrefix(w, end)

\* The characters of the arguments.
Character ==
  UNION {Range(s) : s \in Texts} \cup UNION {Range(p[1]) \cup Range(p[2]) : p \in Replacements}

StringsAssumption ==
  /\ Texts \subseteq Seq(Character) /\ Replacements \subseteq Seq(Character) \X Seq(Character)
  /\ MaxText \in Nat
  /\ \A p \in Replacements : p[1] # <<>> /\ Apart(p[1], p[1]) /\ Apart(p[1], p[2])

VARIABLES
  text, capacity,        \* of the String; it has no buffer if the capacity is NULL
  pc,                    \* "idle", or replace(): "overwrite", "count", "backward", "returned"
  find, replace,         \* arguments of replace()
  diff, size, readFrom, index,
  before, replaced       \* history: the text that replace() got; it had its memory

NULL == -1

args  == <<find, replace>>
loops == <<diff, size, readFrom, index>>
vars  == <<text, capacity, pc, args, loops, before, replaced>>

Init ==
  /\ text = <<>> /\ capacity = NULL /\ pc = "idle" /\ find = <<>> /\ replace = <<>>
  /\ diff = 0 /\ size = 0 /\ readFrom = 0 /\ index = 0 /\ before = <<>> /\ replaced = FALSE

-----------------------------------------------------------------------------
(* reserve() and changeBuffer(): realloc() may fail, and then changes nothing. *)

Reserved(n) == capacity' = IF capacity >= n THEN capacity ELSE n
NoMemory(n) == capacity < n

Idle == pc = "idle" /\ UNCHANGED <<pc, args, loops, before, replaced>>

\* operator=, through copy(); without memory, invalidate().
Assign(s) ==
  /\ Idle
  /\ \/ Reserved(Len(s)) /\ text' = s
     \/ NoMemory(Len(s)) /\ capacity' = NULL /\ text' = <<>>

\* concat(), and operator+ without memory.
Concat(s) ==
  /\ Idle /\ s # <<>> /\ Len(text) + Len(s) <= MaxText
  /\ \/ Reserved(Len(text) + Len(s)) /\ text' = text \o s
     \/ NoMemory(Len(text) + Len(s)) /\ text' \in {text, <<>>}
        /\ capacity' = IF text' = text THEN capacity ELSE NULL

\* remove(index, count)
Removes(at, count) ==
  /\ Idle /\ at < Len(text) /\ count > 0
  /\ text' = SubSeq(text, 1, at) \o SubSeq(text, at + count + 1, Len(text))
  /\ UNCHANGED capacity

-----------------------------------------------------------------------------
(* replace(find, replace).                                                 *)

OccurrencesIn(t) == {at \in 0..Len(t) - 1 : IsPrefix(find, SubSeq(t, at + 1, Len(t)))}

\* strstr(readFrom, find) and lastIndexOf(find, index).
Ahead == {at \in OccurrencesIn(text) : at >= readFrom}
Back == {at \in OccurrencesIn(text) : at <= index}

\* replace in the place of an occurrence, and the rest moved behind it.
Spliced(at) ==
  SubSeq(text, 1, at) \o replace \o SubSeq(text, at + Len(find) + 1, Len(text))

Shorter == Len(replace) < Len(find)

Replace(f, r) ==
  /\ pc = "idle" /\ text # <<>> /\ Len(text) <= MaxText
  /\ find' = f /\ replace' = r /\ diff' = Len(r) - Len(f)
  /\ size' = Len(text) /\ readFrom' = 0 /\ before' = text
  /\ pc' = IF diff' = 0 THEN "overwrite" ELSE "count"
  /\ UNCHANGED <<text, capacity, index, replaced>>

Return(done) == pc' = "returned" /\ replaced' = done

\* The caller goes on; what was local is gone.
Leave ==
  /\ pc = "returned" /\ pc' = "idle" /\ find' = <<>> /\ replace' = <<>>
  /\ diff' = 0 /\ size' = 0 /\ readFrom' = 0 /\ index' = 0 /\ before' = <<>> /\ replaced' = FALSE
  /\ UNCHANGED <<text, capacity>>

Overwrite ==
  /\ pc = "overwrite"
  /\ IF Ahead # {}
     THEN /\ text' = Spliced(Min(Ahead)) /\ readFrom' = Min(Ahead) + Len(replace)
          /\ UNCHANGED <<pc, replaced>>
     ELSE Return(TRUE) /\ UNCHANGED <<text, readFrom>>
  /\ UNCHANGED <<capacity, args, diff, size, index, before>>

\* For a shorter text the sign of diff changes with every occurrence.
Count ==
  /\ pc = "count" /\ Ahead # {}
  /\ readFrom' = Min(Ahead) + Len(find)
  /\ diff' = IF Shorter THEN 0 - diff ELSE diff
  /\ size' = IF Shorter THEN size - diff' ELSE size + diff
  /\ UNCHANGED <<text, capacity, pc, args, index, before, replaced>>

Counted ==
  /\ pc = "count" /\ Ahead = {}
  /\ \/ size = Len(text) /\ Return(TRUE) /\ UNCHANGED <<capacity, index>>
     \/ size > capacity /\ ~Shorter /\ Return(FALSE) /\ UNCHANGED <<capacity, index>>
     \/ /\ size # Len(text) /\ pc' = "backward" /\ index' = Len(text) - 1
        /\ capacity' = IF Shorter \/ size <= capacity THEN capacity ELSE size
        /\ UNCHANGED replaced
  /\ UNCHANGED <<text, args, diff, size, readFrom, before>>

\* Faulty variant: the way back stays at what was replaced.
Again == Max(Back)

NextIndex == Max(Back) - 1

Backward ==
  /\ pc = "backward"
  /\ IF index >= 0 /\ Back # {}
     THEN text' = Spliced(Max(Back)) /\ index' = NextIndex /\ UNCHANGED <<pc, replaced>>
     ELSE Return(TRUE) /\ UNCHANGED <<text, index>>
  /\ UNCHANGED <<capacity, args, diff, size, readFrom, before>>

Next ==
  \/ \E s \in Texts : Assign(s) \/ Concat(s)
  \/ \E at, count \in 0..MaxText : Removes(at, count)
  \/ \E p \in Replacements : Replace(p[1], p[2])
  \/ Overwrite \/ Count \/ Counted \/ Backward \/ Leave

Spec == Init /\ [][Next]_vars

-----------------------------------------------------------------------------
\* The text fits the buffer, in the middle of replace() as well.
TypeOK ==
  /\ capacity \in Nat \cup {NULL} /\ Len(text) <= (IF capacity = NULL THEN 0 ELSE capacity)
  /\ pc \in {"idle", "overwrite", "count", "backward", "returned"}
  /\ diff \in Int /\ size \in Nat /\ readFrom \in Nat /\ index >= -1

\* The text from each place on, with every occurrence replaced.
SubstitutedFrom(t) ==
  LET rest[i \in 0..Len(t)] ==
        IF i = Len(t) THEN <<>>
        ELSE IF i \in OccurrencesIn(t) THEN replace \o rest[i + Len(find)]
        ELSE <<t[i + 1]>> \o rest[i + 1]
  IN rest

Substituted(t) == SubstitutedFrom(t)[0]

\* The way forth of a shorter replacement counts an even number of occurrences as none.
CountedAsNone == Shorter /\ Cardinality(OccurrencesIn(before)) % 2 = 0

\* replace() replaces each occurrence of what was in the text once, and nothing that came with a
\* replacement; on the way forth the text is as it was.  Nothing is said here of a shorter
\* replacement of an even number of occurrences, for which the way forth finds the old size.
ReplacesOnce ==
  /\ replaced /\ ~CountedAsNone => text = Substituted(before)
  /\ pc = "count" => text = before
=============================================================================

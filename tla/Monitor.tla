------------------------------- MODULE Monitor -------------------------------
(***************************************************************************)
(* The monitor of the bootloader on USB: sam_ba_monitor_loop()             *)
(* (bootloaders/r34/sam_ba_monitor.c) over cdc_read_buf(),                 *)
(* cdc_read_buf_xmd() and USB_Read() (sam_ba_cdc.c, board_driver_usb.c).   *)
(* The host's commands are one stream of characters, which it cuts into    *)
(* packets; the monitor parses the characters of a packet one by one.      *)
(* The commands S, O, o and V stand for those that take data behind their  *)
(* line, write, answer from memory, and answer with a text, ? for one that *)
(* the monitor does not know; X and Y are in Boot.  Numbers have base 4    *)
(* and two digits.                                                         *)
(***************************************************************************)
EXTENDS Integers, Sequences, SequencesExt

CONSTANTS
  Scripts,      \* the sequences of commands the host may send
  MaxPacket,    \* the size of a packet and of the buffer (64)
  Flushes       \* the host ends a packet with every '#' and all the data of S

Digits == <<"0", "1", "2", "3">>
Letters == {"S", "O", "o", "V", "?"}
Character == Range(Digits) \cup Letters \cup {",", "#"}
Address == 0..3

\* A command; only S has bytes, as many as it says.
Commands ==
  {c \in [command : Letters, address : Address, number : 0..15, bytes : Seq(Character)] :
     Len(c.bytes) = IF c.command = "S" THEN c.number ELSE 0}

MonitorAssumption ==
  /\ Scripts \subseteq Seq(Commands) /\ MaxPacket \in Nat \ {0} /\ Flushes \in BOOLEAN

VARIABLES
  script,       \* constant in a behaviour
  sent,         \* characters of the script the host has sent
  bank,         \* the packet received, EPINTFLAG.TRCPT0; <<>>: none
  data,         \* the characters of data[] from ptr on, length - i of them
  command, current_number, ptr_data,
  todo, dst,    \* cdc_read_buf_xmd(): remaining, dst
  memory,
  answers       \* what was written to the host

parser == <<command, current_number, ptr_data>>
xmd    == <<todo, dst>>
vars   == <<script, sent, bank, data, parser, xmd, memory, answers>>

High(n) == Digits[(n \div 4) + 1]
Low(n)  == Digits[(n % 4) + 1]

Line(c) ==
  IF c.command \in {"V", "?"} THEN <<c.command, "#">>
  ELSE <<c.command, High(c.address), Low(c.address), ",", High(c.number), Low(c.number), "#">>

Characters(c) == Line(c) \o c.bytes

\* The characters of the first n commands, and of all.
First(n) == FoldLeft(LAMBDA s, c : s \o Characters(c), <<>>, SubSeq(script, 1, n))
Stream == First(Len(script))

\* Where a host that flushes ends a packet.
Ends == {Len(First(n)) : n \in DOMAIN script}
          \cup {Len(First(n)) - Len(script[n].bytes) : n \in DOMAIN script}

Init ==
  /\ script \in Scripts
  /\ sent = 0 /\ bank = <<>> /\ data = <<>>
  /\ command = "z" /\ current_number = 0 /\ ptr_data = 0
  /\ todo = 0 /\ dst = 0
  /\ memory = [a \in Address |-> "0"] /\ answers = <<>>

-----------------------------------------------------------------------------
(* The host. *)

Send ==
  /\ bank = <<>>
  /\ \E n \in 1..MaxPacket :
       /\ sent + n <= Len(Stream)
       /\ Flushes => Ends \cap (sent + 1 .. sent + n - 1) = {}
       /\ bank' = SubSeq(Stream, sent + 1, sent + n) /\ sent' = sent + n
  /\ UNCHANGED <<script, data, parser, xmd, memory, answers>>

-----------------------------------------------------------------------------
(* Reading.  USB_Read() returns what it was asked for at most; the rest of *)
(* the packet is gone.                                                     *)

Least(m, n) == IF m < n THEN m ELSE n

\* Memory with the bytes at a.
Stored(a, bytes) ==
  [x \in Address |-> IF x \in a .. a + Len(bytes) - 1 THEN bytes[x - a + 1] ELSE memory[x]]

ReadBuffer == bank # <<>> /\ data = <<>> /\ todo = 0

Read ==
  /\ ReadBuffer
  /\ data' = bank /\ bank' = <<>>
  /\ UNCHANGED <<script, sent, parser, xmd, memory, answers>>

\* Faulty variant: every packet goes to the start.
SameDst(n) == dst

NextDst(n) == dst + n

ReadXmd ==
  /\ bank # <<>> /\ todo > 0
  /\ LET n == Least(Len(bank), todo) IN
       /\ memory' = Stored(dst, SubSeq(bank, 1, n))
       /\ todo' = todo - n /\ dst' = NextDst(n)
  /\ bank' = <<>>
  /\ UNCHANGED <<script, sent, data, parser, answers>>

-----------------------------------------------------------------------------
(* Parsing. *)

Parse(c) ==
  /\ todo = 0 /\ data # <<>> /\ Head(data) = c
  /\ UNCHANGED <<script, sent, bank>>

ParseDigit ==
  \E d \in 1..4 :
    /\ Parse(Digits[d])
    /\ current_number' = (current_number * 4 + d - 1) % 16
    /\ data' = Tail(data)
    /\ UNCHANGED <<command, ptr_data, xmd, memory, answers>>

ParseComma ==
  /\ Parse(",")
  /\ ptr_data' = current_number /\ current_number' = 0
  /\ data' = Tail(data)
  /\ UNCHANGED <<command, xmd, memory, answers>>

ParseCommand ==
  \E c \in Letters :
    /\ Parse(c)
    /\ command' = c /\ current_number' = 0
    /\ data' = Tail(data)
    /\ UNCHANGED <<ptr_data, xmd, memory, answers>>

Execute(c) ==
  /\ Parse("#") /\ command = c
  /\ command' = "z" /\ current_number' = 0 /\ UNCHANGED ptr_data

\* What is left of the buffer comes first; the rest is read to ptr_data too.
ExecuteS ==
  /\ Execute("S")
  /\ LET j == Least(Len(data) - 1, current_number) IN
       /\ memory' = Stored(ptr_data, SubSeq(data, 2, j + 1))
       /\ todo' = current_number - j /\ dst' = ptr_data
       /\ data' = SubSeq(data, j + 2, Len(data))
  /\ UNCHANGED answers

ExecuteO ==
  /\ Execute("O")
  /\ memory' = [memory EXCEPT ![ptr_data] = Low(current_number)]
  /\ data' = Tail(data)
  /\ UNCHANGED <<xmd, answers>>

Execute_o ==
  /\ Execute("o")
  /\ answers' = Append(answers, memory[ptr_data])
  /\ data' = Tail(data)
  /\ UNCHANGED <<xmd, memory>>

\* The text of the version is left in ptr: what followed in the buffer is not
\* seen (the characters of a date and a time are parsed instead).
ExecuteV ==
  /\ Execute("V")
  /\ answers' = Append(answers, "version")
  /\ data' = <<>>
  /\ UNCHANGED <<xmd, memory>>

\* A '#' without a command, or with one that is not known.
ExecuteNone ==
  /\ \E c \in {"z", "?"} : Execute(c)
  /\ data' = Tail(data)
  /\ UNCHANGED <<xmd, memory, answers>>

Loop == \/ Read \/ ReadXmd \/ ParseDigit \/ ParseComma \/ ParseCommand
        \/ ExecuteS \/ ExecuteO \/ Execute_o \/ ExecuteV \/ ExecuteNone

Next == Send \/ Loop

Spec == Init /\ [][Next]_vars

\* The monitor polls, and the host sends its script to the end.
FairSpec == Spec /\ WF_vars(Loop) /\ WF_vars(Send)

-----------------------------------------------------------------------------
(* Properties. *)

TypeOK ==
  /\ sent \in 0..Len(Stream) /\ Len(bank) <= MaxPacket /\ Len(data) <= MaxPacket
  /\ command \in Letters \cup {"z"} /\ current_number \in 0..15 /\ ptr_data \in 0..15
  /\ todo \in 0..15 /\ dst \in Nat

\* What a command does to memory and answers.
Effect(state, c) ==
  CASE c.command = "S" ->
         [state EXCEPT !.memory =
           [a \in Address |-> IF a \in c.address .. c.address + c.number - 1
                              THEN c.bytes[a - c.address + 1] ELSE @[a]]]
    [] c.command = "O" -> [state EXCEPT !.memory[c.address] = Low(c.number)]
    [] c.command = "o" -> [state EXCEPT !.answers = Append(@, state.memory[c.address])]
    [] c.command = "V" -> [state EXCEPT !.answers = Append(@, "version")]
    [] OTHER -> state

After(n) ==
  FoldLeft(Effect, [memory |-> [a \in Address |-> "0"], answers |-> <<>>], SubSeq(script, 1, n))

\* Between two commands memory and answers are what the commands that were taken
\* so far make of them, one after the other, wherever the host cuts its packets.
AsCommanded ==
  command = "z" /\ todo = 0 =>
    \E n \in 0..Len(script) :
      /\ sent - Len(bank) - Len(data) = Len(First(n))
      /\ memory = After(n).memory /\ answers = After(n).answers

\* Every command of the host is executed in the end.
AllExecuted ==
  <>[](memory = After(Len(script)).memory /\ answers = After(Len(script)).answers)

\* sam_ba_monitor.c:324, "We need to add first the remaining data of the current
\* buffer already read from usb": the bytes of S follow those of the buffer.
RemainingDataFirst ==
  sent = Len(Stream) /\ bank = <<>> /\ data = <<>> /\ todo = 0
    => memory = After(Len(script)).memory
=============================================================================

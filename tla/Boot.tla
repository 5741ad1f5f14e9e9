-------------------------------- MODULE Boot --------------------------------
(***************************************************************************)
(* From reset to the application, and back: check_start_application()      *)
(* (bootloaders/r34/main.c), with the double tap of the reset button, and  *)
(* the commands X and Y of the monitor that erase and write the flash      *)
(* (sam_ba_monitor.c).  A reset can come at any point.  The erasure of a   *)
(* row and the writing of a page are atomic.                               *)
(***************************************************************************)
EXTENDS Integers

CONSTANTS
  Pages,      \* pages of the application; the vectors are in page 0
  RowPages,   \* pages of a row, the unit of erasure (4)
  MaxResets   \* bound: presses of the button, power failures, sessions given up

ASSUME BootAssumption ==
  {Pages, RowPages} \subseteq Nat \ {0} /\ Pages % RowPages = 0 /\ MaxResets \in Nat

VARIABLES
  mode,         \* "start": out of reset; "wait": for a second tap; "app"; "monitor"
  power_on,     \* RSTC->RCAUSE.bit.POR
  magic,        \* BOOT_DOUBLE_TAP_DATA == DOUBLE_TAP_MAGIC
  flash,        \* per page: "erased", "old" or "new" application, or "mixed"
  secure,       \* b_security_enabled: the security bit, or the build
  erasing,      \* eraseFlash(): the page it has come to; Pages: it does not run
  erased,       \* erased_from == 0x2000
  writing, last,\* Y: the pages still to write, writing..last - 1
  session,      \* the uploading host: "begin", "erased" or "reset"
  resets,       \* presses, power failures and sessions given up so far
  taps          \* history: resets other than a power-on since the
                \* application ran last (2: or more)

bvars == <<mode, power_on, magic, flash, secure, erasing, erased, writing, last, session, resets, taps>>
memory == <<flash, secure>>
busy   == <<erasing, erased, writing, last>>

Page == 0..Pages - 1
Rows == {p \in Page : p % RowPages = 0}

BootTypeOK ==
  /\ mode \in {"start", "wait", "app", "monitor"} /\ {power_on, magic, secure, erased} \subseteq BOOLEAN
  /\ flash \in [Page -> {"erased", "old", "new", "mixed"}]
  /\ erasing \in Rows \cup {Pages} /\ writing \in 0..last /\ last \in 0..Pages
  /\ session \in {"begin", "erased", "reset"} /\ resets \in 0..MaxResets /\ taps \in 0..2

\* The board as it is bought: with an application.
BootInit ==
  /\ mode = "start" /\ power_on = TRUE /\ magic = FALSE
  /\ flash = [p \in Page |-> "old"] /\ secure \in BOOLEAN
  /\ erasing = Pages /\ erased = FALSE /\ writing = 0 /\ last = 0
  /\ session = "begin" /\ resets = 0 /\ taps = 0

-----------------------------------------------------------------------------
(* Resets: the registers and the variables of the monitor start again, the *)
(* flash stays, and the SRAM too but for a power failure.                  *)

Restart(por) ==
  /\ mode' = "start" /\ power_on' = por
  /\ session' = "begin" /\ erasing' = Pages /\ erased' = FALSE /\ writing' = 0 /\ last' = 0
  /\ taps' = IF por \/ taps = 2 THEN taps ELSE taps + 1
  /\ UNCHANGED secure

\* NVIC_SystemReset(), by the sketch or by a write of the host.
SoftReset == Restart(FALSE) /\ UNCHANGED magic

Press ==
  /\ resets < MaxResets /\ resets' = resets + 1
  /\ Restart(FALSE) /\ UNCHANGED <<magic, flash>>

PowerFailure ==
  /\ resets < MaxResets /\ resets' = resets + 1
  /\ magic' \in {magic, FALSE}
  /\ Restart(TRUE) /\ UNCHANGED flash

-----------------------------------------------------------------------------
(* check_start_application(). *)

Vectors == flash[0] # "erased"

\* Faulty variant: the power-on reset is not told from the others.
PowerOnSeenNot == FALSE

PowerOn == power_on

\* Faulty variant: the mark of the first tap stays after the second.
MarkKept == magic

MarkTaken == FALSE

CheckStart ==
  /\ mode = "start"
  /\ \/ ~Vectors /\ mode' = "monitor" /\ UNCHANGED magic
     \/ Vectors /\ PowerOn /\ mode' = "app" /\ magic' = FALSE
     \/ Vectors /\ ~PowerOn /\ magic /\ mode' = "monitor" /\ magic' = MarkTaken
     \/ Vectors /\ ~PowerOn /\ ~magic /\ mode' = "wait" /\ magic' = TRUE
  /\ taps' = IF mode' = "app" THEN 0 ELSE taps
  /\ UNCHANGED <<power_on, memory, busy, session, resets>>

\* Half a second has passed.
WaitOver ==
  /\ mode = "wait" /\ mode' = "app" /\ magic' = FALSE /\ taps' = 0
  /\ UNCHANGED <<power_on, memory, busy, session, resets>>

-----------------------------------------------------------------------------
(* The monitor: eraseFlash(), a row at a time, and Y, a page at a time. *)

Idle == mode = "monitor" /\ erasing = Pages /\ writing = last

EraseFlash == erasing' = 0 /\ erased' = TRUE

\* Faulty variant: the rows are erased from the end.
LastRow == Pages - RowPages - erasing

\* The rows are erased in ascending order, the vectors first.
RowErased == erasing

EraseRow ==
  /\ mode = "monitor" /\ erasing < Pages
  /\ flash' = [p \in Page |-> IF p \in RowErased .. RowErased + RowPages - 1 THEN "erased" ELSE flash[p]]
  /\ erasing' = erasing + RowPages
  /\ UNCHANGED <<mode, power_on, magic, secure, erased, writing, last, session, resets, taps>>

WritePage ==
  /\ mode = "monitor" /\ erasing = Pages /\ writing < last
  /\ flash' = [flash EXCEPT ![writing] = IF @ = "erased" THEN "new" ELSE "mixed"]
  /\ writing' = writing + 1
  /\ UNCHANGED <<mode, power_on, magic, secure, erasing, erased, last, session, resets, taps>>

\* With security enabled Y erases what this session has not erased.
MustErase == secure /\ ~erased

\* The host erases, unless security is enabled, then writes the pages in one
\* piece or more and resets the device.
HostErase ==
  /\ Idle /\ session = "begin" /\ session' = "erased"
  /\ EraseFlash /\ writing' = 0 /\ last' = 0
  /\ UNCHANGED <<mode, power_on, magic, memory, resets, taps>>

HostWrite ==
  /\ Idle /\ last < Pages
  /\ session = "erased" \/ MustErase
  /\ session' = "erased"
  /\ last' \in last + 1 .. Pages /\ writing' = last
  /\ IF MustErase THEN EraseFlash ELSE UNCHANGED <<erasing, erased>>
  /\ UNCHANGED <<mode, power_on, magic, memory, resets, taps>>

HostReset ==
  /\ Idle /\ session = "erased" /\ last = Pages
  /\ SoftReset /\ UNCHANGED <<flash, resets>>

\* The host's program is stopped between two commands.
HostGivesUp ==
  /\ Idle /\ session = "erased"
  /\ resets < MaxResets /\ resets' = resets + 1
  /\ session' = "begin" /\ writing' = 0 /\ last' = 0
  /\ UNCHANGED <<mode, power_on, magic, memory, erasing, erased, taps>>

Monitor == EraseRow \/ WritePage \/ HostErase \/ HostWrite \/ HostReset

BootStep == CheckStart \/ WaitOver \/ Monitor
BootNext == BootStep \/ HostGivesUp \/ Press \/ PowerFailure

-----------------------------------------------------------------------------
(* Properties. *)

\* Whatever interrupts an upload, the application that starts has no page of
\* the old one beside pages that are erased or new, and no page that was
\* written without being erased (eraseFlash takes the vectors first).
NeverMixed ==
  mode = "app" /\ Vectors => \/ \A p \in Page : flash[p] = "old"
                             \/ \A p \in Page : flash[p] \in {"new", "erased"}

\* board_definitions_riot_r34.h:37: with an application in flash the bootloader
\* starts only by a second reset that comes while the first is still fresh.
OnlyTwoTaps == [][mode = "start" /\ mode' = "monitor" /\ Vectors => taps = 2]_bvars
=============================================================================

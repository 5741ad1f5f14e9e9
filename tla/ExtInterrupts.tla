---------------------------- MODULE ExtInterrupts ----------------------------
(***************************************************************************)
(* External interrupts (cores/arduino/WInterrupts.c) and the transactions  *)
(* of the SPI library that keep them off the bus (libraries/SPI/SPI.cpp).  *)
(* attachInterrupt() and detachInterrupt() change the list of callbacks    *)
(* entry by entry while EIC_Handler(), of priority 0, walks it; edges come *)
(* at any time.  The flag of a line is set by an edge although its         *)
(* interrupt is disabled.  A NULL callback, for a wake-up, enables the     *)
(* interrupt without an entry in the list.                                 *)
(***************************************************************************)
EXTENDS Integers

CONSTANTS
  Lines,      \* the lines in use, EXTERNAL_INT_x
  EXTERNAL_NUM_INTERRUPTS,   \* elements of ISRlist and ISRcallback
  Guarded,    \* the sketch masks the interrupts around each call
  MaxCalls    \* bound: calls of attachInterrupt() and detachInterrupt()

Slots == 1..EXTERNAL_NUM_INTERRUPTS

\* The lines are numbered, and each array has an element for every number.
LinesAssumption ==
  /\ EXTERNAL_NUM_INTERRUPTS \in Nat /\ Guarded \in BOOLEAN /\ MaxCalls \in Nat
  /\ "none" \notin Lines
  /\ \E number \in [Lines -> Slots] : \A k, l \in Lines : number[k] = number[l] => k = l

None  == [line |-> "none", call |-> 0]
Callback == {None} \cup [line : Lines, call : 1..MaxCalls]

VARIABLES
  ISRlist, ISRcallback, nints,
  INTEN, INTFLAG,   \* EIC: the lines enabled, the lines with an edge
  sense,            \* EIC: the lines with a sense mode
  ENABLE,           \* EIC->CTRLA.bit.ENABLE
  call,             \* of the sketch: its name, or "none"
  step,             \* where it is
  line, current,    \* its inMask and its index into the list
  loaded,           \* INTENSET as the call has read it, to be written back
  calls,            \* calls so far; the number of the last one
  walking, i,       \* EIC_Handler() runs, and its index
  running,          \* the callback that runs
  transaction,      \* between beginTransaction() and endTransaction()
  interruptMask,
  global,           \* interruptMode has SPI_IMODE_GLOBAL
  interruptSave,
  PRIMASK,          \* of the processor, as a transaction has set it
  attached,         \* history: per line, the callbacks that may be called for it,
                    \* None among them when it was attached with a NULL callback
  owed,             \* history: lines with an edge that has had no callback yet
  shifted           \* history: a callback has removed its own entry

list    == <<ISRlist, ISRcallback, nints>>
eic     == <<INTEN, INTFLAG, sense, ENABLE>>
sketch  == <<call, step, line, current, loaded, calls>>
handler == <<walking, i, running>>
mode    == <<interruptMask, global>>
spi     == <<transaction, mode, interruptSave, PRIMASK>>
history == <<attached, owed, shifted>>
vars    == <<list, eic, sketch, handler, spi, history>>

TypeOK ==
  /\ ISRlist \in [Slots -> Lines \cup {"none"}] /\ ISRcallback \in [Slots -> Callback]
  /\ nints \in 0..EXTERNAL_NUM_INTERRUPTS
  /\ INTEN \subseteq Lines /\ INTFLAG \subseteq Lines /\ sense \subseteq Lines /\ ENABLE \in BOOLEAN
  /\ call \in {"none", "attach", "detach"}
  /\ step \in {"first", "wakeup", "load", "store", "find", "mask", "callback", "configure",
               "enable", "shift"}
  /\ loaded \subseteq Lines
  /\ line \in Lines \cup {"none"} /\ current \in 1..EXTERNAL_NUM_INTERRUPTS + 1 /\ calls \in 0..MaxCalls
  /\ walking \in BOOLEAN /\ i \in 1..EXTERNAL_NUM_INTERRUPTS + 1 /\ running \in Callback
  /\ transaction \in BOOLEAN /\ interruptMask \subseteq Lines
  /\ global \in BOOLEAN /\ interruptSave \in BOOLEAN /\ PRIMASK \in BOOLEAN
  /\ attached \in [Lines -> SUBSET Callback] /\ owed \subseteq Lines /\ shifted \in BOOLEAN

\* After __initialize().
Init ==
  /\ ISRlist = [s \in Slots |-> "none"] /\ ISRcallback = [s \in Slots |-> None] /\ nints = 0
  /\ INTEN = {} /\ INTFLAG = {} /\ sense = {} /\ ENABLE = TRUE
  /\ call = "none" /\ step = "first" /\ line = "none" /\ current = 1
  /\ loaded = {} /\ calls = 0
  /\ walking = FALSE /\ i = 1 /\ running = None
  /\ transaction = FALSE /\ interruptMask = {} /\ global = FALSE
  /\ interruptSave = FALSE /\ PRIMASK = FALSE
  /\ attached = [l \in Lines |-> {}] /\ owed = {} /\ shifted = FALSE

-----------------------------------------------------------------------------
(* The sketch: it runs while the handler does not. *)

NewCallback == [line |-> line, call |-> calls]

\* __set_PRIMASK(1): by the sketch, around its calls, or by a transaction.
Masked == (Guarded /\ call # "none") \/ PRIMASK

Interrupt == INTEN \cap INTFLAG # {} /\ ~Masked

At(c, s) == ~walking /\ ~Interrupt /\ call = c /\ step = s

To(s) == step' = s /\ UNCHANGED <<call, line, calls>>

\* The local variables of the call are gone.
Return ==
  /\ call' = "none" /\ step' = "first" /\ line' = "none" /\ current' = 1
  /\ UNCHANGED <<loaded, calls>>

\* The sketch detaches no line that SPI still masks, and calls neither function
\* within a transaction.
Call(c) ==
  /\ At("none", "first") /\ calls < MaxCalls /\ ~transaction
  /\ \E l \in Lines :
       /\ c = "detach" => l \notin interruptMask
       /\ line' = l
  /\ call' = c /\ calls' = calls + 1
  /\ UNCHANGED <<list, eic, step, current, loaded, handler, spi, history>>

\* The entry of the line, or the one behind the last.
Entry ==
  CHOOSE s \in 1..nints + 1 :
    /\ s = nints + 1 \/ ISRlist[s] = line
    /\ \A r \in 1..s - 1 : ISRlist[r] # line

\* "Enable wakeup capability": INTENSET |= inMask is a load and a store, which sets again every
\* bit it has read.  The interrupt is enabled before the entry is there.
AttachLoad ==
  /\ At("attach", "first") /\ To("wakeup") /\ loaded' = INTEN
  /\ UNCHANGED <<list, eic, current, handler, spi, history>>

\* A NULL callback leaves the list as it is, and the sense mode with it.
AttachWakeup ==
  /\ At("attach", "wakeup")
  /\ INTEN' = INTEN \cup loaded \cup {line} /\ loaded' = {}
  /\ \E callback \in {NewCallback, None} :
       /\ To(IF callback = None THEN "enable" ELSE "find")
       /\ attached' = [attached EXCEPT ![line] = @ \cup {callback}]
  /\ UNCHANGED <<list, INTFLAG, sense, ENABLE, current, handler, spi, owed, shifted>>

AttachEntry == Entry

AttachFind ==
  /\ At("attach", "find") /\ To("mask")
  /\ current' = AttachEntry
  /\ nints' = IF AttachEntry = nints + 1 THEN nints + 1 ELSE nints
  /\ UNCHANGED <<ISRlist, ISRcallback, eic, loaded, handler, spi, history>>

AttachMask ==
  /\ At("attach", "mask") /\ To("callback")
  /\ ISRlist' = [ISRlist EXCEPT ![current] = line]
  /\ UNCHANGED <<ISRcallback, nints, eic, current, loaded, handler, spi, history>>

AttachCallback ==
  /\ At("attach", "callback") /\ To("configure")
  /\ ISRcallback' = [ISRcallback EXCEPT ![current] = NewCallback]
  /\ attached' = [attached EXCEPT ![line] = {NewCallback}]
  /\ UNCHANGED <<ISRlist, nints, eic, current, loaded, handler, spi, owed, shifted>>

\* The whole controller is disabled while the mode is written.
AttachConfigure ==
  /\ At("attach", "configure") /\ To("enable")
  /\ ENABLE' = FALSE /\ sense' = sense \cup {line}
  /\ UNCHANGED <<list, INTEN, INTFLAG, current, loaded, handler, spi, history>>

AttachEnable ==
  /\ At("attach", "enable") /\ Return
  /\ ENABLE' = TRUE /\ INTEN' = INTEN \cup {line}
  /\ UNCHANGED <<list, INTFLAG, sense, handler, spi, history>>

\* Faulty variant: INTENSET is written, as it is for the wake-up.
DetachSet == INTEN

\* INTENCLR.
DetachClear == INTEN \ {line}

DetachFirst ==
  /\ At("detach", "first") /\ To("load")
  /\ INTEN' = DetachClear
  /\ UNCHANGED <<list, INTFLAG, sense, ENABLE, current, loaded, handler, spi, history>>

\* INTENSET &= ~inMask: it clears nothing, and sets again what it has read.
DetachLoad ==
  /\ At("detach", "load") /\ To("store") /\ loaded' = INTEN
  /\ UNCHANGED <<list, eic, current, handler, spi, history>>

DetachStore ==
  /\ At("detach", "store") /\ To("find")
  /\ INTEN' = INTEN \cup (loaded \ {line}) /\ loaded' = {}
  /\ UNCHANGED <<list, INTFLAG, sense, ENABLE, current, handler, spi, history>>

Detached(l) == attached' = [attached EXCEPT ![l] = {}] /\ owed' = owed \ {l}

DetachFind ==
  /\ At("detach", "find")
  /\ IF Entry = nints + 1
     THEN Return /\ Detached(line)
     ELSE To("shift") /\ current' = Entry /\ UNCHANGED <<loaded, attached, owed>>
  /\ UNCHANGED <<list, eic, handler, spi, shifted>>

\* Faulty variant: the callbacks stay where they are.
UnmovedCallback == ISRcallback

MovedCallback == [ISRcallback EXCEPT ![current] = ISRcallback[current + 1]]

\* The mask of an entry, then its callback.
DetachShiftMask ==
  /\ At("detach", "shift") /\ current < nints /\ To("callback")
  /\ ISRlist' = [ISRlist EXCEPT ![current] = ISRlist[current + 1]]
  /\ UNCHANGED <<ISRcallback, nints, eic, current, loaded, handler, spi, history>>

DetachShiftCallback ==
  /\ At("detach", "callback") /\ To("shift")
  /\ ISRcallback' = MovedCallback
  /\ current' = current + 1
  /\ UNCHANGED <<ISRlist, nints, eic, loaded, handler, spi, history>>

DetachLast ==
  /\ At("detach", "shift") /\ current = nints /\ Return
  /\ nints' = nints - 1 /\ Detached(line)
  /\ UNCHANGED <<ISRlist, ISRcallback, eic, handler, spi, shifted>>

Steps ==
  \/ AttachLoad \/ AttachWakeup \/ AttachFind \/ AttachMask
  \/ AttachCallback \/ AttachConfigure \/ AttachEnable
  \/ DetachFirst \/ DetachLoad \/ DetachStore \/ DetachFind
  \/ DetachShiftMask \/ DetachShiftCallback \/ DetachLast

-----------------------------------------------------------------------------
(* SPIClass, outside of the calls above.  interruptMode is SPI_IMODE_NONE  *)
(* when nothing is in interruptMask and it is not global.                  *)

SpiMay ==
  /\ At("none", "first")
  /\ UNCHANGED <<list, INTFLAG, sense, ENABLE, sketch, handler, history>>

UsingInterrupt ==
  /\ SpiMay /\ ~transaction
  /\ \E l \in Lines : attached[l] # {} /\ interruptMask' = interruptMask \cup {l}
  /\ UNCHANGED <<INTEN, transaction, global, interruptSave, PRIMASK>>

\* The interrupt of something else than a line.
UsingGlobal ==
  /\ SpiMay /\ ~transaction /\ ~global /\ global' = TRUE
  /\ UNCHANGED <<INTEN, transaction, interruptMask, interruptSave, PRIMASK>>

\* "Can't go back" once it is global.
NotUsingInterrupt ==
  /\ SpiMay /\ ~transaction /\ ~global
  /\ \E l \in interruptMask : interruptMask' = interruptMask \ {l}
  /\ UNCHANGED <<INTEN, transaction, global, interruptSave, PRIMASK>>

ClearUsed == INTEN \ interruptMask

BeginTransaction ==
  /\ SpiMay /\ ~transaction /\ transaction' = TRUE
  /\ IF global
     THEN interruptSave' = ~PRIMASK /\ PRIMASK' = TRUE /\ UNCHANGED INTEN
     ELSE INTEN' = ClearUsed /\ UNCHANGED <<interruptSave, PRIMASK>>
  /\ UNCHANGED mode

\* interruptSave is not read again before it is set.
EndTransaction ==
  /\ SpiMay /\ transaction /\ transaction' = FALSE
  /\ IF global
     THEN PRIMASK' = (PRIMASK /\ ~interruptSave) /\ UNCHANGED INTEN
     ELSE INTEN' = INTEN \cup interruptMask /\ UNCHANGED PRIMASK
  /\ interruptSave' = FALSE /\ UNCHANGED mode

-----------------------------------------------------------------------------
(* EIC_Handler(). *)

Enter ==
  /\ ~walking /\ Interrupt
  /\ walking' = TRUE /\ i' = 1
  /\ UNCHANGED <<list, eic, sketch, running, spi, history>>

HandlerCalls ==
  /\ walking /\ running = None /\ i <= nints /\ ISRlist[i] \in INTFLAG
  /\ running' = ISRcallback[i]
  /\ owed' = owed \ {ISRlist[i]}
  /\ UNCHANGED <<list, eic, sketch, walking, i, spi, attached, shifted>>

\* detachInterrupt() as a whole: nothing preempts a callback.
CallbackDetaches ==
  /\ running # None /\ running.line \notin interruptMask
  /\ i <= nints /\ ISRlist[i] = running.line
  /\ INTEN' = INTEN \ {running.line}
  /\ ISRlist' = [s \in Slots |-> IF s \in i .. nints - 1 THEN ISRlist[s + 1] ELSE ISRlist[s]]
  /\ ISRcallback' = [s \in Slots |-> IF s \in i .. nints - 1 THEN ISRcallback[s + 1] ELSE ISRcallback[s]]
  /\ nints' = nints - 1 /\ Detached(running.line) /\ shifted' = TRUE
  /\ UNCHANGED <<INTFLAG, sense, ENABLE, sketch, handler, spi>>

\* The flag of the entry that is there now.
ClearEntry == INTFLAG \ {ISRlist[i]}

CallbackReturns ==
  /\ running # None
  /\ running' = None /\ i' = i + 1
  /\ INTFLAG' = ClearEntry
  /\ UNCHANGED <<list, INTEN, sense, ENABLE, sketch, walking, spi, history>>

HandlerSkips ==
  /\ walking /\ running = None /\ i <= nints /\ ISRlist[i] \notin INTFLAG
  /\ i' = i + 1
  /\ UNCHANGED <<list, eic, sketch, walking, running, spi, history>>

HandlerReturns ==
  /\ walking /\ running = None /\ i > nints
  /\ walking' = FALSE /\ i' = 1
  /\ UNCHANGED <<list, eic, sketch, running, spi, history>>

Handler == Enter \/ HandlerCalls \/ CallbackReturns \/ HandlerSkips \/ HandlerReturns

\* An edge at a line with a callback is owed a callback, unless its callback runs:
\* what comes then is cleared with the flag.
Edge ==
  /\ ENABLE
  /\ \E l \in sense \ INTFLAG :
       /\ INTFLAG' = INTFLAG \cup {l}
       /\ owed' = IF attached[l] \ {None} # {} /\ l \in INTEN /\ ~(call = "detach" /\ line = l)
                  THEN owed \cup {l} ELSE owed
  /\ UNCHANGED <<list, INTEN, sense, ENABLE, sketch, handler, spi, attached, shifted>>

Next ==
  \/ Call("attach") \/ Call("detach") \/ Steps
  \/ UsingInterrupt \/ UsingGlobal \/ NotUsingInterrupt \/ BeginTransaction \/ EndTransaction
  \/ Handler \/ CallbackDetaches \/ Edge

Spec == Init /\ [][Next]_vars

\* The processor runs, the handler and a call that has masked it, and the sketch ends the
\* transactions it begins.
FairSpec == Spec /\ WF_vars(Handler) /\ WF_vars(Steps) /\ WF_vars(EndTransaction)

-----------------------------------------------------------------------------
(* Properties. *)

\* WInterrupts.c:56, "Specifies a named Interrupt Service Routine (ISR) to call
\* when an interrupt occurs": the callback about to be called for a line is the
\* one attached to it.
OwnCallback ==
  walking /\ running = None /\ i <= nints /\ ISRlist[i] \in INTFLAG
    => ISRcallback[i] \in attached[ISRlist[i]]

\* Between two calls the list has the lines with a callback, each of them
\* once.
ListExact ==
  call = "none" =>
    /\ {ISRlist[s] : s \in 1..nints} = {l \in Lines : ~(attached[l] \subseteq {None})}
    /\ \A r, s \in 1..nints : ISRlist[r] = ISRlist[s] => r = s

\* An edge that has had no callback keeps its flag, unless a callback that
\* removed its own entry made the handler clear the flag of the next one.
NoneForgotten == shifted \/ owed \subseteq INTFLAG

\* When SPI was told of every attached line, or of any other interrupt, no callback
\* runs within a transaction.  With a line it was not told of, the handler that runs
\* for it calls the others too: it does not look at INTEN.
TransactionAlone ==
  /\ transaction /\ running # None => ~global
  /\ transaction /\ running # None /\ ~shifted
       => \E l \in Lines : attached[l] # {} /\ l \notin interruptMask

\* An interrupt that is enabled and has its flag is served in the end: the
\* handler, which clears only the flags of its list, is not entered for it over
\* and over again.  With a NULL callback it is, whatever it is called for.
NeverCleared == {l \in INTEN \cap INTFLAG : attached[l] = {None}}

InterruptsServed ==
  \A l \in Lines : l \in INTEN \cap INTFLAG ~> (l \notin INTEN \cap INTFLAG \/ NeverCleared # {})
=============================================================================

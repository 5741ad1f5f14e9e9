---------------------------- MODULE Core_proofs ----------------------------
(***************************************************************************)
(* Proofs about the core: the external interrupts, with the calls of the   *)
(* sketch masked, tone(), and the time.                                    *)
(***************************************************************************)
EXTENDS Uart_proofs, FunctionTheorems, FiniteSetTheorems

-----------------------------------------------------------------------------
(***************************************************************************)
(* The external interrupts.                                                *)
(***************************************************************************)
\* The place of the list that the call in hand is rewriting: its line and its callback may be of
\* two different calls.
Hole ==
  IF \/ ext_call = "attach" /\ ext_step \in {"mask", "callback"}
     \/ ext_call = "detach" /\ ext_step \in {"shift", "callback"}
  THEN {ext_current} ELSE {}

\* The places that hold an entry of the list.
Entries == (1..ext_nints) \ Hole

\* The handler and a call exclude each other, and a call is at one of its own steps.
InCall ==
  /\ ext_walking => ext_call = "none"
  /\ ~ext_walking => ext_running = Ext!None
  /\ ext_call = "none" => ext_step = "first" /\ ext_line = "none" /\ ext_current = 1
  /\ ext_call # "none" => ext_line \in Lines /\ ext_calls >= 1 /\ ~ext_transaction
  /\ ext_call = "attach"
         => ext_step \in {"first", "wakeup", "find", "mask", "callback", "configure", "enable"}
  /\ ext_call = "detach"
         => ext_step \in {"first", "load", "store", "find", "shift", "callback"}
             /\ ext_line \notin ext_interruptMask
  /\ Hole \subseteq 1..ext_nints

\* Every entry is a line with a callback that was attached to it, and the line of the call in hand
\* is not among them while its place is rewritten.
OwnEntries ==
  \A s \in Entries :
    /\ ext_ISRlist[s] \in Lines
    /\ ext_ISRcallback[s] \in ext_attached[ext_ISRlist[s]] \ {Ext!None}
    /\ Hole # {} => ext_ISRlist[s] # ext_line

\* No line is in the list twice.
Distinct == \A r, s \in Entries : ext_ISRlist[r] = ext_ISRlist[s] => r = s

\* Every attached line is in the list, but the one whose place is being rewritten or searched.
Complete ==
  \A l \in Lines :
    (/\ ext_attached[l] \ {Ext!None} # {}
     /\ ~(l = ext_line /\ (Hole # {} \/ (ext_call = "attach" /\ ext_step = "find"))))
      => \E s \in Entries : ext_ISRlist[s] = l

\* What the first half of an entry is when the second is still to come: the line that is attached,
\* or that of the next entry.
HalfWritten ==
  /\ ext_call = "attach" /\ ext_step = "callback" => ext_ISRlist[ext_current] = ext_line
  /\ ext_call = "detach" /\ ext_step = "callback"
         => ext_current < ext_nints /\ ext_ISRlist[ext_current] = ext_ISRlist[ext_current + 1]

\* A line is enabled, or masked by a transaction, only if it is attached, and what a call is about
\* to write back is enabled still.
EnabledAttached ==
  /\ \A l \in ext_INTEN \cup ext_interruptMask : ext_attached[l] # {}
  /\ ext_call = "attach" /\ ext_step \notin {"first", "wakeup"} => ext_attached[ext_line] # {}
  /\ ext_call = "detach" /\ ext_step # "first" => ext_line \notin ext_INTEN
  /\ ext_transaction /\ ~ext_global => ext_INTEN \cap ext_interruptMask = {}
  /\ ext_loaded \subseteq ext_INTEN
  /\ ext_step \notin {"wakeup", "store"} => ext_loaded = {}

\* A transaction masks all interrupts exactly when SPI was told of one that is no line, and then no
\* handler runs.
SpiMasks ==
  /\ ext_PRIMASK => ext_transaction /\ ext_global /\ ext_interruptSave /\ ~ext_walking
  /\ ext_transaction /\ ext_global => ext_PRIMASK

\* The handler is at a place of the list whose line is pending, unless a callback moved the list.
Serving ==
  /\ ext_running # Ext!None => ext_i <= EXTERNAL_NUM_INTERRUPTS
  /\ ext_running # Ext!None /\ ~ext_shifted
       => ext_i <= ext_nints /\ ext_ISRlist[ext_i] \in ext_INTFLAG
           /\ ext_ISRlist[ext_i] \notin ext_owed
  /\ ext_transaction /\ ext_walking /\ ~ext_shifted
         => \E l \in Lines : ext_attached[l] # {} /\ l \notin ext_interruptMask

\* The inductive invariant of the external interrupts.
IInv ==
  /\ Ext!TypeOK /\ InCall /\ OwnEntries /\ Distinct /\ Complete
  /\ HalfWritten /\ EnabledAttached /\ SpiMasks /\ Serving /\ Ext!NoneForgotten

\* The search of WInterrupts.c:91 and :141 ends at the entry of the line, or behind the last one.
LEMMA EntryFound ==
  ASSUME Ext!TypeOK, Distinct, Hole = {}
  PROVE  /\ Ext!Entry \in 1..ext_nints + 1
         /\ Ext!Entry <= ext_nints => ext_ISRlist[Ext!Entry] = ext_line
         /\ Ext!Entry = ext_nints + 1 => \A s \in 1..ext_nints : ext_ISRlist[s] # ext_line
<1> DEFINE Is(s) == /\ s = ext_nints + 1 \/ ext_ISRlist[s] = ext_line
                    /\ \A r \in 1..s - 1 : ext_ISRlist[r] # ext_line
<1>0. ext_nints \in Nat
  BY DEF Ext!TypeOK
<1>1. \E s \in 1..ext_nints + 1 : Is(s)
  <2>1. CASE \E s \in 1..ext_nints : ext_ISRlist[s] = ext_line
    <3>1. PICK s \in 1..ext_nints : ext_ISRlist[s] = ext_line
      BY <2>1
    <3>2. \A r \in 1..s - 1 : r \in Entries /\ s \in Entries /\ r # s
      BY <1>0 DEF Entries
    <3>3. \A r \in 1..s - 1 : ext_ISRlist[r] # ext_line
      BY <3>1, <3>2 DEF Distinct
    <3>. QED
      BY <3>1, <3>3, <1>0
  <2>2. CASE ~\E s \in 1..ext_nints : ext_ISRlist[s] = ext_line
    BY <2>2, <1>0
  <2>. QED
    BY <2>1, <2>2
<1>2. Ext!Entry = CHOOSE s \in 1..ext_nints + 1 : Is(s)
  BY DEF Ext!Entry
<1>3. Ext!Entry \in 1..ext_nints + 1 /\ Is(Ext!Entry)
  BY <1>1, <1>2
<1>. QED
  BY <1>3, <1>0

\* A line that is not in the list finds an element behind it: the entries are different lines, and
\* the arrays have an element for each.
LEMMA RoomForEntry ==
  ASSUME Ext!TypeOK, Distinct, Hole = {}, ext_line \in Lines,
         \A s \in 1..ext_nints : ext_ISRlist[s] \in Lines /\ ext_ISRlist[s] # ext_line
  PROVE  ext_nints + 1 <= EXTERNAL_NUM_INTERRUPTS
<1>0. ext_nints \in Nat /\ EXTERNAL_NUM_INTERRUPTS \in Nat
  BY CoreAssumption DEF Ext!TypeOK, Ext!LinesAssumption
<1>1. PICK number \in [Lines -> Ext!Slots] : \A k, l \in Lines : number[k] = number[l] => k = l
  BY CoreAssumption DEF Ext!LinesAssumption
<1> DEFINE f == [s \in 1..ext_nints + 1 |-> number[IF s = ext_nints + 1 THEN ext_line
        ELSE ext_ISRlist[s]]]
<1>2. \A s \in 1..ext_nints + 1 : s = ext_nints + 1 \/ s \in 1..ext_nints
  BY <1>0
<1>3. f \in [1..ext_nints + 1 -> Ext!Slots]
  BY <1>1, <1>2
<1>4. \A r, s \in 1..ext_nints + 1 : f[r] = f[s] => r = s
  <2> SUFFICES ASSUME NEW r \in 1..ext_nints + 1, NEW s \in 1..ext_nints + 1, f[r] = f[s]
               PROVE  r = s
    OBVIOUS
  <2> DEFINE At1(x) == IF x = ext_nints + 1 THEN ext_line ELSE ext_ISRlist[x]
  <2>1. At1(r) \in Lines /\ At1(s) \in Lines
    BY <1>2
  <2>2. number[At1(r)] = number[At1(s)]
    OBVIOUS
  <2>3. At1(r) = At1(s)
    BY <2>1, <2>2, <1>1
  <2>4. r \in 1..ext_nints /\ s \in 1..ext_nints => r \in Entries /\ s \in Entries
    BY DEF Entries
  <2>. QED
    BY <2>3, <2>4, <1>2 DEF Distinct
<1>5. /\ IsFiniteSet(1..ext_nints + 1) /\ Cardinality(1..ext_nints + 1) = ext_nints + 1
      /\ IsFiniteSet(Ext!Slots) /\ Cardinality(Ext!Slots) = EXTERNAL_NUM_INTERRUPTS
  BY <1>0, FS_Interval DEF Ext!Slots
<1>6. ~(EXTERNAL_NUM_INTERRUPTS < ext_nints + 1)
  <2> HIDE DEF f
  <2> SUFFICES ASSUME EXTERNAL_NUM_INTERRUPTS < ext_nints + 1 PROVE FALSE
    OBVIOUS
  <2>1. \E x, y \in 1..ext_nints + 1 : x # y /\ f[x] = f[y]
    BY <1>3, <1>5, FS_PigeonHole
  <2>. QED
    BY <2>1, <1>4
<1>. QED
  BY <1>6, <1>0

\* The part of it that is about the list.
ListInv == OwnEntries /\ Distinct /\ Complete /\ HalfWritten

\* The empty list has the invariant.
LEMMA Initially == Ext!Init => IInv
<1> SUFFICES ASSUME Ext!Init PROVE IInv
  OBVIOUS
<1>0. EXTERNAL_NUM_INTERRUPTS \in Nat /\ MaxCalls \in Nat
  BY CoreAssumption DEF Ext!LinesAssumption
<1>1. Ext!TypeOK
  <2>1. Ext!None \in Ext!Callback
    BY DEF Ext!Callback
  <2>2. ext_ENABLE \in BOOLEAN /\ ext_walking \in BOOLEAN /\ ext_transaction \in BOOLEAN
            /\ ext_shifted \in BOOLEAN /\ ext_global \in BOOLEAN
            /\ ext_interruptSave \in BOOLEAN /\ ext_PRIMASK \in BOOLEAN
    BY Zenon DEF Ext!Init
  <2>3. ext_ISRlist \in [Ext!Slots -> Lines
            \cup {"none"}] /\ ext_ISRcallback \in [Ext!Slots -> Ext!Callback]
    BY <2>1 DEF Ext!Init
  <2>4. ext_attached \in [Lines -> SUBSET Ext!Callback]
    BY DEF Ext!Init
  <2>5. /\ ext_nints \in 0..EXTERNAL_NUM_INTERRUPTS
        /\ ext_current \in 1..EXTERNAL_NUM_INTERRUPTS + 1
        /\ ext_i \in 1..EXTERNAL_NUM_INTERRUPTS + 1 /\ ext_calls \in 0..MaxCalls
    BY <1>0 DEF Ext!Init
  <2>. QED
    BY <2>1, <2>2, <2>3, <2>4, <2>5 DEF Ext!Init, Ext!TypeOK
<1>2. Hole = {} /\ Entries = {}
  BY <1>0 DEF Ext!Init, Hole, Entries
<1>3. InCall /\ OwnEntries /\ Distinct /\ HalfWritten
  BY <1>2 DEF Ext!Init, InCall, OwnEntries, Distinct, HalfWritten
<1>4. Complete /\ EnabledAttached /\ SpiMasks /\ Serving /\ Ext!NoneForgotten
  BY <1>2 DEF Ext!Init, Complete, EnabledAttached, SpiMasks, Serving, Ext!NoneForgotten
<1>. QED
  BY <1>1, <1>3, <1>4 DEF IInv

\* A step that leaves the list and the call alone keeps what is said about them.
LEMMA SameList ==
  ASSUME ListInv, UNCHANGED <<Ext!list, Ext!sketch, ext_attached>>
  PROVE  ListInv' /\ Hole' = Hole
<1>1. Hole' = Hole /\ Entries' = Entries
  BY DEF Hole, Entries, Ext!list, Ext!sketch
<1>2. OwnEntries' /\ Distinct'
  BY <1>1 DEF ListInv, OwnEntries, Distinct, Ext!list, Ext!sketch
<1>3. Complete' /\ HalfWritten'
  BY <1>1 DEF ListInv, Complete, HalfWritten, Ext!list, Ext!sketch
<1>. QED
  BY <1>1, <1>2, <1>3 DEF ListInv

\* The transactions of the SPI and the lines they mask keep the invariant.
LEMMA SpiStep ==
  ASSUME IInv, \/ Ext!UsingInterrupt \/ Ext!UsingGlobal \/ Ext!NotUsingInterrupt
               \/ Ext!BeginTransaction \/ Ext!EndTransaction
  PROVE  IInv'
<1> USE DEF Ext!At, Ext!eic, Ext!handler, Ext!history, Ext!spi, Ext!mode, Ext!SpiMay
<1>0. /\ UNCHANGED <<Ext!list, Ext!sketch, ext_attached, ext_owed, ext_shifted, ext_INTFLAG,
                     ext_walking, ext_i, ext_running, ext_sense, ext_ENABLE>>
      /\ ext_call = "none" /\ ~ext_walking /\ ext_running = Ext!None
  BY DEF Ext!UsingInterrupt, Ext!UsingGlobal, Ext!NotUsingInterrupt, Ext!BeginTransaction,
         Ext!EndTransaction, IInv, InCall
<1>1. ListInv' /\ Hole' = Hole
  BY <1>0, SameList DEF IInv, ListInv
<1>2. ext_interruptMask' \subseteq Lines /\ ext_INTEN' \subseteq Lines
  BY DEF Ext!UsingInterrupt, Ext!UsingGlobal, Ext!NotUsingInterrupt, Ext!BeginTransaction,
         Ext!EndTransaction, IInv, Ext!TypeOK, Ext!ClearUsed
<1>b. /\ ext_transaction \in BOOLEAN /\ ext_global \in BOOLEAN /\ ext_interruptSave \in BOOLEAN
      /\ ext_PRIMASK \in BOOLEAN
  BY DEF IInv, Ext!TypeOK
<1>t. /\ ext_transaction' \in BOOLEAN /\ ext_global' \in BOOLEAN
      /\ ext_interruptSave' \in BOOLEAN /\ ext_PRIMASK' \in BOOLEAN
  BY <1>b, Zenon DEF Ext!UsingInterrupt, Ext!UsingGlobal, Ext!NotUsingInterrupt,
                     Ext!BeginTransaction, Ext!EndTransaction
<1>3. Ext!TypeOK'
  BY <1>0, <1>2, <1>t DEF IInv, Ext!TypeOK, Ext!list, Ext!sketch
<1>4. InCall'
  BY <1>0, <1>1 DEF IInv, InCall, Ext!list, Ext!sketch
<1>5. EnabledAttached'
  BY <1>0 DEF IInv, EnabledAttached, InCall, SpiMasks, Ext!TypeOK, Ext!UsingInterrupt,
              Ext!UsingGlobal, Ext!NotUsingInterrupt, Ext!BeginTransaction, Ext!EndTransaction,
              Ext!ClearUsed, Ext!sketch
<1>6. Serving' /\ Ext!NoneForgotten'
  BY <1>0 DEF IInv, Serving, Ext!NoneForgotten
<1>7. SpiMasks'
  <2>1. CASE Ext!UsingInterrupt \/ Ext!UsingGlobal \/ Ext!NotUsingInterrupt
    <3>1. ~ext_transaction /\ UNCHANGED <<ext_transaction, ext_interruptSave, ext_PRIMASK>>
      BY <2>1, Zenon DEF Ext!UsingInterrupt, Ext!UsingGlobal, Ext!NotUsingInterrupt
    <3>. QED
      BY <1>0, <3>1 DEF IInv, SpiMasks
  <2>2. CASE Ext!BeginTransaction
    <3>1. /\ ~ext_PRIMASK /\ ext_transaction' = TRUE /\ ext_global' = ext_global
          /\ ext_global => ext_interruptSave' = ~ext_PRIMASK /\ ext_PRIMASK' = TRUE
          /\ ~ext_global => ext_PRIMASK' = ext_PRIMASK
      BY <2>2, Zenon DEF Ext!BeginTransaction, IInv, SpiMasks
    <3>2. /\ ext_global => ext_interruptSave' /\ ext_PRIMASK'
          /\ ~ext_global => ~ext_PRIMASK'
      BY <3>1, Zenon
    <3>. QED
      BY <1>0, <3>1, <3>2 DEF SpiMasks
  <2>3. CASE Ext!EndTransaction
    <3>1. /\ ext_transaction' = FALSE
          /\ ext_global => ext_PRIMASK' = (ext_PRIMASK /\ ~ext_interruptSave)
          /\ ~ext_global => ext_PRIMASK' = ext_PRIMASK
          /\ ext_PRIMASK => ext_global /\ ext_interruptSave
      BY <2>3, Zenon DEF Ext!EndTransaction, IInv, SpiMasks
    <3>2. ~ext_PRIMASK'
      BY <3>1, Zenon
    <3>. QED
      BY <3>1, <3>2 DEF SpiMasks
  <2>. QED
    BY <2>1, <2>2, <2>3
<1>. QED
  BY <1>1, <1>3, <1>4, <1>5, <1>6, <1>7 DEF IInv, ListInv

\* The handler and the edges keep the invariant: while calls are masked it never walks the list that
\* one is rewriting.
LEMMA ServiceStep ==
  ASSUME Guarded, IInv, Ext!Handler \/ Ext!Edge
  PROVE  IInv'
<1> USE DEF Ext!eic, Ext!handler, Ext!history, Ext!spi, Ext!mode
<1>0. UNCHANGED <<Ext!list, Ext!sketch, ext_attached, ext_shifted, ext_INTEN, ext_transaction,
                  Ext!mode, ext_interruptSave, ext_PRIMASK, ext_sense, ext_ENABLE>>
  BY DEF Ext!Handler, Ext!Edge, Ext!Enter, Ext!HandlerCalls, Ext!CallbackReturns,
         Ext!HandlerSkips, Ext!HandlerReturns
<1>1. ListInv' /\ Hole' = Hole
  BY <1>0, SameList DEF IInv, ListInv
<1>b. ext_call # "none" \/ ext_PRIMASK => Ext!Masked
  BY DEF Ext!Masked
<1>c. EXTERNAL_NUM_INTERRUPTS \in Nat
  BY CoreAssumption DEF Ext!LinesAssumption
<1>2. InCall' /\ EnabledAttached'
  BY <1>0, <1>1, <1>b DEF IInv, InCall, EnabledAttached, Ext!list, Ext!sketch, Ext!Handler,
                          Ext!Edge, Ext!Enter, Ext!HandlerCalls, Ext!CallbackReturns,
                          Ext!HandlerSkips, Ext!HandlerReturns, Ext!Interrupt
<1>s. SpiMasks'
  BY <1>0, <1>b DEF IInv, SpiMasks, Ext!Handler, Ext!Edge, Ext!Enter, Ext!HandlerCalls,
                    Ext!CallbackReturns, Ext!HandlerSkips, Ext!HandlerReturns, Ext!Interrupt
<1>3. CASE Ext!Enter
  <2>1. Ext!TypeOK'
    BY <1>0, <1>3, <1>c DEF IInv, Ext!TypeOK, Ext!Enter, Ext!list, Ext!sketch
  <2>2. ext_transaction => \E l \in Lines : ext_attached[l] # {} /\ l \notin ext_interruptMask
    BY <1>3, <1>b DEF IInv, Ext!Enter, Ext!Interrupt, EnabledAttached, SpiMasks, Ext!TypeOK
  <2>3. Serving' /\ Ext!NoneForgotten'
    BY <1>0, <1>3, <2>2 DEF IInv, Serving, Ext!NoneForgotten, Ext!Enter, InCall, Ext!list,
                            Ext!sketch
  <2>. QED
    BY <1>1, <1>2, <1>s, <2>1, <2>3 DEF IInv, ListInv
<1>4. CASE Ext!HandlerCalls
  <2>0. ext_call = "none" /\ ext_i \in Entries /\ ext_i \in 1..EXTERNAL_NUM_INTERRUPTS /\ Hole = {}
    BY <1>4, <1>c DEF IInv, Ext!HandlerCalls, InCall, Hole, Entries, Ext!TypeOK
  <2>1. ext_running' \in Ext!Callback /\ ext_owed' \subseteq Lines
    BY <1>4, <2>0 DEF IInv, Ext!TypeOK, Ext!HandlerCalls, Ext!Slots
  <2>2. Ext!TypeOK'
    BY <1>0, <1>4, <2>1 DEF IInv, Ext!TypeOK, Ext!HandlerCalls, Ext!list, Ext!sketch
  <2>3. Serving' /\ Ext!NoneForgotten'
    BY <1>0, <1>4, <2>0 DEF IInv, Serving, Ext!NoneForgotten, Ext!HandlerCalls, Ext!list,
                            Ext!sketch
  <2>. QED
    BY <1>1, <1>2, <1>s, <2>2, <2>3 DEF IInv, ListInv
<1>5. CASE Ext!CallbackReturns
  <2>1. ext_i' \in 1..EXTERNAL_NUM_INTERRUPTS + 1 /\ ext_INTFLAG' \subseteq Lines
            /\ ext_running' \in Ext!Callback
    BY <1>5, <1>c DEF IInv, Ext!TypeOK, Ext!CallbackReturns, Serving, Ext!ClearEntry, Ext!Callback
  <2>2. Ext!TypeOK'
    BY <1>0, <1>5, <2>1 DEF IInv, Ext!TypeOK, Ext!CallbackReturns, Ext!list, Ext!sketch
  <2>3. Serving' /\ Ext!NoneForgotten'
    BY <1>0, <1>5 DEF IInv, Serving, Ext!NoneForgotten, Ext!CallbackReturns, Ext!ClearEntry,
                      Ext!list, Ext!sketch
  <2>. QED
    BY <1>1, <1>2, <1>s, <2>2, <2>3 DEF IInv, ListInv
<1>6. CASE Ext!HandlerSkips \/ Ext!HandlerReturns
  <2>1. ext_i' \in 1..EXTERNAL_NUM_INTERRUPTS + 1
    BY <1>6, <1>c DEF IInv, Ext!TypeOK, Ext!HandlerSkips, Ext!HandlerReturns
  <2>a. ext_walking' \in BOOLEAN /\ UNCHANGED <<ext_running, ext_owed, ext_INTFLAG>>
    BY <1>6 DEF IInv, Ext!TypeOK, Ext!HandlerSkips, Ext!HandlerReturns
  <2>2. Ext!TypeOK'
    BY <1>0, <2>1, <2>a DEF IInv, Ext!TypeOK, Ext!list, Ext!sketch
  <2>3. Serving' /\ Ext!NoneForgotten'
    BY <1>0, <1>6 DEF IInv, Serving, Ext!NoneForgotten, Ext!HandlerSkips, Ext!HandlerReturns,
                      Ext!list, Ext!sketch
  <2>. QED
    BY <1>1, <1>2, <1>s, <2>2, <2>3 DEF IInv, ListInv
<1>7. CASE Ext!Edge
  <2>1. ext_INTFLAG' \subseteq Lines /\ ext_owed' \subseteq Lines
    BY <1>7 DEF IInv, Ext!TypeOK, Ext!Edge
  <2>2. Ext!TypeOK'
    BY <1>0, <1>7, <2>1 DEF IInv, Ext!TypeOK, Ext!Edge, Ext!list, Ext!sketch
  <2>3. Serving' /\ Ext!NoneForgotten'
    BY <1>0, <1>7 DEF IInv, Serving, Ext!NoneForgotten, Ext!Edge, Ext!list, Ext!sketch
  <2>. QED
    BY <1>1, <1>2, <1>s, <2>2, <2>3 DEF IInv, ListInv
<1>. QED
  BY <1>3, <1>4, <1>5, <1>6, <1>7 DEF Ext!Handler

\* A call begins with the invariant.
LEMMA CallStep ==
  ASSUME IInv, Ext!Call("attach") \/ Ext!Call("detach")
  PROVE  IInv'
<1> USE DEF Ext!At, Ext!eic, Ext!handler, Ext!history, Ext!spi, Ext!mode, Ext!list
<1>0. /\ UNCHANGED <<Ext!list, Ext!eic, ext_step, ext_current, ext_loaded, Ext!handler, Ext!spi, Ext!history>>
      /\ ext_call = "none" /\ ~ext_walking /\ ext_running = Ext!None /\ ext_step = "first"
      /\ ~ext_transaction
      /\ ext_call' \in {"attach", "detach"} /\ ext_line' \in Lines /\ ext_calls' = ext_calls + 1
      /\ ext_calls < MaxCalls
      /\ ext_call' = "detach" => ext_line' \notin ext_interruptMask
  BY DEF Ext!Call, IInv, InCall
<1>1. Hole = {} /\ Hole' = {} /\ Entries' = Entries
  BY <1>0 DEF Hole, Entries
<1>c. MaxCalls \in Nat
  BY CoreAssumption DEF Ext!LinesAssumption
<1>2. Ext!TypeOK'
  BY <1>0, <1>c DEF IInv, Ext!TypeOK
<1>3. InCall'
  BY <1>0, <1>1 DEF IInv, InCall, Ext!TypeOK
<1>4. OwnEntries' /\ Distinct' /\ Complete' /\ HalfWritten'
  BY <1>0, <1>1 DEF IInv, OwnEntries, Distinct, Complete, HalfWritten
<1>5. EnabledAttached' /\ SpiMasks' /\ Serving' /\ Ext!NoneForgotten'
  BY <1>0 DEF IInv, EnabledAttached, SpiMasks, Serving, Ext!NoneForgotten
<1>. QED
  BY <1>2, <1>3, <1>4, <1>5 DEF IInv

\* attachInterrupt() keeps the invariant, step by step.
LEMMA AttachStep ==
  ASSUME IInv,
         \/ Ext!AttachLoad \/ Ext!AttachWakeup \/ Ext!AttachFind \/ Ext!AttachMask
         \/ Ext!AttachCallback \/ Ext!AttachConfigure \/ Ext!AttachEnable
  PROVE  IInv'
<1> USE DEF Ext!At, Ext!To, Ext!eic, Ext!handler, Ext!history, Ext!spi, Ext!mode
<1>a. EXTERNAL_NUM_INTERRUPTS \in Nat /\ MaxCalls \in Nat
  BY CoreAssumption DEF Ext!LinesAssumption
<1>b. Ext!TypeOK /\ InCall /\ Distinct
  BY DEF IInv
<1>c. /\ ext_call = "attach" /\ ext_line \in Lines /\ ext_calls \in 1..MaxCalls
      /\ ~ext_transaction
      /\ UNCHANGED <<ext_INTFLAG, Ext!handler, Ext!spi, ext_owed, ext_shifted>>
      /\ Ext!NewCallback \in Ext!Callback \ {Ext!None} /\ Ext!None \in Ext!Callback
      /\ ~ext_walking /\ ext_running = Ext!None
  <2>1. /\ ext_call = "attach" /\ ~ext_walking
        /\ UNCHANGED <<ext_INTFLAG, Ext!handler, Ext!spi, ext_owed, ext_shifted>>
    BY DEF Ext!AttachLoad, Ext!AttachWakeup, Ext!AttachFind, Ext!AttachMask, Ext!AttachCallback,
           Ext!AttachConfigure, Ext!AttachEnable
  <2>2. ext_line \in Lines /\ ext_calls \in 1..MaxCalls /\ ~ext_transaction
            /\ ext_running = Ext!None
    BY <1>a, <1>b, <2>1 DEF Ext!TypeOK, InCall
  <2>3. Ext!NewCallback.call = ext_calls /\ Ext!None.call = 0
    BY DEF Ext!NewCallback, Ext!None
  <2>4. Ext!NewCallback \in Ext!Callback \ {Ext!None} /\ Ext!None \in Ext!Callback
    BY <1>a, <2>2, <2>3 DEF Ext!Callback, Ext!NewCallback
  <2>. QED
    BY <2>1, <2>2, <2>4
<1>d. SpiMasks' /\ Serving' /\ Ext!NoneForgotten'
  BY <1>c DEF IInv, SpiMasks, Serving, Ext!NoneForgotten
<1>0. CASE Ext!AttachLoad
  <2>0. /\ Hole = {} /\ ext_step = "first" /\ ext_step' = "wakeup" /\ ext_loaded' = ext_INTEN
        /\ UNCHANGED <<Ext!list, ext_current, ext_call, ext_line, ext_calls, ext_attached,
                       ext_INTEN, ext_sense, ext_ENABLE>>
    BY <1>0, <1>c DEF Ext!AttachLoad, Hole
  <2>1. Hole' = {} /\ Entries' = Entries
    BY <2>0 DEF Hole, Entries, Ext!list
  <2>2. Ext!TypeOK'
    BY <1>c, <2>0, <1>b DEF Ext!TypeOK, Ext!list
  <2>3. InCall' /\ HalfWritten'
    BY <1>c, <2>0, <2>1, <1>b DEF InCall, HalfWritten, Ext!list
  <2>4. OwnEntries' /\ Distinct' /\ Complete'
    BY <2>0, <2>1 DEF IInv, OwnEntries, Distinct, Complete, Ext!list
  <2>5. EnabledAttached'
    BY <2>0, <1>c DEF IInv, EnabledAttached
  <2>. QED
    BY <1>d, <2>2, <2>3, <2>4, <2>5 DEF IInv
<1>1. CASE Ext!AttachWakeup
  <2>0. /\ Hole = {} /\ ext_step = "wakeup"
        /\ UNCHANGED <<Ext!list, ext_current, ext_call, ext_line, ext_calls>>
        /\ ext_step' \in {"enable", "find"} /\ ext_loaded' = {}
    BY <1>1, <1>c DEF Ext!AttachWakeup, Hole
  <2>1. Hole' = {} /\ Entries' = Entries
    BY <2>0 DEF Hole, Entries, Ext!list
  <2>2. PICK callback \in {Ext!NewCallback, Ext!None} :
          /\ ext_step' = IF callback = Ext!None THEN "enable" ELSE "find"
          /\ ext_attached' = [ext_attached EXCEPT ![ext_line] = @ \cup {callback}]
    BY <1>1 DEF Ext!AttachWakeup
  <2>3. /\ ext_attached' \in [Lines -> SUBSET Ext!Callback] /\ ext_attached'[ext_line] # {}
        /\ \A l \in Lines : ext_attached[l] \subseteq ext_attached'[l]
        /\ \A l \in Lines \ {ext_line} : ext_attached'[l] = ext_attached[l]
    BY <2>2, <1>b, <1>c DEF Ext!TypeOK
  <2>4. callback = Ext!None
            => \A l \in Lines : ext_attached'[l] \ {Ext!None} = ext_attached[l] \ {Ext!None}
    BY <2>2, <1>b, <1>c DEF Ext!TypeOK
  <2>5. ext_INTEN' = ext_INTEN \cup ext_loaded \cup {ext_line}
            /\ ext_loaded \subseteq ext_INTEN /\ ext_sense' = ext_sense /\ ext_ENABLE' = ext_ENABLE
    BY <1>1 DEF Ext!AttachWakeup, IInv, EnabledAttached
  <2>6. Ext!TypeOK'
    BY <1>c, <2>0, <2>3, <2>5, <1>b DEF Ext!TypeOK, Ext!list
  <2>7. InCall' /\ HalfWritten'
    BY <1>c, <2>0, <2>1, <1>b DEF InCall, HalfWritten, Ext!list
  <2>8. OwnEntries' /\ Distinct'
    BY <2>0, <2>1, <2>3 DEF IInv, OwnEntries, Distinct, Ext!list
  <2>9. Complete'
    BY <2>0, <2>1, <2>2, <2>3, <2>4, <1>c DEF IInv, Complete, Ext!list
  <2>10. EnabledAttached'
    BY <2>0, <2>3, <2>5, <1>c, <1>b DEF IInv, EnabledAttached, Ext!TypeOK
  <2>. QED
    BY <1>d, <2>6, <2>7, <2>8, <2>9, <2>10 DEF IInv
<1>2. CASE Ext!AttachFind
  <2>0. /\ Hole = {} /\ Entries = 1..ext_nints /\ ext_step = "find" /\ ext_step' = "mask"
        /\ ext_current' = Ext!Entry
        /\ UNCHANGED <<ext_ISRlist, ext_ISRcallback, ext_call, ext_line, ext_calls, ext_attached,
                       ext_INTEN, ext_loaded, ext_sense, ext_ENABLE>>
        /\ ext_nints' = IF Ext!Entry = ext_nints + 1 THEN ext_nints + 1 ELSE ext_nints
    BY <1>2, <1>c DEF Ext!AttachFind, Hole, Entries, Ext!AttachEntry
  <2>1. /\ Ext!Entry \in 1..ext_nints + 1
        /\ Ext!Entry <= ext_nints => ext_ISRlist[Ext!Entry] = ext_line
        /\ Ext!Entry = ext_nints + 1 => \A s \in 1..ext_nints : ext_ISRlist[s] # ext_line
    BY <2>0, <1>b, EntryFound
  <2>2. Ext!Entry = ext_nints + 1 => ext_nints + 1 <= EXTERNAL_NUM_INTERRUPTS
    BY <2>0, <2>1, <1>b, <1>c, RoomForEntry DEF IInv, OwnEntries
  <2>3. Hole' = {Ext!Entry} /\ Entries' = (1..ext_nints) \ {Ext!Entry} /\ Ext!Entry \in 1..ext_nints'
    BY <2>0, <2>1, <1>b, <1>c DEF Hole, Entries, Ext!TypeOK
  <2>4. \A s \in Entries' : s \in Entries /\ ext_ISRlist[s] # ext_line
    BY <2>0, <2>1, <2>3, <1>b DEF Distinct, Ext!TypeOK
  <2>5. Ext!TypeOK'
    BY <1>a, <1>c, <2>0, <2>1, <2>2, <1>b DEF Ext!TypeOK
  <2>6. InCall' /\ HalfWritten'
    BY <1>c, <2>0, <2>3, <1>b DEF InCall, HalfWritten
  <2>7. OwnEntries' /\ Distinct'
    BY <2>0, <2>4 DEF IInv, OwnEntries, Distinct
  <2>8. Complete'
    <3>1. ASSUME NEW l \in Lines, l # ext_line, ext_attached[l] \ {Ext!None} # {}
          PROVE  \E s \in Entries' : ext_ISRlist[s] = l
      <4>1. PICK s \in Entries : ext_ISRlist[s] = l
        BY <3>1 DEF IInv, Complete
      <4>2. s \in Entries'
        BY <4>1, <3>1, <2>0, <2>1, <2>3, <1>b DEF Ext!TypeOK
      <4>. QED
        BY <4>1, <4>2
    <3>. QED
      BY <3>1, <2>0, <2>3 DEF Complete
  <2>9. EnabledAttached'
    BY <2>0, <1>c DEF IInv, EnabledAttached
  <2>. QED
    BY <1>d, <2>5, <2>6, <2>7, <2>8, <2>9 DEF IInv
<1>3. CASE Ext!AttachMask
  <2>0. /\ Hole = {ext_current} /\ ext_step = "mask" /\ ext_step' = "callback"
        /\ ext_ISRlist' = [ext_ISRlist EXCEPT ![ext_current] = ext_line]
        /\ UNCHANGED <<ext_ISRcallback, ext_nints, ext_current, ext_call, ext_line, ext_calls,
                       ext_attached, ext_INTEN, ext_loaded, ext_sense, ext_ENABLE>>
    BY <1>3, <1>c DEF Ext!AttachMask, Hole
  <2>1. Hole' = Hole /\ Entries' = Entries /\ ext_current \in Ext!Slots
    BY <2>0, <1>a, <1>b, <1>c DEF Hole, Entries, InCall, Ext!Slots, Ext!TypeOK
  <2>2. \A s \in Entries : s \in Ext!Slots /\ ext_ISRlist'[s] = ext_ISRlist[s]
    BY <2>0, <2>1, <1>a, <1>b DEF Ext!TypeOK, Entries, Ext!Slots
  <2>3. Ext!TypeOK'
    BY <1>c, <2>0, <2>1, <1>b DEF Ext!TypeOK
  <2>4. InCall' /\ HalfWritten'
    BY <1>c, <2>0, <2>1, <1>b DEF InCall, HalfWritten, Ext!TypeOK
  <2>5. OwnEntries' /\ Distinct'
    BY <2>0, <2>1, <2>2 DEF IInv, OwnEntries, Distinct
  <2>6. Complete'
    BY <2>0, <2>1, <2>2 DEF IInv, Complete
  <2>7. EnabledAttached'
    BY <2>0, <1>c DEF IInv, EnabledAttached
  <2>. QED
    BY <1>d, <2>3, <2>4, <2>5, <2>6, <2>7 DEF IInv
<1>4. CASE Ext!AttachCallback
  <2>0. /\ Hole = {ext_current} /\ ext_step = "callback" /\ ext_step' = "configure"
        /\ ext_ISRlist[ext_current] = ext_line
        /\ ext_ISRcallback' = [ext_ISRcallback EXCEPT ![ext_current] = Ext!NewCallback]
        /\ ext_attached' = [ext_attached EXCEPT ![ext_line] = {Ext!NewCallback}]
        /\ UNCHANGED <<ext_ISRlist, ext_nints, ext_current, ext_call, ext_line, ext_calls,
                       ext_INTEN, ext_loaded, ext_sense, ext_ENABLE>>
    BY <1>4, <1>c DEF Ext!AttachCallback, Hole, IInv, HalfWritten
  <2>1. Hole' = {} /\ Entries' = 1..ext_nints /\ ext_current \in Ext!Slots
            /\ ext_current \in 1..ext_nints
    BY <2>0, <1>a, <1>b, <1>c DEF Hole, Entries, InCall, Ext!Slots, Ext!TypeOK
  <2>2. \A s \in Entries' : s = ext_current
            \/ (s \in Entries /\ s \in Ext!Slots /\ ext_ISRcallback'[s] = ext_ISRcallback[s])
    BY <2>0, <2>1, <1>a, <1>b DEF Ext!TypeOK, Entries, Ext!Slots
  <2>3. /\ ext_attached'[ext_line] = {Ext!NewCallback}
        /\ ext_ISRcallback'[ext_current] = Ext!NewCallback
        /\ \A l \in Lines \ {ext_line} : ext_attached'[l] = ext_attached[l]
        /\ ext_attached' \in [Lines -> SUBSET Ext!Callback]
        /\ ext_ISRcallback' \in [Ext!Slots -> Ext!Callback]
    BY <2>0, <2>1, <1>b, <1>c DEF Ext!TypeOK
  <2>4. Ext!TypeOK'
    BY <1>c, <2>0, <2>3, <1>b DEF Ext!TypeOK
  <2>5. InCall' /\ HalfWritten'
    BY <1>c, <2>0, <2>1, <1>b DEF InCall, HalfWritten, Ext!TypeOK
  <2>6. OwnEntries'
    BY <2>0, <2>1, <2>2, <2>3, <1>c DEF IInv, OwnEntries
  <2>7. Distinct'
    <3>1. \A s \in Entries : ext_ISRlist[s] # ext_line
      BY <2>0 DEF IInv, OwnEntries
    <3>. QED
      BY <2>0, <2>1, <2>2, <3>1, <1>b DEF Distinct
  <2>8. Complete'
    <3>1. ASSUME NEW l \in Lines, ext_attached'[l] \ {Ext!None} # {}
          PROVE  \E s \in Entries' : ext_ISRlist[s] = l
      <4>1. CASE l = ext_line
        BY <4>1, <2>0, <2>1
      <4>2. CASE l # ext_line
        <5>1. \E s \in Entries : ext_ISRlist[s] = l
          BY <4>2, <3>1, <2>3 DEF IInv, Complete
        <5>2. \A s \in Entries : s \in Entries'
          BY <2>1 DEF Entries
        <5>. QED
          BY <5>1, <5>2
      <4>. QED
        BY <4>1, <4>2
    <3>. QED
      BY <3>1, <2>0 DEF Complete
  <2>9. EnabledAttached'
    BY <2>0, <2>3, <1>c, <1>b DEF IInv, EnabledAttached, Ext!TypeOK
  <2>. QED
    BY <1>d, <2>4, <2>5, <2>6, <2>7, <2>8, <2>9 DEF IInv
<1>5. CASE Ext!AttachConfigure \/ Ext!AttachEnable
  <2>0. /\ Hole = {} /\ Hole' = {} /\ Entries' = Entries
        /\ UNCHANGED <<Ext!list, ext_attached, ext_loaded>>
        /\ ext_step \in {"configure", "enable"}
    BY <1>5, <1>c DEF Ext!AttachConfigure, Ext!AttachEnable, Ext!Return, Hole, Entries, Ext!list
  <2>a. ext_ENABLE' \in BOOLEAN
    BY Zenon, <1>5 DEF Ext!AttachConfigure, Ext!AttachEnable
  <2>1. Ext!TypeOK'
    BY <1>5, <1>a, <1>b, <1>c, <2>0, <2>a
       DEF Ext!AttachConfigure, Ext!AttachEnable, Ext!Return, Ext!TypeOK, Ext!list
  <2>2. InCall' /\ HalfWritten'
    BY <1>5, <1>c, <2>0, <1>b DEF Ext!AttachConfigure, Ext!AttachEnable, Ext!Return, InCall,
                                  HalfWritten
  <2>3. OwnEntries' /\ Distinct' /\ Complete'
    BY <2>0, <1>c DEF IInv, OwnEntries, Distinct, Complete, Ext!list
  <2>4. EnabledAttached'
    BY <1>5, <2>0, <1>c DEF Ext!AttachConfigure, Ext!AttachEnable, Ext!Return, IInv,
                            EnabledAttached, Ext!list
  <2>. QED
    BY <1>d, <2>1, <2>2, <2>3, <2>4 DEF IInv
<1>. QED
  BY <1>0, <1>1, <1>2, <1>3, <1>4, <1>5

\* detachInterrupt() keeps the invariant, step by step: what it moves is one place further on.
LEMMA DetachStep ==
  ASSUME IInv, \/ Ext!DetachFirst \/ Ext!DetachLoad \/ Ext!DetachStore \/ Ext!DetachFind
               \/ Ext!DetachShiftMask \/ Ext!DetachShiftCallback \/ Ext!DetachLast
  PROVE  IInv'
<1> USE DEF Ext!At, Ext!To, Ext!eic, Ext!handler, Ext!history, Ext!spi, Ext!mode
<1>a. EXTERNAL_NUM_INTERRUPTS \in Nat /\ MaxCalls \in Nat
  BY CoreAssumption DEF Ext!LinesAssumption
<1>b. Ext!TypeOK /\ InCall /\ Distinct
  BY DEF IInv
<1>c. /\ ext_call = "detach" /\ ext_line \in Lines /\ ext_line \notin ext_interruptMask
      /\ ~ext_transaction
      /\ UNCHANGED <<ext_INTFLAG, ext_sense, ext_ENABLE, Ext!handler, Ext!spi, ext_shifted>>
      /\ ~ext_walking /\ ext_running = Ext!None
  BY DEF Ext!DetachFirst, Ext!DetachLoad, Ext!DetachStore, Ext!DetachFind, Ext!DetachShiftMask,
         Ext!DetachShiftCallback, Ext!DetachLast, IInv, InCall
<1>s. SpiMasks'
  BY <1>c DEF IInv, SpiMasks
<1>1. CASE Ext!DetachFirst \/ Ext!DetachLoad \/ Ext!DetachStore
  <2>0. /\ Hole = {} /\ Hole' = {} /\ Entries' = Entries
        /\ UNCHANGED <<Ext!list, ext_attached, ext_owed, ext_call, ext_line, ext_calls,
                       ext_current>>
        /\ ext_step' \in {"load", "store", "find"} /\ ext_loaded' \subseteq ext_INTEN'
        /\ ext_INTEN' \subseteq ext_INTEN /\ ext_line \notin ext_INTEN'
        /\ ext_step' # "store" => ext_loaded' = {}
    BY <1>1, <1>c DEF Ext!DetachFirst, Ext!DetachLoad, Ext!DetachStore, Ext!DetachClear, Hole,
                      Entries, Ext!list, IInv, EnabledAttached
  <2>1. Ext!TypeOK'
    BY <2>0, <1>b, <1>c DEF Ext!TypeOK, Ext!list
  <2>2. InCall' /\ HalfWritten'
    BY <2>0, <1>b, <1>c DEF InCall, HalfWritten
  <2>3. OwnEntries' /\ Distinct' /\ Complete'
    BY <2>0, <1>c DEF IInv, OwnEntries, Distinct, Complete, Ext!list
  <2>4. EnabledAttached' /\ Serving' /\ Ext!NoneForgotten'
    BY <2>0, <1>c DEF IInv, EnabledAttached, Serving, Ext!NoneForgotten
  <2>. QED
    BY <1>s, <2>1, <2>2, <2>3, <2>4 DEF IInv
<1>2. CASE Ext!DetachFind
  <2>0. /\ Hole = {} /\ Entries = 1..ext_nints /\ ext_step = "find"
        /\ UNCHANGED <<Ext!list, Ext!eic, ext_calls, ext_loaded>>
    BY <1>2, <1>c DEF Ext!DetachFind, Ext!Return, Hole, Entries, Ext!list
  <2>1. /\ Ext!Entry \in 1..ext_nints + 1
        /\ Ext!Entry <= ext_nints => ext_ISRlist[Ext!Entry] = ext_line
        /\ Ext!Entry = ext_nints + 1 => \A s \in 1..ext_nints : ext_ISRlist[s] # ext_line
    BY <2>0, <1>b, EntryFound
  <2>2. CASE Ext!Entry = ext_nints + 1
    <3>0. /\ ext_call' = "none" /\ ext_step' = "first" /\ ext_line' = "none" /\ ext_current' = 1
          /\ ext_attached' = [ext_attached EXCEPT ![ext_line] = {}]
          /\ ext_owed' = ext_owed \ {ext_line}
      BY <1>2, <2>2 DEF Ext!DetachFind, Ext!Return, Ext!Detached
    <3>1. Hole' = {} /\ Entries' = Entries
      BY <3>0, <2>0 DEF Hole, Entries, Ext!list
    <3>2. /\ ext_attached'[ext_line] = {}
          /\ \A l \in Lines \ {ext_line} : ext_attached'[l] = ext_attached[l]
          /\ ext_attached' \in [Lines -> SUBSET Ext!Callback]
      BY <3>0, <1>b, <1>c DEF Ext!TypeOK
    <3>3. Ext!TypeOK'
      BY <3>0, <3>2, <2>0, <1>a, <1>b, <1>c DEF Ext!TypeOK, Ext!list
    <3>4. InCall' /\ HalfWritten'
      BY <3>0, <3>1, <1>b, <1>c DEF InCall, HalfWritten
    <3>5. OwnEntries' /\ Distinct'
      BY <3>1, <3>2, <2>0, <2>1, <2>2 DEF IInv, OwnEntries, Distinct, Ext!list
    <3>6. Complete'
      BY <3>0, <3>1, <3>2, <2>0, <1>c DEF IInv, Complete, Ext!list
    <3>7. EnabledAttached' /\ Serving' /\ Ext!NoneForgotten'
      BY <3>0, <3>2, <2>0, <1>b, <1>c DEF IInv, EnabledAttached, Serving, Ext!NoneForgotten,
                                          Ext!TypeOK
    <3>. QED
      BY <1>s, <3>3, <3>4, <3>5, <3>6, <3>7 DEF IInv
  <2>3. CASE Ext!Entry # ext_nints + 1
    <3>0. /\ ext_step' = "shift" /\ ext_current' = Ext!Entry /\ UNCHANGED <<ext_call, ext_line,
                                                                            ext_attached, ext_owed>>
      BY <1>2, <2>3 DEF Ext!DetachFind
    <3>1. Hole' = {Ext!Entry} /\ Entries' = (1..ext_nints) \ {Ext!Entry}
              /\ Ext!Entry \in 1..ext_nints
      BY <3>0, <2>0, <2>1, <2>3, <1>b, <1>c DEF Hole, Entries, Ext!list, Ext!TypeOK
    <3>2. \A s \in Entries' : s \in Entries /\ ext_ISRlist[s] # ext_line
      BY <2>0, <2>1, <3>1, <1>b DEF Distinct, Ext!TypeOK
    <3>3. Ext!TypeOK'
      BY <3>0, <3>1, <2>0, <1>a, <1>b, <1>c DEF Ext!TypeOK, Ext!list
    <3>4. InCall' /\ HalfWritten'
      BY <3>0, <3>1, <2>0, <1>b, <1>c DEF InCall, HalfWritten, Ext!list
    <3>5. OwnEntries' /\ Distinct'
      BY <3>0, <3>2, <2>0 DEF IInv, OwnEntries, Distinct, Ext!list
    <3>6. Complete'
      <4>1. ASSUME NEW l \in Lines, l # ext_line, ext_attached[l] \ {Ext!None} # {}
            PROVE  \E s \in Entries' : ext_ISRlist[s] = l
        <5>1. PICK s \in Entries : ext_ISRlist[s] = l
          BY <4>1, <1>c DEF IInv, Complete
        <5>2. s \in Entries'
          BY <5>1, <4>1, <2>0, <2>1, <3>1, <1>b DEF Ext!TypeOK
        <5>. QED
          BY <5>1, <5>2
      <4>. QED
        BY <4>1, <3>0, <3>1, <2>0 DEF Complete, Ext!list
    <3>7. EnabledAttached' /\ Serving' /\ Ext!NoneForgotten'
      BY <3>0, <2>0, <1>c DEF IInv, EnabledAttached, Serving, Ext!NoneForgotten
    <3>. QED
      BY <1>s, <3>3, <3>4, <3>5, <3>6, <3>7 DEF IInv
  <2>. QED
    BY <2>2, <2>3
<1>3. CASE Ext!DetachShiftMask
  <2>0. /\ Hole = {ext_current} /\ ext_step = "shift" /\ ext_step' = "callback"
        /\ ext_current < ext_nints
        /\ ext_ISRlist' = [ext_ISRlist EXCEPT ![ext_current] = ext_ISRlist[ext_current + 1]]
        /\ UNCHANGED <<ext_ISRcallback, ext_nints, ext_INTEN, ext_loaded, ext_current, ext_call, ext_line,
                       ext_calls, ext_attached, ext_owed>>
    BY <1>3, <1>c DEF Ext!DetachShiftMask, Hole
  <2>1. /\ Hole' = Hole /\ Entries' = Entries /\ ext_current \in Ext!Slots
        /\ ext_current + 1 \in Ext!Slots
        /\ ext_current \in 1..ext_nints
    BY <2>0, <1>a, <1>b, <1>c DEF Hole, Entries, InCall, Ext!Slots, Ext!TypeOK
  <2>2. \A s \in Entries \cup {ext_current + 1} : s \in Ext!Slots /\ ext_ISRlist'[s] = ext_ISRlist[s]
    BY <2>0, <2>1, <1>a, <1>b DEF Ext!TypeOK, Entries, Ext!Slots
  <2>3. ext_ISRlist'[ext_current] = ext_ISRlist[ext_current + 1]
            /\ ext_ISRlist' \in [Ext!Slots -> Lines \cup {"none"}]
    BY <2>0, <2>1, <1>b DEF Ext!TypeOK
  <2>4. Ext!TypeOK'
    BY <1>c, <2>0, <2>3, <1>b DEF Ext!TypeOK
  <2>5. InCall' /\ HalfWritten'
    BY <1>c, <2>0, <2>1, <2>2, <2>3, <1>b DEF InCall, HalfWritten, Ext!TypeOK
  <2>6. OwnEntries' /\ Distinct'
    BY <2>0, <2>1, <2>2 DEF IInv, OwnEntries, Distinct
  <2>7. Complete'
    BY <2>0, <2>1, <2>2, <1>c DEF IInv, Complete
  <2>8. EnabledAttached' /\ Serving' /\ Ext!NoneForgotten'
    BY <2>0, <1>c DEF IInv, EnabledAttached, Serving, Ext!NoneForgotten
  <2>. QED
    BY <1>s, <2>4, <2>5, <2>6, <2>7, <2>8 DEF IInv
<1>4. CASE Ext!DetachShiftCallback
  <2>0. /\ Hole = {ext_current} /\ ext_step = "callback" /\ ext_step' = "shift"
        /\ ext_current' = ext_current + 1
        /\ ext_current < ext_nints /\ ext_ISRlist[ext_current] = ext_ISRlist[ext_current + 1]
        /\ ext_ISRcallback' =
             [ext_ISRcallback EXCEPT ![ext_current] = ext_ISRcallback[ext_current + 1]]
        /\ UNCHANGED <<ext_ISRlist, ext_nints, ext_INTEN, ext_loaded, ext_call, ext_line, ext_calls,
                       ext_attached, ext_owed>>
    BY <1>4, <1>c DEF Ext!DetachShiftCallback, Ext!MovedCallback, Hole, IInv, HalfWritten
  <2>1. /\ ext_current \in Ext!Slots /\ ext_current + 1 \in Ext!Slots
        /\ ext_current \in 1..ext_nints
        /\ ext_current + 1 \in 1..ext_nints /\ ext_current + 1 \in Entries
    BY <2>0, <1>a, <1>b, <1>c DEF Entries, InCall, Ext!Slots, Ext!TypeOK
  <2>2. Hole' = {ext_current + 1} /\ Entries' = (Entries \ {ext_current + 1}) \cup {ext_current}
    BY <2>0, <2>1, <1>b, <1>c DEF Hole, Entries, Ext!TypeOK
  <2>3. \A s \in Entries : s \in Ext!Slots /\ ext_ISRcallback'[s] = ext_ISRcallback[s]
    BY <2>0, <2>1, <1>a, <1>b DEF Ext!TypeOK, Entries, Ext!Slots
  <2>4. /\ ext_ISRcallback'[ext_current] = ext_ISRcallback[ext_current + 1]
        /\ ext_ISRcallback' \in [Ext!Slots -> Ext!Callback]
    BY <2>0, <2>1, <1>b DEF Ext!TypeOK
  <2>a. ext_current' \in 1..EXTERNAL_NUM_INTERRUPTS + 1
    BY <2>0, <2>1, <1>a DEF Ext!Slots
  <2>5. Ext!TypeOK'
    BY <1>c, <2>0, <2>4, <2>a, <1>b DEF Ext!TypeOK
  <2>6. InCall' /\ HalfWritten'
    BY <1>c, <2>0, <2>1, <2>2, <1>b DEF InCall, HalfWritten, Ext!TypeOK
  <2>7. OwnEntries'
    BY <2>0, <2>1, <2>2, <2>3, <2>4 DEF IInv, OwnEntries
  <2>8. Distinct'
    <3>1. \A r \in Entries \ {ext_current + 1} : ext_ISRlist[r] # ext_ISRlist[ext_current]
      BY <2>0, <2>1, <1>b DEF Distinct
    <3>. QED
      BY <2>0, <2>2, <3>1, <1>b DEF Distinct
  <2>9. Complete'
    <3>1. ASSUME NEW l \in Lines, l # ext_line, ext_attached[l] \ {Ext!None} # {}
          PROVE  \E s \in Entries' : ext_ISRlist[s] = l
      <4>1. PICK s \in Entries : ext_ISRlist[s] = l
        BY <3>1, <1>c DEF IInv, Complete
      <4>. QED
        BY <4>1, <2>0, <2>2
    <3>. QED
      BY <3>1, <2>0, <2>2 DEF Complete
  <2>10. EnabledAttached' /\ Serving' /\ Ext!NoneForgotten'
    BY <2>0, <1>c DEF IInv, EnabledAttached, Serving, Ext!NoneForgotten
  <2>. QED
    BY <1>s, <2>5, <2>6, <2>7, <2>8, <2>9, <2>10 DEF IInv
<1>5. CASE Ext!DetachLast
  <2>0. /\ Hole = {ext_current} /\ ext_current = ext_nints /\ ext_nints' = ext_nints - 1
        /\ ext_call' = "none" /\ ext_step' = "first" /\ ext_line' = "none" /\ ext_current' = 1
        /\ ext_step = "shift"
        /\ ext_attached' = [ext_attached EXCEPT ![ext_line] = {}]
        /\ ext_owed' = ext_owed \ {ext_line}
        /\ UNCHANGED <<ext_ISRlist, ext_ISRcallback, ext_INTEN, ext_loaded, ext_calls>>
    BY <1>5, <1>c DEF Ext!DetachLast, Ext!Return, Ext!Detached, Hole
  <2>1. Hole' = {} /\ Entries' = Entries /\ ext_nints \in 1..EXTERNAL_NUM_INTERRUPTS
    BY <2>0, <1>a, <1>b, <1>c DEF Hole, Entries, InCall, Ext!TypeOK
  <2>2. /\ ext_attached'[ext_line] = {}
        /\ \A l \in Lines \ {ext_line} : ext_attached'[l] = ext_attached[l]
        /\ ext_attached' \in [Lines -> SUBSET Ext!Callback]
    BY <2>0, <1>b, <1>c DEF Ext!TypeOK
  <2>3. Ext!TypeOK'
    BY <2>0, <2>1, <2>2, <1>a, <1>b, <1>c DEF Ext!TypeOK
  <2>4. InCall' /\ HalfWritten'
    BY <2>0, <2>1, <1>b, <1>c DEF InCall, HalfWritten
  <2>5. OwnEntries' /\ Distinct'
    BY <2>0, <2>1, <2>2 DEF IInv, OwnEntries, Distinct
  <2>6. Complete'
    BY <2>0, <2>1, <2>2, <1>c DEF IInv, Complete
  <2>7. EnabledAttached' /\ Serving' /\ Ext!NoneForgotten'
    BY <2>0, <2>2, <1>b, <1>c DEF IInv, EnabledAttached, Serving, Ext!NoneForgotten, Ext!TypeOK
  <2>. QED
    BY <1>s, <2>3, <2>4, <2>5, <2>6, <2>7 DEF IInv
<1>. QED
  BY <1>1, <1>2, <1>3, <1>4, <1>5

\* A callback that detaches its own line from within the handler keeps the invariant.
LEMMA CallbackDetachesStep ==
  ASSUME IInv, Ext!CallbackDetaches
  PROVE  IInv'
<1> USE DEF Ext!handler, Ext!history, Ext!spi, Ext!mode, Ext!sketch
<1>a. EXTERNAL_NUM_INTERRUPTS \in Nat /\ MaxCalls \in Nat
  BY CoreAssumption DEF Ext!LinesAssumption
<1>b. Ext!TypeOK /\ InCall /\ Distinct /\ ext_walking /\ ext_call = "none"
  BY DEF IInv, InCall, Ext!CallbackDetaches
<1>0. /\ Hole = {} /\ Hole' = {} /\ Entries = 1..ext_nints /\ Entries' = 1..ext_nints - 1
      /\ ext_i \in 1..ext_nints
      /\ ext_nints' = ext_nints - 1 /\ ext_shifted' = TRUE
      /\ ext_nints \in 1..EXTERNAL_NUM_INTERRUPTS
      /\ ext_INTEN' = ext_INTEN \ {ext_running.line} /\ ext_ISRlist[ext_i] = ext_running.line
      /\ ext_attached' = [ext_attached EXCEPT ![ext_running.line] = {}]
      /\ ext_owed' = ext_owed \ {ext_running.line}
      /\ UNCHANGED <<ext_INTFLAG, ext_sense, ext_ENABLE, Ext!sketch, Ext!handler, Ext!spi>>
      /\ ext_running # Ext!None
      /\ ext_running.line \notin ext_interruptMask
  BY <1>a, <1>b DEF Ext!CallbackDetaches, Ext!Detached, Hole, Entries, Ext!TypeOK
<1>1. \A s \in Entries : s \in Ext!Slots /\ ext_ISRlist[s] \in Lines
  BY <1>0, <1>a DEF IInv, OwnEntries, Ext!Slots
<1>2. ext_running.line \in Lines
  BY <1>0, <1>1
<1> DEFINE Old(s) == IF s \in ext_i..ext_nints - 1 THEN s + 1 ELSE s
<1>3. \A s \in Ext!Slots : Old(s) = s \/ Old(s) \in Ext!Slots
  BY <1>0, <1>a DEF Ext!Slots
<1>4. \A s \in Entries' : /\ Old(s) \in Entries /\ Old(s) # ext_i /\ s \in Ext!Slots
                       /\ ext_ISRlist'[s] = ext_ISRlist[Old(s)]
                       /\ ext_ISRcallback'[s] = ext_ISRcallback[Old(s)]
  BY <1>0, <1>1, <1>a DEF Ext!CallbackDetaches, Ext!Slots
<1>5. /\ ext_ISRlist' \in [Ext!Slots -> Lines \cup {"none"}]
      /\ ext_ISRcallback' \in [Ext!Slots -> Ext!Callback]
  BY <1>0, <1>a, <1>b DEF Ext!CallbackDetaches, Ext!TypeOK, Ext!Slots
<1>6. /\ ext_attached'[ext_running.line] = {}
      /\ \A l \in Lines \ {ext_running.line} : ext_attached'[l] = ext_attached[l]
      /\ ext_attached' \in [Lines -> SUBSET Ext!Callback]
  BY <1>0, <1>2, <1>b DEF Ext!TypeOK
<1>7. Ext!TypeOK'
  BY <1>0, <1>5, <1>6, <1>a, <1>b DEF Ext!TypeOK
<1>8. InCall' /\ HalfWritten'
  BY <1>0, <1>b DEF InCall, HalfWritten
<1>9. \A s \in Entries' : ext_ISRlist[Old(s)] # ext_running.line
  BY <1>0, <1>4, <1>b DEF Distinct
<1>10. OwnEntries'
  <2> HIDE DEF Old
  <2>1. \A s \in Entries' :
          /\ ext_ISRlist[Old(s)] \in Lines
          /\ ext_ISRcallback[Old(s)] \in ext_attached[ext_ISRlist[Old(s)]] \ {Ext!None}
    BY <1>4 DEF IInv, OwnEntries
  <2>. QED
    BY <2>1, <1>0, <1>4, <1>6, <1>9 DEF OwnEntries
<1>11. Distinct'
  <2>1. \A r, s \in Entries' : Old(r) = Old(s) => r = s
    BY <1>0
  <2> HIDE DEF Old
  <2>. QED
    BY <2>1, <1>4, <1>b DEF Distinct
<1>12. Complete'
  <2>1. ASSUME NEW l \in Lines, ext_attached'[l] \ {Ext!None} # {}
        PROVE  \E s \in Entries' : ext_ISRlist'[s] = l
    <3>1. l # ext_running.line
      BY <2>1, <1>6
    <3>2. PICK r \in Entries : ext_ISRlist[r] = l
      BY <2>1, <3>1, <1>0, <1>2, <1>6, <1>b DEF IInv, Complete, InCall
    <3>3. r # ext_i
      BY <3>1, <3>2, <1>0
    <3>4. \E s \in Entries' : Old(s) = r
      <4>1. CASE r < ext_i
        BY <4>1, <1>0
      <4>2. CASE r > ext_i
        <5>1. r - 1 \in Entries' /\ Old(r - 1) = r
          BY <4>2, <1>0
        <5>. QED
          BY <5>1
      <4>. QED
        BY <4>1, <4>2, <3>3, <1>0
    <3> HIDE DEF Old
    <3>. QED
      BY <3>2, <3>4, <1>4
  <2>. QED
    BY <2>1 DEF Complete
<1>13. EnabledAttached'
  BY <1>0, <1>2, <1>6, <1>b DEF IInv, EnabledAttached, InCall, Ext!TypeOK
<1>14. SpiMasks' /\ Serving' /\ Ext!NoneForgotten'
  BY <1>0 DEF IInv, SpiMasks, Serving, Ext!NoneForgotten
<1>. QED
  BY <1>7, <1>8, <1>10, <1>11, <1>12, <1>13, <1>14 DEF IInv

\* A step of anything else keeps the invariant.
LEMMA Stuttering == ASSUME IInv, UNCHANGED Ext!vars PROVE IInv'
<1>0. UNCHANGED <<Ext!list, Ext!eic, Ext!sketch, Ext!handler, Ext!spi, Ext!history>>
  BY DEF Ext!vars
<1> USE DEF Ext!mode
<1>1. ListInv' /\ Hole' = Hole
  BY <1>0, SameList DEF IInv, ListInv, Ext!history
<1>2. Ext!TypeOK' /\ InCall'
  BY <1>0, <1>1 DEF IInv, Ext!TypeOK, InCall, Ext!list, Ext!eic, Ext!sketch, Ext!handler,
                    Ext!spi, Ext!history
<1>3. EnabledAttached' /\ SpiMasks' /\ Serving' /\ Ext!NoneForgotten'
  BY <1>0 DEF IInv, EnabledAttached, SpiMasks, Serving, Ext!NoneForgotten, Ext!list, Ext!eic,
              Ext!sketch, Ext!handler, Ext!spi, Ext!history
<1>. QED
  BY <1>1, <1>2, <1>3 DEF IInv, ListInv

\* The inductive invariant holds of every behaviour in which the sketch masks its calls.
THEOREM Invariance == ASSUME Guarded PROVE Ext!Spec => []IInv
<1>1. ASSUME IInv, [Ext!Next]_Ext!vars PROVE IInv'
  BY <1>1, SpiStep, ServiceStep, CallStep, AttachStep, DetachStep, CallbackDetachesStep,
     Stuttering
  DEF Ext!Next, Ext!Steps
<1>. QED
  BY <1>1, Initially, PTL DEF Ext!Spec

\* What the inductive invariant says of the list is what a sketch relies on.
LEMMA ListIsSound == IInv => Ext!OwnCallback /\ Ext!ListExact /\ Ext!NoneForgotten
    /\ Ext!TransactionAlone
<1> SUFFICES ASSUME IInv
             PROVE  Ext!OwnCallback /\ Ext!ListExact /\ Ext!NoneForgotten /\ Ext!TransactionAlone
  OBVIOUS
<1>b. Ext!TypeOK /\ InCall
  BY DEF IInv
<1>1. ext_call = "none" => Hole = {} /\ Entries = 1..ext_nints
  BY DEF Hole, Entries
<1>2. Ext!OwnCallback
  <2> SUFFICES ASSUME ext_walking, ext_i <= ext_nints
               PROVE  ext_ISRcallback[ext_i] \in ext_attached[ext_ISRlist[ext_i]]
    BY DEF Ext!OwnCallback
  <2>1. ext_i \in Entries
    BY <1>1, <1>b DEF InCall, Ext!TypeOK
  <2>. QED
    BY <2>1 DEF IInv, OwnEntries
<1>3. Ext!ListExact
  <2> SUFFICES ASSUME ext_call = "none"
               PROVE  /\ {ext_ISRlist[s] : s \in 1..ext_nints} =
                           {l \in Lines : ~(ext_attached[l] \subseteq {Ext!None})}
                      /\ \A r, s \in 1..ext_nints : ext_ISRlist[r] = ext_ISRlist[s] => r = s
    BY DEF Ext!ListExact
  <2>1. \A s \in 1..ext_nints : ext_ISRlist[s] \in Lines
            /\ ~(ext_attached[ext_ISRlist[s]] \subseteq {Ext!None})
    BY <1>1 DEF IInv, OwnEntries
  <2>2. \A l \in Lines : ~(ext_attached[l] \subseteq {Ext!None})
            => \E s \in 1..ext_nints : ext_ISRlist[s] = l
    <3> SUFFICES ASSUME NEW l \in Lines, ~(ext_attached[l] \subseteq {Ext!None})
                 PROVE  \E s \in 1..ext_nints : ext_ISRlist[s] = l
      OBVIOUS
    <3>1. ext_attached[l] \ {Ext!None} # {}
      OBVIOUS
    <3>2. l # ext_line
      BY <1>b, CoreAssumption DEF InCall, Ext!LinesAssumption
    <3>. QED
      BY <3>1, <3>2, <1>1 DEF IInv, Complete
  <2>. QED
    BY <2>1, <2>2, <1>1 DEF IInv, Distinct
<1>4. Ext!TransactionAlone
  BY <1>b DEF IInv, SpiMasks, Serving, Ext!TransactionAlone, InCall
<1>. QED
  BY <1>2, <1>3, <1>4 DEF IInv

\* attachInterrupt(), detachInterrupt() and EIC_Handler() (WInterrupts.c), with the interrupts masked
\* around each call: every line calls its own callback, the list is exact between calls, no edge is
\* forgotten, and no callback runs within an SPI transaction that excludes it.  For every number of
\* lines and of calls.  Without the mask the first is false.
THEOREM InterruptsAreSound == ASSUME Guarded PROVE Ext!Spec => []InterruptsSound
<1>1. IInv => InterruptsSound
  BY ListIsSound DEF InterruptsSound
<1>. QED
  BY <1>1, Invariance, PTL

-----------------------------------------------------------------------------
(***************************************************************************)
(* Tone.                                                                   *)
(***************************************************************************)
\* The tone that tone() would stop is the one that plays.
Playing ==
  /\ tone_running => tone_firstTimeRunning /\ tone_portPin \in Pins
  /\ tone_running /\ ~tone_stray => tone_toneIsActive /\ tone_lastOutputPin = tone_portPin

\* What is left of the tone and what it has had make the whole.
Counting ==
  tone_running =>
    IF tone_duration > 0
    THEN tone_toggleCount + tone_toggles = Tn!ToggleCount(tone_frequency, tone_duration)
    ELSE tone_toggleCount = -1

\* The types of the variables of tone().
TonesTyped ==
  /\ tone_level \in [Pins -> BOOLEAN] /\ tone_running \in BOOLEAN
  /\ tone_toneIsActive \in BOOLEAN
  /\ tone_toggleCount \in Int /\ tone_toggles \in Nat /\ tone_frequency \in Nat
  /\ tone_duration \in Nat
  /\ tone_portPin \in Pins \cup {"none"}

\* The inductive invariant of tone().
TInv == TonesTyped /\ Playing /\ Counting /\ Tn!OthersLow

\* The number of toggles of a tone is that of its duration, unless the product wraps.
LEMMA Whole ==
  ASSUME NEW f \in Nat, NEW d \in Nat, d > 0
  PROVE  /\ Tn!ToggleCount(f, d) \in Int
         /\ f * d * 2 < Word => Tn!ToggleCount(f, d) = (f * d * 2) \div Second
<1>1. Word \in Nat \ {0} /\ Second \in Nat \ {0}
  BY CoreAssumption DEF Tn!ToneAssumption
<1> DEFINE x == f * d * 2
<1>2. x \in Nat
  OBVIOUS
<1>3. Tn!ToggleCount(f, d) = (x % Word) \div Second
  BY DEF Tn!ToggleCount
<1> HIDE DEF x
<1>4. x % Word \in Nat
  BY <1>1, <1>2
<1>5. (x % Word) \div Second \in Int
  BY <1>1, <1>4
<1>6. x < Word => x % Word = x
  BY <1>1, <1>2
<1>. QED
  BY <1>3, <1>5, <1>6 DEF x

\* Before the first tone the invariant holds.
LEMMA TonesInitially == Tn!Init => TInv
<1>1. Tn!Init => TonesTyped
  <2>1. Tn!Init => tone_running \in BOOLEAN /\ tone_toneIsActive \in BOOLEAN
    BY Zenon DEF Tn!Init
  <2>. QED
    BY <2>1 DEF Tn!Init, TonesTyped
<1>. QED
  BY <1>1 DEF Tn!Init, TInv, Playing, Counting, Tn!OthersLow

\* noTone() keeps the invariant.
LEMMA noToneStep ==
  ASSUME TInv, NEW p \in Pins, Tn!noTone(p)
  PROVE  TInv'
<1>1. CASE tone_firstTimeRunning
  <2>0. /\ tone_running' = FALSE /\ tone_level' = [tone_level EXCEPT ![p] = FALSE]
        /\ tone_toneIsActive' = FALSE
        /\ tone_stray' = (tone_stray \/ (tone_running /\ p # tone_portPin))
        /\ UNCHANGED <<tone_portPin, tone_toggleCount, tone_toggles, tone_frequency,
                       tone_duration>>
    BY <1>1 DEF Tn!noTone, Tn!Low
  <2>1. tone_running' \in BOOLEAN /\ tone_toneIsActive' \in BOOLEAN
    BY Zenon, <2>0
  <2>2. ~tone_stray' => ~tone_stray /\ (tone_running => p = tone_portPin)
    BY Zenon, <2>0
  <2>3. TonesTyped' /\ Playing' /\ Counting'
    BY <2>0, <2>1 DEF TInv, TonesTyped, Playing, Counting
  <2>4. Tn!OthersLow'
    BY <2>0, <2>2 DEF TInv, TonesTyped, Tn!OthersLow
  <2>. QED
    BY <2>3, <2>4 DEF TInv
<1>2. CASE ~tone_firstTimeRunning
  <2>0. UNCHANGED <<tone_level, tone_running, tone_toneIsActive, tone_stray, tone_portPin,
                    tone_lastOutputPin, tone_firstTimeRunning,
                    tone_toggleCount, tone_toggles, tone_frequency, tone_duration>>
    BY <1>2 DEF Tn!noTone
  <2>1. TonesTyped' /\ Playing'
    BY <2>0 DEF TInv, TonesTyped, Playing
  <2>2. Counting' /\ Tn!OthersLow'
    BY <2>0 DEF TInv, Counting, Tn!OthersLow, Tn!ToggleCount
  <2>. QED
    BY <2>1, <2>2 DEF TInv
<1>. QED
  BY <1>1, <1>2

\* tone() keeps the invariant: it stops the tone of another pin before it starts its own.
LEMMA toneStep ==
  ASSUME TInv, NEW p \in Pins, NEW f \in Nat, NEW d \in Nat, Tn!tone(p, f, d)
  PROVE  TInv'
<1>0. /\ tone_firstTimeRunning' = TRUE /\ tone_toggleCount' = Tn!ToggleCount(f, d)
      /\ tone_portPin' = p
      /\ tone_running' = TRUE /\ tone_frequency' = f /\ tone_duration' = d /\ tone_toggles' = 0
      /\ tone_lastOutputPin' = p
      /\ p # tone_lastOutputPin
             => tone_toneIsActive' = TRUE /\ tone_level' = Tn!Low(Tn!StopLast(p), p)
      /\ p = tone_lastOutputPin => UNCHANGED <<tone_toneIsActive, tone_level>>
      /\ tone_stray' = (tone_stray \/ (p = tone_lastOutputPin /\ ~tone_toneIsActive))
  BY DEF Tn!tone
<1>1. ~tone_stray' => ~tone_stray /\ (p = tone_lastOutputPin => tone_toneIsActive)
  BY Zenon, <1>0
<1>2. tone_running' \in BOOLEAN /\ tone_toneIsActive' \in BOOLEAN
  BY Zenon, <1>0 DEF TInv, TonesTyped
<1>3. Tn!StopLast(p) \in [Pins -> BOOLEAN] /\ tone_level' \in [Pins -> BOOLEAN]
  BY <1>0 DEF Tn!StopLast, Tn!Low, TInv, TonesTyped
<1>4. tone_toggleCount' \in Int /\ (d = 0 => tone_toggleCount' = -1)
  BY <1>0, Whole DEF Tn!ToggleCount
<1>5. TonesTyped'
  BY <1>0, <1>2, <1>3, <1>4 DEF TonesTyped
<1>6. Playing'
  BY <1>0, <1>1 DEF Playing
<1>7. Counting'
  <2>1. tone_duration' > 0
            => tone_toggleCount' + tone_toggles' = Tn!ToggleCount(tone_frequency', tone_duration')
    BY <1>0, <1>4
  <2>2. ~(tone_duration' > 0) => tone_toggleCount' = -1
    BY <1>0, <1>4
  <2>. QED
    BY <2>1, <2>2 DEF Counting, Tn!ToggleCount
<1>8. Tn!OthersLow'
  <2> SUFFICES ASSUME ~tone_stray', NEW q \in Pins, tone_level'[q] PROVE q = p
    BY <1>0 DEF Tn!OthersLow
  <2>1. \A r \in Pins : tone_level[r] => r = tone_lastOutputPin /\ tone_toneIsActive
    BY <1>1 DEF TInv, Tn!OthersLow, Playing
  <2>2. CASE p = tone_lastOutputPin
    BY <2>1, <2>2, <1>0
  <2>3. CASE p # tone_lastOutputPin
    BY <2>1, <2>3, <1>0 DEF Tn!StopLast, Tn!Low, TInv, TonesTyped
  <2>. QED
    BY <2>2, <2>3
<1>. QED
  BY <1>5, <1>6, <1>7, <1>8 DEF TInv

\* The handler of the timer keeps the invariant.
LEMMA Tone_HandlerStep ==
  ASSUME TInv, Tn!Tone_Handler
  PROVE  TInv'
<1>1. CASE Tn!Toggle
  <2>0. /\ tone_running /\ tone_level' = [tone_level EXCEPT ![tone_portPin] = ~@]
        /\ tone_toggleCount' = Tn!Counted
        /\ tone_toggles' = IF tone_toggleCount > 0 THEN tone_toggles + 1 ELSE tone_toggles
        /\ UNCHANGED <<tone_running, tone_portPin, tone_lastOutputPin, tone_toneIsActive,
                       tone_firstTimeRunning, tone_frequency, tone_duration, tone_stray>>
    BY <1>1 DEF Tn!Toggle, Tn!timer, Tn!flags
  <2>1. tone_toggleCount' \in Int /\ tone_toggles' \in Nat
            /\ tone_toggleCount' + tone_toggles' = tone_toggleCount + tone_toggles
        /\ (tone_toggleCount = -1 => tone_toggleCount' = -1)
    BY <2>0 DEF TInv, TonesTyped, Tn!Counted
  <2>2. tone_level' \in [Pins -> BOOLEAN]
            /\ \A q \in Pins \ {tone_portPin} : tone_level'[q] = tone_level[q]
    BY <2>0 DEF TInv, TonesTyped
  <2>3. TonesTyped' /\ Playing' /\ Tn!OthersLow'
    BY <2>0, <2>1, <2>2 DEF TInv, TonesTyped, Playing, Tn!OthersLow
  <2>4. Counting'
    <3>1. Tn!ToggleCount(tone_frequency, tone_duration)' = Tn!ToggleCount(tone_frequency, tone_duration)
      BY <2>0 DEF Tn!ToggleCount
    <3> HIDE DEF Tn!Counted
    <3>. QED
      BY <2>0, <2>1, <3>1 DEF TInv, Counting
  <2>. QED
    BY <2>3, <2>4 DEF TInv
<1>2. CASE Tn!Stop
  <2>0. /\ tone_running' = FALSE /\ tone_level' = [tone_level EXCEPT ![tone_portPin] = FALSE]
        /\ tone_toneIsActive' = FALSE
        /\ UNCHANGED <<tone_portPin, tone_lastOutputPin, tone_firstTimeRunning, tone_toggleCount,
                       tone_frequency, tone_duration, tone_toggles, tone_stray>>
        /\ tone_running
    BY <1>2 DEF Tn!Stop, Tn!Low, Tn!history
  <2>1. tone_running' \in BOOLEAN /\ tone_toneIsActive' \in BOOLEAN
    BY Zenon, <2>0
  <2>2. TonesTyped' /\ Playing' /\ Counting'
    BY <2>0, <2>1 DEF TInv, TonesTyped, Playing, Counting
  <2>3. Tn!OthersLow'
    BY <2>0 DEF TInv, TonesTyped, Playing, Tn!OthersLow
  <2>. QED
    BY <2>2, <2>3 DEF TInv
<1>. QED
  BY <1>1, <1>2 DEF Tn!Tone_Handler

\* A step of anything else keeps the invariant.
LEMMA TonesStutter == ASSUME TInv, UNCHANGED Tn!vars PROVE TInv'
<1>0. UNCHANGED <<tone_level, tone_running, tone_toneIsActive, tone_stray, tone_portPin,
                  tone_lastOutputPin, tone_firstTimeRunning,
                  tone_toggleCount, tone_toggles, tone_frequency, tone_duration>>
  BY DEF Tn!vars, Tn!timer, Tn!flags, Tn!history
<1>1. TonesTyped' /\ Playing'
  BY <1>0 DEF TInv, TonesTyped, Playing
<1>2. Counting' /\ Tn!OthersLow'
  BY <1>0 DEF TInv, Counting, Tn!OthersLow, Tn!ToggleCount
<1>. QED
  BY <1>1, <1>2 DEF TInv

\* The inductive invariant holds of every behaviour.
THEOREM ToneInvariance == Tn!Spec => []TInv
<1>0. Frequencies \subseteq Nat /\ Durations \subseteq Nat
  BY CoreAssumption DEF Tn!ToneAssumption
<1>1. ASSUME TInv, [Tn!Next]_Tn!vars PROVE TInv'
  BY <1>0, <1>1, noToneStep, toneStep, Tone_HandlerStep, TonesStutter
     DEF Tn!Next, Tn!CallTone, Tn!CallNoTone
<1>. QED
  BY <1>1, TonesInitially, PTL DEF Tn!Spec

\* When the handler ends a tone, it has had every toggle of its duration, and its pin is low.
LEMMA StopsWhole ==
  ASSUME TInv, Tn!Stop, tone_frequency * tone_duration * 2 < Word
  PROVE  tone_toggles = (tone_frequency * tone_duration * 2) \div Second /\ ~tone_level'[tone_portPin]
<1>0. /\ tone_running /\ tone_toggleCount = 0
      /\ tone_level' = [tone_level EXCEPT ![tone_portPin] = FALSE]
      /\ tone_portPin \in Pins /\ tone_level \in [Pins -> BOOLEAN] /\ tone_toggles \in Nat
      /\ tone_frequency \in Nat /\ tone_duration \in Nat
  BY DEF Tn!Stop, Tn!Low, TInv, Playing, TonesTyped
<1>1. tone_duration > 0
          /\ tone_toggleCount + tone_toggles = Tn!ToggleCount(tone_frequency, tone_duration)
  BY <1>0 DEF TInv, Counting
<1>2. Tn!ToggleCount(tone_frequency, tone_duration) = (tone_frequency * tone_duration * 2) \div Second
  BY <1>0, <1>1, Whole
<1>. QED
  BY <1>0, <1>1, <1>2

-----------------------------------------------------------------------------
(***************************************************************************)
(* The time.                                                               *)
(***************************************************************************)
\* The ticks there have been at a time: one whenever the counter has reached 0.
TicksBy(t) == (t + 1) \div Tick

\* The tick whose handler runs is in neither the flag nor the count.
Entered == IF mi_systick = "entered" THEN 1 ELSE 0

\* What a handler of a higher priority cannot see: the tick whose handler it has preempted.
Late == IF mi_caller = "handler" THEN Entered ELSE 0

\* The count of the ticks, the one that is pending and the one being handled are those of the time.
Ticked == mi_ulTickCount = (TicksBy(mi_now) - mi_PENDST - Entered) % CounterWord

\* Which caller is at which step, and whether delay() is on.
TimeFlow ==
  /\ mi_caller = "none" => mi_pc = "ticks" /\ mi_first
  /\ mi_caller = "masked" => mi_systick = "idle"
  /\ mi_pc = "test" => ~mi_first
  /\ mi_delaying # "no" /\ mi_caller # "none" => mi_caller = "sketch"
  /\ mi_delaying = "start" => mi_ms = mi_asked /\ mi_caller = "sketch"
  /\ mi_delaying # "no" => "sketch" \in Callers

\* The last reading of the counter was that of time a, at or after s, and at most d clocks of the
\* reader's own ago.
LastTicks(s, a, d) == s <= a /\ a < mi_now /\ mi_now - a <= d + mi_stolen /\ mi_ticks2 = Mi!VAL(a)

\* The last reading of the flag, with the count that is still to be read, makes the k ticks of a
\* time between a and now.
LastPend(a, k) ==
  /\ TicksBy(a) <= k /\ k * Tick <= mi_now
  /\ IF mi_caller = "sketch" THEN mi_pend2 = 0
     ELSE (mi_ulTickCount + mi_pend2) % CounterWord = (k - Late) % CounterWord

\* The last reading of flag and count makes the k ticks of a time between a and now.
LastWhole(a, k) ==
  /\ TicksBy(a) <= k /\ k * Tick <= mi_now
  /\ (mi_count2 + mi_pend2) % CounterWord = (k - Late) % CounterWord

\* The reading before was that of time a and of k ticks.
FirstRead(s, a, k, d) ==
  /\ s <= a /\ a < mi_now /\ mi_now - a <= d + mi_stolen /\ mi_ticks = Mi!VAL(a)
  /\ TicksBy(a) <= k
  /\ (mi_count + mi_pend) % CounterWord = (k - Late) % CounterWord

\* The times there have been.
Past == 0..mi_now

\* The reading before ended, at its k ticks, by time x.
ReadEarlier(s, d, x) ==
  \E a \in Past, k \in 0..mi_now + 1 : FirstRead(s, a, k, d) /\ k * Tick <= x

\* What the readings are when the counter is to be read again,
AtTicks(s) == \E a \in Past, k \in 0..mi_now + 1 : LastTicks(s, a, 3) /\ LastWhole(a, k)

\* when the flag is to be read,
AtPend(s) == \E a \in Past : LastTicks(s, a, 1) /\ (~mi_first => ReadEarlier(s, 4, a))

\* when the count is to be read,
AtCount(s) ==
  \E a \in Past, k \in 0..mi_now + 1 :
    LastTicks(s, a, 2) /\ LastPend(a, k) /\ (~mi_first => ReadEarlier(s, 5, a))

\* and when the two readings are compared: the first ended before the second began.
AtTest(s) ==
  \E a \in Past, k \in 0..mi_now + 1 :
    LastTicks(s, a, 3) /\ LastWhole(a, k) /\ ReadEarlier(s, 6, a)

\* Everything micros() has read, it has read at s or later.
ReadsSince(s) ==
  /\ mi_pc = "ticks" /\ ~mi_first => AtTicks(s)
  /\ mi_pc = "pend" => AtPend(s)
  /\ mi_pc = "count" => AtCount(s)
  /\ mi_pc = "test" => AtTest(s)

\* start stands for the time s, and delay() has counted down by no more than had passed then.
DelaySince(s) ==
  /\ mi_called <= s
  /\ mi_delaying = "loop"
         => /\ mi_start = Mi!Us(s) % CounterWord
            /\ Mi!Us(mi_called) + (mi_asked - mi_ms) * MicrosPerMs <= Mi!Us(s)

\* The inductive invariant of the time.
TimeInv == Mi!TypeOK /\ Ticked /\ TimeFlow /\ \E s \in Past : DelaySince(s) /\ ReadsSince(s)

\* Quotient and remainder of a whole number.
LEMMA DivMod ==
  ASSUME NEW x \in Int, NEW n \in Nat \ {0}
  PROVE  /\ x \div n \in Int /\ x % n \in 0..n - 1
         /\ x = n * (x \div n) + (x % n)
  OBVIOUS

\* A multiple of n between -n and n is 0.
LEMMA SmallMultiple ==
  ASSUME NEW n \in Nat \ {0}, NEW u \in Int, n * u < n, -n < n * u
  PROVE  u = 0
<1>1. CASE u >= 1
  <2>1. n * u = n + n * (u - 1)
    OBVIOUS
  <2>2. n * (u - 1) >= 0
    BY <1>1
  <2>. QED
    BY <2>1, <2>2
<1>2. CASE u <= -1
  <2>1. n * u = -n + n * (u + 1)
    OBVIOUS
  <2>2. n * (u + 1) <= 0
    BY <1>2
  <2>. QED
    BY <2>1, <2>2
<1>. QED
  BY <1>1, <1>2

\* There is one quotient and one remainder.
LEMMA DivModUnique ==
  ASSUME NEW n \in Nat \ {0}, NEW q \in Int, NEW r \in 0..n - 1
  PROVE  (n * q + r) % n = r /\ (n * q + r) \div n = q
<1> DEFINE x == n * q + r
<1>0. x \in Int
  OBVIOUS
<1>1. /\ x \div n \in Int /\ x % n \in 0..n - 1
      /\ x = n * (x \div n) + (x % n)
  BY <1>0, DivMod
<1> DEFINE d == x \div n
<1> DEFINE e == x % n
<1> HIDE DEF d, e
<1>2. n * q + r = n * d + e /\ d \in Int /\ e \in 0..n - 1
  BY <1>1 DEF d, e
<1>3. n * (q - d) = e - r
  BY <1>2
<1>4. q - d = 0
  BY <1>2, <1>3, SmallMultiple
<1>. QED
  BY <1>2, <1>4 DEF d, e

\* A multiple of n more has the same remainder,
LEMMA ModShift ==
  ASSUME NEW n \in Nat \ {0}, NEW x \in Int, NEW m \in Int
  PROVE  (x + n * m) % n = x % n
<1>1. /\ x \div n \in Int /\ x % n \in 0..n - 1
      /\ x = n * (x \div n) + (x % n)
  BY DivMod
<1> DEFINE d == x \div n
<1> DEFINE e == x % n
<1> HIDE DEF d, e
<1>2. x = n * d + e /\ d \in Int /\ e \in 0..n - 1
  BY <1>1 DEF d, e
<1>3. x + n * m = n * (d + m) + e
  BY <1>2
<1>4. (n * (d + m) + e) % n = e
  BY <1>2, DivModUnique
<1>. QED
  BY <1>3, <1>4 DEF e

\* and only a multiple of n more.
LEMMA SameRemainder ==
  ASSUME NEW n \in Nat \ {0}, NEW x \in Int, NEW y \in Int, x % n = y % n
  PROVE  \E m \in Int : x = y + n * m
<1>1. /\ x \div n \in Int /\ x = n * (x \div n) + (x % n)
      /\ y \div n \in Int /\ y = n * (y \div n) + (y % n) /\ y % n \in Int
  BY DivMod
<1> DEFINE d == x \div n
<1> DEFINE e == y \div n
<1> DEFINE g == y % n
<1> HIDE DEF d, e, g
<1>2. d \in Int /\ e \in Int /\ x = n * d + g /\ y = n * e + g /\ g \in Int
  BY <1>1 DEF d, e, g
<1>3. n * (d - e) = n * d - n * e
  BY <1>2
<1>4. x = y + n * (d - e) /\ d - e \in Int
  BY <1>2, <1>3
<1>. QED
  BY <1>4

\* A sum that wraps can wrap before it is added to,
LEMMA AddedRemainder ==
  ASSUME NEW n \in Nat \ {0}, NEW x \in Int, NEW z \in Int
  PROVE  ((x % n) + z) % n = (x + z) % n
<1>1. /\ x \div n \in Int /\ x % n \in Int /\ x = n * (x \div n) + (x % n)
  BY DivMod
<1> DEFINE d == x \div n
<1> DEFINE e == x % n
<1> HIDE DEF d, e
<1>2. d \in Int /\ e \in Int /\ x + z = (e + z) + n * d
  BY <1>1 DEF d, e
<1>3. ((e + z) + n * d) % n = (e + z) % n
  <2> DEFINE u == e + z
  <2>1. u \in Int
    BY <1>2
  <2> HIDE DEF u
  <2>2. (u + n * d) % n = u % n
    BY <2>1, <1>2, ModShift
  <2>. QED
    BY <2>2 DEF u
<1>. QED
  BY <1>2, <1>3 DEF e

\* and so can a difference.
LEMMA SubtractedRemainder ==
  ASSUME NEW n \in Nat \ {0}, NEW x \in Int, NEW y \in Int
  PROVE  ((x % n) - (y % n)) % n = (x - y) % n
<1>1. /\ x \div n \in Int /\ x % n \in Int /\ x = n * (x \div n) + (x % n)
      /\ y \div n \in Int /\ y % n \in Int /\ y = n * (y \div n) + (y % n)
  BY DivMod
<1> DEFINE d == x \div n
<1> DEFINE e == x % n
<1> DEFINE g == y \div n
<1> DEFINE h == y % n
<1> HIDE DEF d, e, g, h
<1>2. d \in Int /\ e \in Int /\ g \in Int /\ h \in Int /\ x - y = (e - h) + n * (d - g)
  BY <1>1 DEF d, e, g, h
<1>3. ((e - h) + n * (d - g)) % n = (e - h) % n
  <2> DEFINE u == e - h
  <2> DEFINE v == d - g
  <2>1. u \in Int /\ v \in Int
    BY <1>2
  <2> HIDE DEF u, v
  <2>2. (u + n * v) % n = u % n
    BY <2>1, ModShift
  <2>. QED
    BY <2>2 DEF u, v
<1>. QED
  BY <1>2, <1>3 DEF e, h

\* What is assumed of the timer and the callers.
LEMMA TimeParameters ==
  /\ Tick \in Nat \ {0} /\ Tick > 1 /\ CounterWord \in Nat \ {0} /\ MaxTime \in Nat
  /\ MaxStolen \in Nat
  /\ Delays \subseteq Nat /\ Callers \subseteq {"sketch", "masked", "handler"}
  /\ MaxStolen + 6 <= CounterWord
  BY CoreAssumption DEF Mi!MicrosAssumption

\* The ticks of a time make at most the time, and lack less than one of it.
LEMMA TicksBounds ==
  ASSUME NEW t \in Nat
  PROVE  TicksBy(t) \in Nat /\ TicksBy(t) * Tick <= t + 1 /\ t + 1 < TicksBy(t) * Tick + Tick
<1>1. Tick \in Nat \ {0}
  BY TimeParameters
<1>2. /\ (t + 1) \div Tick \in Int /\ (t + 1) % Tick \in 0..Tick - 1
      /\ t + 1 = Tick * ((t + 1) \div Tick) + ((t + 1) % Tick)
  BY <1>1, DivMod
<1> DEFINE q == (t + 1) \div Tick
<1> DEFINE r == (t + 1) % Tick
<1> HIDE DEF q, r
<1>3. q \in Int /\ r \in 0..Tick - 1 /\ t + 1 = Tick * q + r /\ TicksBy(t) = q
  BY <1>2 DEF q, r, TicksBy
<1>4. q >= 0
  <2> SUFFICES ASSUME q <= -1 PROVE FALSE
    BY <1>3
  <2>1. Tick * q = -Tick + Tick * (q + 1) /\ Tick * (q + 1) <= 0
    BY <1>1, <1>3
  <2>. QED
    BY <2>1, <1>3, <1>1
<1>. QED
  BY <1>1, <1>3, <1>4

\* A clock makes a tick exactly if the counter reaches 0.
LEMMA TicksStep ==
  ASSUME NEW t \in Nat
  PROVE  TicksBy(t + 1) = IF Mi!VAL(t + 1) = 0 THEN TicksBy(t) + 1 ELSE TicksBy(t)
<1>1. Tick \in Nat \ {0}
  BY TimeParameters
<1>2. /\ (t + 1) \div Tick \in Int /\ (t + 1) % Tick \in 0..Tick - 1
      /\ t + 1 = Tick * ((t + 1) \div Tick) + ((t + 1) % Tick)
  BY <1>1, DivMod
<1> DEFINE q == (t + 1) \div Tick
<1> DEFINE r == (t + 1) % Tick
<1> HIDE DEF q, r
<1>3. /\ q \in Int /\ r \in 0..Tick - 1 /\ t + 1 = Tick * q + r /\ TicksBy(t) = q
      /\ Mi!VAL(t + 1) = Tick - 1 - r
  BY <1>2 DEF q, r, TicksBy, Mi!VAL
<1>4. CASE r = Tick - 1
  <2>1. t + 1 + 1 = Tick * (q + 1) + 0
    BY <1>1, <1>3, <1>4
  <2>2. (Tick * (q + 1) + 0) \div Tick = q + 1
    BY <1>1, <1>3, DivModUnique
  <2>. QED
    BY <2>1, <2>2, <1>1, <1>3, <1>4 DEF TicksBy
<1>5. CASE r # Tick - 1
  <2>1. t + 1 + 1 = Tick * q + (r + 1) /\ r + 1 \in 0..Tick - 1
    BY <1>1, <1>3, <1>5
  <2>2. (Tick * q + (r + 1)) \div Tick = q
    BY <1>1, <1>3, <2>1, DivModUnique
  <2>. QED
    BY <2>1, <2>2, <1>1, <1>3, <1>5 DEF TicksBy
<1>. QED
  BY <1>4, <1>5

\* Ticks that end by x are no more than those that do not end before it.
LEMMA Ordered ==
  ASSUME NEW k \in Int, NEW j \in Int, NEW x \in Int, k * Tick <= x, x < j * Tick + Tick
  PROVE  k <= j
<1>1. Tick \in Nat \ {0}
  BY TimeParameters
<1> SUFFICES ASSUME k >= j + 1 PROVE FALSE
  OBVIOUS
<1>2. k * Tick = j * Tick + Tick + (k - j - 1) * Tick
  BY <1>1
<1>3. (k - j - 1) * Tick >= 0
  BY <1>1
<1>. QED
  BY <1>1, <1>2, <1>3

\* There are not fewer ticks later.
LEMMA TicksMonotone ==
  ASSUME NEW a \in Nat, NEW b \in Nat, a <= b
  PROVE  TicksBy(a) <= TicksBy(b)
<1>1. /\ TicksBy(a) \in Nat /\ TicksBy(b) \in Nat /\ TicksBy(a) * Tick <= a + 1
      /\ b + 1 < TicksBy(b) * Tick + Tick
  BY TicksBounds
<1> DEFINE j == TicksBy(a)
<1> DEFINE k == TicksBy(b)
<1> HIDE DEF j, k
<1>2. j \in Nat /\ k \in Nat /\ j * Tick <= b + 1 /\ b + 1 < k * Tick + Tick
  <2>1. j \in Nat /\ k \in Nat /\ j * Tick <= a + 1 /\ b + 1 < k * Tick + Tick
    BY <1>1 DEF j, k
  <2>. QED
    BY <2>1, TimeParameters
<1>3. j <= k
  BY <1>2, Ordered
<1>. QED
  BY <1>3 DEF j, k

\* A clock keeps the count of the ticks right: the tick it makes is pending.
LEMMA ClockStep ==
  ASSUME Mi!TypeOK, Ticked, Mi!Clock, UNCHANGED <<mi_ulTickCount, mi_systick>>
  PROVE  Ticked' /\ mi_now' = mi_now + 1 /\ mi_now' \in 0..MaxTime /\ mi_PENDST' \in 0..1
<1>0. MaxTime \in Nat /\ mi_now \in Nat /\ mi_PENDST \in 0..1
  BY TimeParameters DEF Mi!TypeOK
<1>1. mi_now' = mi_now + 1 /\ mi_now' \in 0..MaxTime
  BY <1>0 DEF Mi!Clock, Mi!TypeOK
<1>2. TicksBy(mi_now') = IF Mi!VAL(mi_now') = 0 THEN TicksBy(mi_now) + 1 ELSE TicksBy(mi_now)
  BY <1>0, <1>1, TicksStep
<1>3. TicksBy(mi_now) \in Nat
  BY <1>0, TicksBounds
<1>4. /\ mi_PENDST' \in 0..1
      /\ TicksBy(mi_now') - mi_PENDST' = TicksBy(mi_now) - mi_PENDST
  BY <1>0, <1>2, <1>3 DEF Mi!Clock
<1>5. Entered' = Entered
  BY DEF Entered
<1>6. Ticked'
  <2>1. (TicksBy(mi_now) - mi_PENDST - Entered)' = TicksBy(mi_now) - mi_PENDST - Entered
    BY <1>4, <1>5
  <2>. QED
    BY <2>1 DEF Ticked
<1>. QED
  BY <1>1, <1>4, <1>6

\* What others take from a reading is counted.
LEMMA Elapsed ==
  ASSUME NEW a \in Nat, NEW n \in Nat, NEW m \in Nat, NEW u \in Nat, NEW v \in Nat, NEW d \in Nat,
         m - n <= v - u, n - a <= d + u
  PROVE  m - a <= d + v
  OBVIOUS

\* The bounds of the ticks grow with the time.
LEMMA Later ==
  ASSUME NEW n \in Nat, NEW m \in Nat, n <= m, NEW k \in 0..n + 1
  PROVE  k \in Int /\ k \in 0..m + 1
  OBVIOUS

\* What is known of the readings stays true while others run and nothing is read.
LEMMA ReadsKept ==
  ASSUME Mi!TypeOK, TimeFlow, NEW s \in Past, ReadsSince(s), DelaySince(s),
         mi_now' \in Nat, mi_now <= mi_now', mi_stolen' \in Nat,
         mi_caller # "none" => mi_now' - mi_now <= mi_stolen' - mi_stolen /\ Late' = Late,
         mi_caller \notin {"none", "sketch"} => mi_ulTickCount' = mi_ulTickCount,
         UNCHANGED <<mi_caller, mi_pc, mi_first, Mi!reading, Mi!last, Mi!delay, Mi!history>>
  PROVE  s \in Past' /\ DelaySince(s)' /\ ReadsSince(s)'
<1>0. s \in Past' /\ DelaySince(s)'
  BY DEF Mi!TypeOK, Past, DelaySince, Mi!delay, Mi!history
<1>a. mi_now \in Nat /\ mi_stolen \in Nat
  BY TimeParameters DEF Mi!TypeOK
<1>b. /\ mi_caller' = mi_caller /\ mi_pc' = mi_pc /\ mi_first' = mi_first /\ mi_ticks' = mi_ticks
      /\ mi_pend' = mi_pend
      /\ mi_count' = mi_count /\ mi_ticks2' = mi_ticks2 /\ mi_pend2' = mi_pend2
      /\ mi_count2' = mi_count2
  BY DEF Mi!reading, Mi!last
<1>1. CASE mi_caller = "none"
  <2>1. mi_pc = "ticks" /\ mi_first
    BY Zenon, <1>1 DEF TimeFlow
  <2>2. mi_pc' = "ticks" /\ mi_first'
    BY <2>1, <1>b
  <2>3. ReadsSince(s)'
    BY Zenon, <2>2 DEF ReadsSince
  <2>. QED
    BY <1>0, <2>3
<1>2. CASE mi_caller # "none"
  <2>0. /\ mi_now' - mi_now <= mi_stolen' - mi_stolen /\ Late' = Late /\ mi_now \in Nat
        /\ mi_stolen \in Nat
        /\ mi_caller' = mi_caller /\ mi_pc' = mi_pc /\ mi_first' = mi_first
        /\ mi_ticks' = mi_ticks /\ mi_pend' = mi_pend
        /\ mi_count' = mi_count /\ mi_ticks2' = mi_ticks2 /\ mi_pend2' = mi_pend2
        /\ mi_count2' = mi_count2
    BY <1>2, <1>a, <1>b
  <2>e. \A a \in Past, d \in Nat :
          /\ a \in Past' /\ a \in Nat /\ (a < mi_now => a < mi_now')
          /\ (mi_now - a <= d + mi_stolen => mi_now' - a <= d + mi_stolen')
    <3> SUFFICES ASSUME NEW a \in Past, NEW d \in Nat
                 PROVE  /\ a \in Past' /\ a \in Nat /\ (a < mi_now => a < mi_now')
                        /\ (mi_now - a <= d + mi_stolen => mi_now' - a <= d + mi_stolen')
      OBVIOUS
    <3>1. a \in Nat /\ a \in Past' /\ (a < mi_now => a < mi_now')
      BY <2>0 DEF Past
    <3>2. mi_now - a <= d + mi_stolen => mi_now' - a <= d + mi_stolen'
      BY <2>0, <3>1, Elapsed
    <3>. QED
      BY <3>1, <3>2
  <2>v. \A a \in Nat : Mi!VAL(a)' = Mi!VAL(a) /\ TicksBy(a)' = TicksBy(a)
    BY DEF Mi!VAL, TicksBy
  <2>k. \A k \in 0..mi_now + 1 : k \in 0..mi_now' + 1 /\ (k * Tick <= mi_now
            => k * Tick <= mi_now')
    <3> SUFFICES ASSUME NEW k \in 0..mi_now + 1
                 PROVE  k \in 0..mi_now' + 1 /\ (k * Tick <= mi_now => k * Tick <= mi_now')
      OBVIOUS
    <3>0. k \in Int /\ k \in 0..mi_now' + 1
      BY <2>0, Later
    <3>1. k * Tick \in Int
      BY <3>0, TimeParameters
    <3> DEFINE x == k * Tick
    <3> HIDE DEF x
    <3>2. x \in Int => (x <= mi_now => x <= mi_now')
      BY <2>0
    <3>. QED
      BY <3>0, <3>1, <3>2 DEF x
  <2>1. ASSUME NEW a \in Past, NEW d \in Nat, LastTicks(s, a, d)
        PROVE  a \in Past' /\ LastTicks(s, a, d)'
    <3>1. s <= a /\ a < mi_now /\ mi_now - a <= d + mi_stolen /\ mi_ticks2 = Mi!VAL(a)
      BY <2>1 DEF LastTicks
    <3>2. s <= a /\ a < mi_now' /\ mi_now' - a <= d + mi_stolen' /\ mi_ticks2' = Mi!VAL(a)'
              /\ a \in Past'
      BY <3>1, <2>0, <2>e, <2>v
    <3>. QED
      BY <3>2 DEF LastTicks
  <2>2. ASSUME NEW a \in Past, NEW k \in 0..mi_now + 1, NEW d \in Nat, FirstRead(s, a, k, d)
        PROVE  k \in 0..mi_now' + 1 /\ a \in Past' /\ FirstRead(s, a, k, d)'
    <3>1. /\ s <= a /\ a < mi_now /\ mi_now - a <= d + mi_stolen /\ mi_ticks = Mi!VAL(a)
          /\ TicksBy(a) <= k
          /\ (mi_count + mi_pend) % CounterWord = (k - Late) % CounterWord
      BY <2>2 DEF FirstRead
    <3>2. s <= a /\ a < mi_now' /\ mi_now' - a <= d + mi_stolen' /\ mi_ticks' = Mi!VAL(a)'
              /\ a \in Past' /\ TicksBy(a)' <= k
      BY <3>1, <2>0, <2>e, <2>v
    <3>3. (mi_count' + mi_pend') % CounterWord = (k - Late') % CounterWord
      BY <3>1, <2>0
    <3>. QED
      BY <2>k, <3>2, <3>3 DEF FirstRead
  <2>4. ASSUME NEW a \in Past, NEW k \in 0..mi_now + 1, LastWhole(a, k)
        PROVE  k \in 0..mi_now' + 1 /\ LastWhole(a, k)'
    <3>1. TicksBy(a) <= k /\ k * Tick <= mi_now
              /\ (mi_count2 + mi_pend2) % CounterWord = (k - Late) % CounterWord
      BY <2>4 DEF LastWhole
    <3>2. TicksBy(a)' <= k /\ k * Tick <= mi_now' /\ k \in 0..mi_now' + 1
      BY <3>1, <2>k, <2>e, <2>v
    <3>3. (mi_count2' + mi_pend2') % CounterWord = (k - Late') % CounterWord
      BY <3>1, <2>0
    <3>. QED
      BY <3>2, <3>3 DEF LastWhole
  <2>5. ASSUME NEW a \in Past, NEW k \in 0..mi_now + 1, LastPend(a, k)
        PROVE  k \in 0..mi_now' + 1 /\ LastPend(a, k)'
    <3>1. /\ TicksBy(a) <= k /\ k * Tick <= mi_now
          /\ IF mi_caller = "sketch" THEN mi_pend2 = 0
             ELSE (mi_ulTickCount + mi_pend2) % CounterWord = (k - Late) % CounterWord
      BY <2>5 DEF LastPend
    <3>2. TicksBy(a)' <= k /\ k * Tick <= mi_now' /\ k \in 0..mi_now' + 1
      BY <3>1, <2>k, <2>e, <2>v
    <3>3. IF mi_caller' = "sketch" THEN mi_pend2' = 0
          ELSE (mi_ulTickCount' + mi_pend2') % CounterWord = (k - Late') % CounterWord
      BY <3>1, <1>2, <2>0
    <3>. QED
      BY <3>2, <3>3 DEF LastPend
  <2>6. ASSUME NEW d \in Nat, NEW x \in Int, ReadEarlier(s, d, x) PROVE ReadEarlier(s, d, x)'
    <3>1. PICK a \in Past, k \in 0..mi_now + 1 : FirstRead(s, a, k, d) /\ k * Tick <= x
      BY <2>6 DEF ReadEarlier
    <3>2. k \in 0..mi_now' + 1 /\ a \in Past' /\ FirstRead(s, a, k, d)'
      BY <3>1, <2>2
    <3>. QED
      BY <3>1, <3>2 DEF ReadEarlier
  <2>a. \A a \in Past : a \in Int
    BY <2>0 DEF Past
  <2>7. CASE mi_pc = "ticks"
    <3>2. CASE ~mi_first
      <4>0. AtTicks(s)
        BY Zenon, <2>7, <3>2 DEF ReadsSince
      <4>1. PICK a \in Past, k \in 0..mi_now + 1 : LastTicks(s, a, 3) /\ LastWhole(a, k)
        BY <4>0 DEF AtTicks
      <4>2. a \in Past' /\ LastTicks(s, a, 3)' /\ k \in 0..mi_now' + 1 /\ LastWhole(a, k)'
        BY <4>1, <2>1, <2>4
      <4>3. AtTicks(s)'
        BY <4>2 DEF AtTicks
      <4>. QED
        BY <1>0, <1>b, <2>7, <4>3 DEF ReadsSince
    <3>3. CASE mi_first
      BY <1>0, <1>b, <2>7, <3>3 DEF ReadsSince
    <3>. QED
      BY <3>2, <3>3
  <2>8. CASE mi_pc = "pend"
    <3>0. AtPend(s)
      BY Zenon, <2>8 DEF ReadsSince
    <3>1. PICK a \in Past : LastTicks(s, a, 1) /\ (~mi_first => ReadEarlier(s, 4, a))
      BY <3>0 DEF AtPend
    <3>2. a \in Past' /\ LastTicks(s, a, 1)'
      BY <3>1, <2>1
    <3>3. ~mi_first' => ReadEarlier(s, 4, a)'
      BY <3>1, <2>6, <2>a, <1>b
    <3>4. AtPend(s)'
      BY <3>2, <3>3 DEF AtPend
    <3>. QED
      BY <1>0, <1>b, <2>8, <3>4 DEF ReadsSince
  <2>9. CASE mi_pc = "count"
    <3>0. AtCount(s)
      BY Zenon, <2>9 DEF ReadsSince
    <3>1. PICK a \in Past, k \in 0..mi_now + 1 :
            LastTicks(s, a, 2) /\ LastPend(a, k) /\ (~mi_first => ReadEarlier(s, 5, a))
      BY <3>0 DEF AtCount
    <3>2. a \in Past' /\ LastTicks(s, a, 2)' /\ k \in 0..mi_now' + 1 /\ LastPend(a, k)'
      BY <3>1, <2>1, <2>5
    <3>3. ~mi_first' => ReadEarlier(s, 5, a)'
      BY <3>1, <2>6, <2>a, <1>b
    <3>4. AtCount(s)'
      BY <3>2, <3>3 DEF AtCount
    <3>. QED
      BY <1>0, <1>b, <2>9, <3>4 DEF ReadsSince
  <2>10. CASE mi_pc = "test"
    <3>0. AtTest(s)
      BY Zenon, <2>10 DEF ReadsSince
    <3>1. PICK a \in Past, k \in 0..mi_now + 1 :
            LastTicks(s, a, 3) /\ LastWhole(a, k) /\ ReadEarlier(s, 6, a)
      BY <3>0 DEF AtTest
    <3>2. a \in Past' /\ LastTicks(s, a, 3)' /\ k \in 0..mi_now' + 1 /\ LastWhole(a, k)'
      BY <3>1, <2>1, <2>4
    <3>3. ReadEarlier(s, 6, a)'
      BY <3>1, <2>6, <2>a
    <3>4. AtTest(s)'
      BY <3>2, <3>3 DEF AtTest
    <3>. QED
      BY <1>0, <1>b, <2>10, <3>4 DEF ReadsSince
  <2>. QED
    BY <2>7, <2>8, <2>9, <2>10 DEF Mi!TypeOK
<1>. QED
  BY <1>0, <1>1, <1>2

\* The handler of SysTick, and whatever else runs, keep the invariant.
LEMMA TimeGoesOn ==
  ASSUME TimeInv, Mi!Enter \/ Mi!SysTick_DefaultHandler \/ Mi!Others
  PROVE  TimeInv'
<1>0. /\ Mi!TypeOK /\ Ticked /\ TimeFlow /\ mi_now \in Nat /\ mi_stolen \in Nat
      /\ mi_PENDST \in 0..1
      /\ CounterWord \in Nat \ {0} /\ MaxTime \in Nat /\ MaxStolen \in Nat
      /\ mi_ulTickCount \in 0..CounterWord - 1 /\ TicksBy(mi_now) \in Nat
  BY TimeParameters, TicksBounds DEF TimeInv, Mi!TypeOK
<1>p. PICK s \in Past : DelaySince(s) /\ ReadsSince(s)
  BY DEF TimeInv
<1>f. UNCHANGED <<mi_caller, mi_pc, mi_first, Mi!reading, Mi!last, Mi!delay, Mi!history>>
  BY DEF Mi!Enter, Mi!SysTick_DefaultHandler, Mi!Others, Mi!progress
<1>1. CASE Mi!Enter
  <2>0. /\ mi_PENDST = 1 /\ mi_PENDST' = 0 /\ mi_systick = "idle" /\ mi_systick' = "entered"
        /\ mi_caller \notin {"masked", "handler"} /\ UNCHANGED <<mi_now, mi_ulTickCount,
                                                                 mi_stolen>>
    BY <1>1 DEF Mi!Enter, Mi!progress
  <2>1. (TicksBy(mi_now) - mi_PENDST - Entered)' = TicksBy(mi_now) - mi_PENDST - Entered
    BY <2>0, <1>0 DEF Entered
  <2>2. Ticked'
    BY <2>0, <2>1, <1>0 DEF Ticked
  <2>3. Mi!TypeOK' /\ TimeFlow'
    BY <2>0, <1>0, <1>f DEF Mi!TypeOK, TimeFlow, Mi!reading, Mi!last, Mi!delay, Mi!history
  <2>4. Late' = Late
    BY <2>0, <1>f DEF Late
  <2>5. s \in Past' /\ DelaySince(s)' /\ ReadsSince(s)'
    BY <1>0, <1>p, <1>f, <2>0, <2>4, ReadsKept
  <2>. QED
    BY <2>2, <2>3, <2>5 DEF TimeInv
<1>2. CASE Mi!SysTick_DefaultHandler
  <2>0. /\ mi_systick = "entered" /\ mi_systick' = "idle" /\ mi_caller # "handler"
        /\ mi_caller # "masked"
        /\ mi_ulTickCount' = (mi_ulTickCount + 1) % CounterWord /\ UNCHANGED <<mi_now, mi_PENDST,
                                                                               mi_stolen>>
    BY <1>0, <1>2 DEF Mi!SysTick_DefaultHandler, Mi!timer, Mi!progress, TimeFlow
  <2>1. (TicksBy(mi_now) - mi_PENDST - Entered)' = TicksBy(mi_now) - mi_PENDST /\ Entered = 1
    BY <2>0, <1>0 DEF Entered
  <2>2. Ticked'
    <3> DEFINE x == TicksBy(mi_now) - mi_PENDST - 1
    <3>1. x \in Int /\ x + 1 = TicksBy(mi_now) - mi_PENDST
      BY <1>0
    <3>2. mi_ulTickCount = x % CounterWord
      BY <1>0, <2>1 DEF Ticked
    <3> HIDE DEF x
    <3>4. \A z \in Int : ((x % CounterWord) + z) % CounterWord = (x + z) % CounterWord
      BY <1>0, <3>1, AddedRemainder
    <3>3. ((x % CounterWord) + 1) % CounterWord = (x + 1) % CounterWord
      BY <3>4
    <3>. QED
      BY <3>1, <3>2, <3>3, <2>0, <2>1 DEF Ticked
  <2>a. mi_ulTickCount' \in 0..CounterWord - 1
    BY <2>0, <1>0
  <2>3. Mi!TypeOK' /\ TimeFlow'
    BY <2>0, <2>a, <1>0, <1>f DEF Mi!TypeOK, TimeFlow, Mi!reading, Mi!last, Mi!delay, Mi!history
  <2>4. Late' = Late
    BY <2>0, <1>f DEF Late
  <2>5. s \in Past' /\ DelaySince(s)' /\ ReadsSince(s)'
    <3>1. /\ mi_now' \in Nat /\ mi_now <= mi_now' /\ mi_stolen' \in Nat
          /\ mi_now' - mi_now <= mi_stolen' - mi_stolen
          /\ mi_caller \in {"none", "sketch"}
      BY <1>0, <2>0, TimeParameters DEF Mi!TypeOK
    <3>. QED
      BY <1>0, <1>p, <1>f, <2>4, <3>1, ReadsKept
  <2>. QED
    BY <2>2, <2>3, <2>5 DEF TimeInv
<1>3. CASE Mi!Others
  <2>0. /\ Mi!Clock /\ UNCHANGED <<mi_ulTickCount, mi_systick>> /\ mi_stolen' \in 0..MaxStolen
        /\ mi_caller # "none" => mi_stolen' = mi_stolen + 1
    BY <1>0, <1>3 DEF Mi!Others
  <2>1. Ticked' /\ mi_now' = mi_now + 1 /\ mi_now' \in 0..MaxTime /\ mi_PENDST' \in 0..1
    BY <1>0, <2>0, ClockStep
  <2>3. Mi!TypeOK' /\ TimeFlow'
    BY <2>0, <2>1, <1>0, <1>f DEF Mi!TypeOK, TimeFlow, Mi!reading, Mi!last, Mi!delay, Mi!history
  <2>4. Late' = Late
    BY <2>0, <1>f DEF Late, Entered
  <2>5. s \in Past' /\ DelaySince(s)' /\ ReadsSince(s)'
    <3>a. mi_now' = mi_now + 1 /\ mi_now \in Nat /\ mi_stolen \in Nat
      BY <1>0, <2>1
    <3>b. mi_now' \in Nat /\ mi_now <= mi_now'
      BY <3>a
    <3>c. mi_stolen' \in Nat
      BY <1>0, <2>0
    <3>d. mi_caller # "none" => mi_now' - mi_now <= mi_stolen' - mi_stolen
      BY <3>a, <2>0
    <3>1. /\ mi_now' \in Nat /\ mi_now <= mi_now' /\ mi_stolen' \in Nat
          /\ mi_ulTickCount' = mi_ulTickCount
          /\ mi_caller # "none" => mi_now' - mi_now <= mi_stolen' - mi_stolen
      BY <3>b, <3>c, <3>d, <2>0
    <3>2. mi_caller # "none" => mi_now' - mi_now <= mi_stolen' - mi_stolen /\ Late' = Late
      BY <2>4, <3>1
    <3>3. mi_now' \in Nat /\ mi_now <= mi_now' /\ mi_stolen' \in Nat
      BY <3>1
    <3>4. mi_caller \notin {"none", "sketch"} => mi_ulTickCount' = mi_ulTickCount
      BY <3>1
    <3>. QED
      BY <1>0, <1>p, <1>f, <3>2, <3>3, <3>4, ReadsKept
  <2>. QED
    BY <2>1, <2>3, <2>5 DEF TimeInv
<1>. QED
  BY <1>1, <1>2, <1>3

\* Products with a natural number keep the order.
LEMMA TimesMonotone ==
  ASSUME NEW p \in Nat, NEW j \in Int, NEW k \in Int, j <= k
  PROVE  j * p <= k * p
<1>1. k * p = j * p + (k - j) * p
  OBVIOUS
<1>2. (k - j) * p >= 0
  OBVIOUS
<1>. QED
  BY <1>1, <1>2

\* The counter is the digit of the time below the ticks.
LEMMA Digits ==
  ASSUME NEW a \in Nat
  PROVE  /\ Mi!VAL(a) \in 0..Tick - 1
         /\ a \div Tick \in Int /\ a = (a \div Tick) * Tick + (Tick - 1 - Mi!VAL(a))
<1>1. Tick \in Nat \ {0}
  BY TimeParameters
<1>2. /\ a \div Tick \in Int /\ a % Tick \in 0..Tick - 1
      /\ a = Tick * (a \div Tick) + (a % Tick)
  BY <1>1, DivMod
<1> DEFINE q == a \div Tick
<1> DEFINE r == a % Tick
<1> HIDE DEF q, r
<1>3. q \in Int /\ r \in 0..Tick - 1 /\ a = Tick * q + r /\ Mi!VAL(a) = Tick - 1 - r
  BY <1>2 DEF q, r, Mi!VAL
<1>4. a = q * Tick + (Tick - 1 - (Tick - 1 - r)) /\ Tick - 1 - r \in 0..Tick - 1
  BY <1>1, <1>3
<1>. QED
  BY <1>3, <1>4 DEF q

\* Two readings with the same ticks, modulo the word, have the same ticks: there is no time for the
\* count to go round between them.
LEMMA OneCount ==
  ASSUME NEW a \in Nat, NEW b \in Nat, NEW j \in Nat, NEW k \in Nat, NEW l \in 0..1, NEW n \in Nat,
         TicksBy(a) <= j, j * Tick <= b, TicksBy(b) <= k, k * Tick <= n, n - a <= MaxStolen + 6,
         (j - l) % CounterWord = (k - l) % CounterWord
  PROVE  j = k /\ TicksBy(b) = k
<1>0. Tick \in Nat \ {0} /\ CounterWord \in Nat \ {0} /\ MaxStolen \in Nat
          /\ MaxStolen + 6 <= CounterWord
  BY TimeParameters
<1>1. /\ TicksBy(a) \in Nat /\ a + 1 < TicksBy(a) * Tick + Tick
      /\ TicksBy(b) \in Nat /\ b + 1 < TicksBy(b) * Tick + Tick
  BY TicksBounds
<1>2. j <= TicksBy(b)
  <2> DEFINE h == TicksBy(b)
  <2> HIDE DEF h
  <2>1. h \in Nat /\ b + 1 < h * Tick + Tick
    BY <1>1 DEF h
  <2>2. b < h * Tick + Tick
    BY <2>1, <1>0
  <2>3. j <= h
    BY <2>1, <2>2, Ordered
  <2>. QED
    BY <2>3 DEF h
<1>3. j <= k
  BY <1>1, <1>2
<1>4. PICK m \in Int : j - l = (k - l) + CounterWord * m
  <2> DEFINE x == j - l
  <2> DEFINE y == k - l
  <2>1. x \in Int /\ y \in Int /\ x % CounterWord = y % CounterWord
    OBVIOUS
  <2> HIDE DEF x, y
  <2>2. \E m \in Int : x = y + CounterWord * m
    BY <1>0, <2>1, SameRemainder
  <2>. QED
    BY <2>2 DEF x, y
<1>5. m >= 0
  <2> SUFFICES ASSUME m <= -1 PROVE FALSE
    BY <1>4
  <2> DEFINE g == TicksBy(a)
  <2> HIDE DEF g
  <2>1. g \in Nat /\ a + 1 < g * Tick + Tick /\ g <= j
    BY <1>1 DEF g
  <2>2. k = j + CounterWord * (-m) /\ -m \in Int /\ -m >= 1
    BY <1>0, <1>4
  <2>3. CounterWord * (-m) >= CounterWord
    BY <1>0, <2>2
  <2>4. g + CounterWord <= k
    BY <1>0, <2>1, <2>2, <2>3
  <2>5. (g + CounterWord) * Tick <= k * Tick
    BY <1>0, <2>1, <2>4, TimesMonotone
  <2>6. (g + CounterWord) * Tick = g * Tick + Tick + (CounterWord - 1) * Tick
    BY <1>0, <2>1
  <2>7. (CounterWord - 1) * Tick >= CounterWord - 1
    BY <1>0
  <2> DEFINE x == g * Tick
  <2> DEFINE y == k * Tick
  <2> DEFINE z == (CounterWord - 1) * Tick
  <2>8. x \in Int /\ y \in Int /\ z \in Int
    BY <1>0, <2>1
  <2>9. a + 1 < x + Tick /\ x + Tick + z <= y /\ z >= CounterWord - 1 /\ y <= n
    BY <2>1, <2>5, <2>6, <2>7
  <2> HIDE DEF x, y, z
  <2>. QED
    BY <1>0, <2>8, <2>9
<1>6. j >= k
  <2>1. CounterWord * m >= 0
    BY <1>0, <1>5
  <2>. QED
    BY <1>4, <1>0, <2>1
<1>. QED
  BY <1>1, <1>2, <1>3, <1>6

\* A larger number has a quotient that is not smaller.
LEMMA QuotientGrows ==
  ASSUME NEW x \in Nat, NEW y \in Nat, x <= y, NEW n \in Nat \ {0}
  PROVE  x \div n \in Nat /\ x \div n <= y \div n
<1> DEFINE a == x \div n
           b == y \div n
           r == x % n
           s == y % n
<1>1. /\ a \in Int /\ r \in 0..n - 1 /\ x = n * a + r
      /\ b \in Int /\ s \in 0..n - 1 /\ y = n * b + s
  BY DivMod
<1> HIDE DEF a, b, r, s
<1>2. ASSUME a >= b + 1 PROVE FALSE
  <2>1. n * a = n * (b + 1) + n * (a - (b + 1))
    BY <1>1
  <2>2. n * (a - (b + 1)) >= 0 /\ n * (b + 1) = n * b + n
    BY <1>1, <1>2
  <2>. QED
    BY <1>1, <2>1, <2>2
<1>3. ASSUME a <= -1 PROVE FALSE
  <2>1. n * a = -n + n * (a + 1)
    BY <1>1
  <2>2. n * (a + 1) <= 0
    BY <1>1, <1>3
  <2>. QED
    BY <1>1, <2>1, <2>2
<1>4. a <= b /\ a >= 0
  BY <1>1, <1>2, <1>3
<1>. QED
  BY <1>1, <1>4 DEF a, b

\* What is assumed of the scaling.
LEMMA ScaleParameters ==
  /\ MicrosPerMs \in Nat \ {0} /\ Scale \in Nat \ {0} /\ Shift \in Nat \ {0}
  /\ (Tick - 1) * Scale < MicrosPerMs * Shift
  BY CoreAssumption DEF Mi!MicrosAssumption

\* The clocks within a ms scale to less than a ms, more clocks to no less.
LEMMA ScaledTyped ==
  ASSUME NEW x \in 0..Tick - 1
  PROVE  Mi!Scaled(x) \in Nat /\ Mi!Scaled(x) < MicrosPerMs
<1>0. Tick \in Nat \ {0} /\ MicrosPerMs \in Nat \ {0} /\ Scale \in Nat \ {0}
      /\ Shift \in Nat \ {0} /\ (Tick - 1) * Scale < MicrosPerMs * Shift
  BY TimeParameters, ScaleParameters
<1>1. x * Scale <= (Tick - 1) * Scale /\ x * Scale >= 0
  BY <1>0, TimesMonotone
<1> DEFINE y == x * Scale
<1> DEFINE w == (Tick - 1) * Scale
<1>2. y \in Nat /\ w \in Int /\ y <= w /\ w < MicrosPerMs * Shift
  BY <1>0, <1>1
<1> HIDE DEF y, w
<1> DEFINE q == y \div Shift
<1> DEFINE r == y % Shift
<1>3. q \in Int /\ r \in 0..Shift - 1 /\ y = Shift * q + r
  BY <1>0, <1>2, DivMod
<1>4. Mi!Scaled(x) = q
  BY DEF y, q, Mi!Scaled
<1> HIDE DEF q, r
<1>5. q >= 0
  <2> SUFFICES ASSUME q <= -1 PROVE FALSE
    BY <1>3
  <2>1. Shift * q = -Shift + Shift * (q + 1) /\ Shift * (q + 1) <= 0
    BY <1>0, <1>3
  <2>. QED
    BY <2>1, <1>0, <1>2, <1>3
<1>6. q < MicrosPerMs
  <2> SUFFICES ASSUME q >= MicrosPerMs PROVE FALSE
    BY <1>0, <1>3
  <2>1. MicrosPerMs * Shift <= q * Shift
    BY <1>0, <1>3, TimesMonotone
  <2>2. q * Shift = Shift * q
    BY <1>0, <1>3
  <2> DEFINE e == MicrosPerMs * Shift
  <2> DEFINE f == Shift * q
  <2>3. e \in Int /\ f \in Int /\ e <= f /\ y = f + r /\ y < e
    BY <1>0, <1>2, <1>3, <2>1, <2>2
  <2> HIDE DEF e, f
  <2>. QED
    BY <1>0, <1>3, <2>3
<1>. QED
  BY <1>3, <1>4, <1>5, <1>6

LEMMA ScaledGrows ==
  ASSUME NEW x \in 0..Tick - 1, NEW y \in 0..Tick - 1, x <= y
  PROVE  Mi!Scaled(x) <= Mi!Scaled(y)
<1>0. Tick \in Nat \ {0} /\ Scale \in Nat \ {0} /\ Shift \in Nat \ {0}
  BY TimeParameters, ScaleParameters
<1>1. x * Scale <= y * Scale /\ x * Scale \in Nat /\ y * Scale \in Nat
  BY <1>0, TimesMonotone
<1>. QED
  BY <1>0, <1>1, QuotientGrows DEF Mi!Scaled

\* The microseconds of q ms and r clocks.
LEMMA UsDigits ==
  ASSUME NEW q \in Int, NEW r \in 0..Tick - 1
  PROVE  Mi!Us(q * Tick + r) = q * MicrosPerMs + Mi!Scaled(r)
<1>0. Tick \in Nat \ {0}
  BY TimeParameters
<1>1. (Tick * q + r) % Tick = r /\ (Tick * q + r) \div Tick = q
  BY <1>0, DivModUnique
<1>2. Tick * q + r = q * Tick + r
  BY <1>0
<1>. QED
  BY <1>1, <1>2 DEF Mi!Us

\* A later time has no fewer microseconds, and n ms later there are n ms of them more.
LEMMA UsGrows ==
  ASSUME NEW t \in Int
  PROVE  /\ Mi!Us(t) \in Int
         /\ \A u \in Int : t <= u => Mi!Us(t) <= Mi!Us(u)
         /\ \A n \in Int : Mi!Us(t + n * Tick) = Mi!Us(t) + n * MicrosPerMs
<1>0. Tick \in Nat \ {0} /\ MicrosPerMs \in Nat \ {0}
  BY TimeParameters, ScaleParameters
<1> DEFINE Digit(u, q, r) ==
      q \in Int /\ r \in 0..Tick - 1 /\ u = q * Tick + r
        /\ Mi!Us(u) = q * MicrosPerMs + Mi!Scaled(r)
        /\ Mi!Scaled(r) \in Nat /\ Mi!Scaled(r) < MicrosPerMs
<1>1. ASSUME NEW u \in Int PROVE \E q, r : Digit(u, q, r)
  <2>1. u \div Tick \in Int /\ u % Tick \in 0..Tick - 1
            /\ u = Tick * (u \div Tick) + (u % Tick)
    BY <1>0, DivMod
  <2> DEFINE q == u \div Tick
  <2> DEFINE r == u % Tick
  <2> HIDE DEF q, r
  <2>2. q \in Int /\ r \in 0..Tick - 1 /\ u = q * Tick + r
    BY <1>0, <2>1 DEF q, r
  <2>3. Mi!Us(u) = q * MicrosPerMs + Mi!Scaled(r)
    BY <2>2, UsDigits
  <2>4. Mi!Scaled(r) \in Nat /\ Mi!Scaled(r) < MicrosPerMs
    BY <2>2, ScaledTyped
  <2>5. Digit(u, q, r)
    BY <2>2, <2>3, <2>4
  <2>. QED
    BY <2>5
<1>p. PICK q, r : Digit(t, q, r)
  BY <1>1
<1>2. Mi!Us(t) \in Int
  BY <1>0, <1>p
<1>3. ASSUME NEW u \in Int, t <= u PROVE Mi!Us(t) <= Mi!Us(u)
  <2>1. PICK p, s : Digit(u, p, s)
    BY <1>1
  <2>2. q <= p
    <3> DEFINE a == q * Tick
    <3> DEFINE b == p * Tick
    <3>1. a \in Int /\ b \in Int /\ a <= t /\ u < b + Tick
      BY <1>0, <1>p, <2>1
    <3> HIDE DEF a, b
    <3>2. a <= t /\ t < b + Tick
      BY <1>0, <1>3, <3>1
    <3>. QED
      BY <1>p, <2>1, <3>2, Ordered DEF a, b
  <2>3. CASE q = p
    <3>1. r <= s
      BY <1>0, <1>3, <1>p, <2>1, <2>3
    <3>2. Mi!Scaled(r) <= Mi!Scaled(s)
      BY <1>p, <2>1, <3>1, ScaledGrows
    <3>. QED
      BY <1>0, <1>p, <2>1, <2>3, <3>2
  <2>4. CASE q < p
    <3>1. (q + 1) * MicrosPerMs <= p * MicrosPerMs
      BY <1>0, <1>p, <2>1, <2>4, TimesMonotone
    <3>2. (q + 1) * MicrosPerMs = q * MicrosPerMs + MicrosPerMs
      BY <1>0, <1>p
    <3> DEFINE a == q * MicrosPerMs
    <3> DEFINE b == p * MicrosPerMs
    <3>3. a \in Int /\ b \in Int /\ a + MicrosPerMs <= b
      BY <1>0, <1>p, <2>1, <3>1, <3>2
    <3>4. Mi!Us(t) = a + Mi!Scaled(r) /\ Mi!Us(u) = b + Mi!Scaled(s)
      BY <1>p, <2>1
    <3> HIDE DEF a, b
    <3>. QED
      BY <1>0, <1>p, <2>1, <3>3, <3>4
  <2>. QED
    BY <1>p, <2>1, <2>2, <2>3, <2>4
<1>4. ASSUME NEW n \in Int PROVE Mi!Us(t + n * Tick) = Mi!Us(t) + n * MicrosPerMs
  <2>1. t + n * Tick = (q + n) * Tick + r /\ q + n \in Int
    BY <1>0, <1>p
  <2>2. Mi!Us((q + n) * Tick + r) = (q + n) * MicrosPerMs + Mi!Scaled(r)
    BY <1>p, <2>1, UsDigits
  <2>3. (q + n) * MicrosPerMs + Mi!Scaled(r) = Mi!Us(t) + n * MicrosPerMs
    BY <1>0, <1>p
  <2>. QED
    BY <2>1, <2>2, <2>3
<1>. QED
  BY <1>2, <1>3, <1>4

\* Two readings of the same count c: the first of time a and j ticks, the second of time b and k
\* ticks, with a counter that is not above the first one; l ticks are not seen.
ReadBetween(a, b, j, k, l, n, c) ==
  /\ TicksBy(a) <= j /\ j * Tick <= b /\ TicksBy(b) <= k /\ k * Tick <= n
  /\ n - a <= MaxStolen + 6 /\ b < n /\ Mi!VAL(b) <= Mi!VAL(a)
  /\ c % CounterWord = (j - l) % CounterWord /\ c % CounterWord = (k - l) % CounterWord

\* What micros() makes of count c and counter x are the microseconds of a time between a, or l ticks
\* before it, and n.
TimeBetween(c, x, l, a, n) ==
  \E v \in Int : /\ (c * MicrosPerMs + Mi!Scaled(Tick - 1 - x)) % CounterWord
                        = Mi!Us(v) % CounterWord
                 /\ a - l * Tick <= v /\ v <= n

\* If the second reading has the count of the first, and a counter that has not started again, then
\* the tick the count stands for had begun when the first was made: the two make one time.
LEMMA Reading ==
  ASSUME NEW a \in Nat, NEW b \in Nat, NEW j \in Nat, NEW k \in Nat, NEW l \in 0..1, NEW n \in Nat,
         NEW c \in Int, ReadBetween(a, b, j, k, l, n, c)
  PROVE  TimeBetween(c, Mi!VAL(a), l, a, n)
<1>h. /\ TicksBy(a) <= j /\ j * Tick <= b /\ TicksBy(b) <= k /\ k * Tick <= n
      /\ n - a <= MaxStolen + 6 /\ b < n /\ Mi!VAL(b) <= Mi!VAL(a)
      /\ c % CounterWord = (j - l) % CounterWord /\ c % CounterWord = (k - l) % CounterWord
  BY DEF ReadBetween
<1>0. Tick \in Nat \ {0} /\ CounterWord \in Nat \ {0}
  BY TimeParameters
<1>1. j = k /\ TicksBy(b) = k
  <2>1. (j - l) % CounterWord = (k - l) % CounterWord
    BY <1>h
  <2>. QED
    BY <1>h, <2>1, OneCount
<1> DEFINE p == a \div Tick
<1> DEFINE q == b \div Tick
<1> DEFINE x == Mi!VAL(a)
<1> DEFINE y == Mi!VAL(b)
<1>2. /\ x \in 0..Tick - 1 /\ p \in Int /\ a = p * Tick + (Tick - 1 - x)
      /\ y \in 0..Tick - 1 /\ q \in Int /\ b = q * Tick + (Tick - 1 - y) /\ y <= x
  BY <1>h, Digits
<1>3. /\ TicksBy(a) \in Nat /\ TicksBy(a) <= j /\ a + 1 < TicksBy(a) * Tick + Tick
      /\ b + 1 < k * Tick + Tick
  BY <1>h, <1>1, TicksBounds
<1> DEFINE g == TicksBy(a)
<1>4. g \in Nat /\ g <= j /\ a + 1 < g * Tick + Tick
  BY <1>3
<1> HIDE DEF p, q, x, y, g
<1>5. p <= j
  <2>1. g * Tick <= j * Tick
    BY <1>0, <1>4, TimesMonotone
  <2> DEFINE r == p * Tick
  <2> DEFINE t == j * Tick
  <2> DEFINE u == g * Tick
  <2>2. r \in Int /\ t \in Int /\ u \in Int /\ r <= a /\ a < u + Tick /\ u <= t
    BY <1>h, <1>0, <1>2, <1>4, <2>1
  <2> HIDE DEF r, t, u
  <2>3. r <= a /\ a < t + Tick
    BY <1>0, <2>2
  <2>. QED
    BY <1>2, <2>3, Ordered DEF r, t
<1>6. q <= k
  <2> DEFINE r == q * Tick
  <2> DEFINE t == k * Tick
  <2>2. r \in Int /\ t \in Int /\ r <= b /\ b + 1 < t + Tick
    BY <1>h, <1>0, <1>2, <1>3
  <2> HIDE DEF r, t
  <2>3. r <= b /\ b < t + Tick
    BY <1>0, <2>2
  <2>. QED
    BY <1>2, <2>3, Ordered DEF r, t
<1>7. k <= q
  <2> DEFINE r == k * Tick
  <2> DEFINE t == q * Tick
  <2>2. r \in Int /\ t \in Int /\ r <= b /\ b < t + Tick
    BY <1>0, <1>h, <1>1, <1>2
  <2> HIDE DEF r, t
  <2>. QED
    BY <1>2, <2>2, Ordered DEF r, t
<1> DEFINE v == (j - l) * Tick + (Tick - 1 - x)
<1>8. v \in Int /\ (c * MicrosPerMs + Mi!Scaled(Tick - 1 - x)) % CounterWord
                        = Mi!Us(v) % CounterWord
  <2> DEFINE u == j - l
  <2> DEFINE d == Tick - 1 - x
  <2>1. d \in 0..Tick - 1 /\ u \in Int /\ v = u * Tick + d /\ v \in Int
            /\ c % CounterWord = u % CounterWord
    BY <1>h, <1>0, <1>2
  <2> DEFINE z == Mi!Scaled(d)
  <2> HIDE DEF u, v, d
  <2>2. Mi!Us(u * Tick + d) = u * MicrosPerMs + Mi!Scaled(d) /\ Mi!Scaled(d) \in Nat
    BY <2>1, UsDigits, ScaledTyped
  <2>a. CounterWord \in Nat \ {0} /\ c \in Int /\ u \in Int
            /\ c % CounterWord = u % CounterWord /\ MicrosPerMs \in Int /\ z \in Int
    BY <1>0, <2>1, <2>2, ScaleParameters
  <2> HIDE DEF z
  <2>b. PICK m \in Int : c = u + CounterWord * m
    BY <2>a, SameRemainder
  <2> DEFINE e == c * MicrosPerMs + z
  <2> DEFINE f == u * MicrosPerMs + z
  <2> DEFINE w == m * MicrosPerMs
  <2>c. e \in Int /\ f \in Int /\ w \in Int /\ e = f + CounterWord * w
    BY <2>a, <2>b
  <2> HIDE DEF e, f, w
  <2>d. (f + CounterWord * w) % CounterWord = f % CounterWord
    BY <2>a, <2>c, ModShift
  <2>e. e % CounterWord = f % CounterWord
    BY <2>c, <2>d
  <2>3. (c * MicrosPerMs + z) % CounterWord = (u * MicrosPerMs + z) % CounterWord
    BY <2>e DEF e, f
  <2>. QED
    BY <2>1, <2>2, <2>3 DEF z, d
<1>10. a - l * Tick <= v
  <2>1. p * Tick <= j * Tick
    BY <1>h, <1>0, <1>2, <1>5, TimesMonotone
  <2>2. (j - l) * Tick = j * Tick - l * Tick
    BY <1>0
  <2> DEFINE r == p * Tick
  <2> DEFINE t == j * Tick
  <2> DEFINE u == l * Tick
  <2>3. r \in Int /\ t \in Int /\ u \in Int /\ r <= t /\ a = r + (Tick - 1 - x)
            /\ v = t - u + (Tick - 1 - x)
    BY <1>h, <1>0, <1>2, <2>1, <2>2
  <2> HIDE DEF r, t, u, v
  <2>4. a - u <= v
    BY <1>h, <1>0, <1>2, <2>3
  <2>. QED
    BY <2>4 DEF u
<1>11. v <= n
  <2>1. (j - l) * Tick <= q * Tick
    BY <1>0, <1>h, <1>1, <1>2, <1>7, TimesMonotone
  <2> DEFINE r == (j - l) * Tick
  <2> DEFINE t == q * Tick
  <2>2. r \in Int /\ t \in Int /\ r <= t /\ b = t + (Tick - 1 - y) /\ v = r + (Tick - 1 - x)
    BY <1>h, <1>0, <1>2, <2>1
  <2> HIDE DEF r, t, v
  <2>. QED
    BY <1>h, <1>0, <1>2, <2>2
<1> HIDE DEF v
<1>. QED
  BY <1>8, <1>10, <1>11 DEF x, TimeBetween

\* At reset the invariant holds.
LEMMA TimeStarts == ASSUME Mi!Init PROVE TimeInv
<1>0. /\ Tick \in Nat \ {0} /\ Tick > 1 /\ CounterWord \in Nat \ {0} /\ MaxTime \in Nat
      /\ MaxStolen \in Nat
      /\ TicksBy(0) \in Nat /\ TicksBy(0) * Tick <= 1
  BY TimeParameters, TicksBounds
<1>1. TicksBy(0) = 0
  <2> DEFINE k == TicksBy(0)
  <2>1. k \in Nat /\ k * Tick <= 1
    BY <1>0
  <2> HIDE DEF k
  <2> SUFFICES ASSUME k >= 1 PROVE FALSE
    BY <2>1 DEF k
  <2>2. k * Tick = Tick + (k - 1) * Tick /\ (k - 1) * Tick >= 0
    BY <1>0, <2>1
  <2>. QED
    BY <1>0, <2>1, <2>2
<1>2. 0 % CounterWord = 0
  BY <1>0
<1>3. Ticked
  BY <1>0, <1>1, <1>2 DEF Mi!Init, Ticked, Entered
<1>4. Mi!TypeOK /\ TimeFlow
  BY <1>0 DEF Mi!Init, Mi!TypeOK, TimeFlow
<1>5. 0 \in Past /\ DelaySince(0) /\ ReadsSince(0)
  BY DEF Mi!Init, Past, DelaySince, ReadsSince
<1>. QED
  BY <1>3, <1>4, <1>5 DEF TimeInv

\* A step of anything else keeps the invariant.
LEMMA TimeStutters == ASSUME TimeInv, UNCHANGED Mi!vars PROVE TimeInv'
<1>0. /\ Mi!TypeOK /\ Ticked /\ TimeFlow /\ mi_now \in Nat /\ mi_stolen \in Nat
  BY TimeParameters DEF TimeInv, Mi!TypeOK
<1>p. PICK s \in Past : DelaySince(s) /\ ReadsSince(s)
  BY DEF TimeInv
<1>u. UNCHANGED <<mi_now, mi_PENDST, mi_ulTickCount, mi_systick, mi_caller, mi_pc, mi_first,
                  mi_stolen, Mi!reading, Mi!last, Mi!delay, Mi!history>>
  BY DEF Mi!vars, Mi!timer, Mi!progress
<1>1. Mi!TypeOK' /\ TimeFlow'
  BY <1>0, <1>u DEF Mi!TypeOK, TimeFlow, Mi!reading, Mi!last, Mi!delay, Mi!history
<1>2. Ticked'
  BY <1>0, <1>u DEF Ticked, TicksBy, Entered
<1>3. Late' = Late
  BY <1>u DEF Late, Entered
<1>4. /\ mi_now' \in Nat /\ mi_now <= mi_now' /\ mi_stolen' \in Nat
      /\ mi_caller # "none" => mi_now' - mi_now <= mi_stolen' - mi_stolen /\ Late' = Late
      /\ mi_caller \notin {"none", "sketch"} => mi_ulTickCount' = mi_ulTickCount
  BY <1>0, <1>u, <1>3
<1>f. UNCHANGED <<mi_caller, mi_pc, mi_first, Mi!reading, Mi!last, Mi!delay, Mi!history>>
  BY <1>u
<1>5. s \in Past' /\ DelaySince(s)' /\ ReadsSince(s)'
  BY <1>0, <1>p, <1>f, <1>4, ReadsKept
<1>. QED
  BY <1>1, <1>2, <1>5 DEF TimeInv

\* The calls of micros() and delay() keep the invariant.
LEMMA Begins ==
  ASSUME TimeInv, Mi!CallMicros \/ Mi!CallDelay \/ Mi!DelayReads
  PROVE  TimeInv'
<1>0. /\ Mi!TypeOK /\ Ticked /\ TimeFlow /\ mi_now \in Nat /\ mi_now \in 0..MaxTime
      /\ MaxStolen \in Nat
      /\ Callers \subseteq {"sketch", "masked", "handler"} /\ Delays \subseteq Nat
  BY TimeParameters DEF TimeInv, Mi!TypeOK
<1>p. PICK s \in Past : DelaySince(s) /\ ReadsSince(s)
  BY DEF TimeInv
<1>c. PICK c \in Callers : Mi!Call(c) /\ (mi_delaying = "no" \/ c = "sketch")
  <2>1. CASE Mi!CallMicros
    BY <2>1 DEF Mi!CallMicros
  <2>2. CASE Mi!CallDelay
    BY <2>2 DEF Mi!CallDelay
  <2>3. CASE Mi!DelayReads
    BY <1>0, <2>3 DEF Mi!DelayReads, TimeFlow
  <2>. QED
    BY <2>1, <2>2, <2>3
<1>1. /\ mi_caller = "none" /\ mi_caller' = c /\ mi_pc' = "ticks" /\ mi_first' = TRUE
      /\ mi_stolen' = 0
      /\ c # "handler" => mi_systick = "idle"
      /\ UNCHANGED <<mi_now, mi_PENDST, mi_ulTickCount, mi_systick, Mi!reading, Mi!last>>
  BY <1>c DEF Mi!Call, Mi!timer
<1>2. Ticked'
  BY <1>0, <1>1 DEF Ticked, TicksBy, Entered
<1>3. \A t : ReadsSince(t)'
  BY <1>1 DEF ReadsSince
<1>4. /\ mi_delaying' \in {"no", "start", "loop"} /\ mi_ms' \in Nat /\ mi_start' = mi_start
      /\ mi_called' \in 0..MaxTime /\ mi_asked' \in Delays \cup {0}
      /\ mi_delaying' # "no" => c = "sketch" /\ "sketch" \in Callers
      /\ mi_delaying' = "start" => mi_ms' = mi_asked'
  <2>1. CASE Mi!CallMicros
    <3>1. mi_delaying = "no" /\ mi_delaying' = "no" /\ mi_ms' = mi_ms
              /\ mi_start' = mi_start /\ mi_called' = mi_now /\ mi_asked' = mi_asked
      BY <2>1 DEF Mi!CallMicros, Mi!delay
    <3>. QED
      BY <3>1, <1>0 DEF Mi!TypeOK
  <2>2. CASE Mi!CallDelay
    <3>1. /\ mi_delaying' = "start" /\ mi_start' = mi_start /\ mi_called' = mi_now /\ c = "sketch"
          /\ \E n \in Delays : mi_ms' = n /\ mi_asked' = n
      BY <2>2, <1>1 DEF Mi!CallDelay, Mi!Call
    <3>. QED
      BY <3>1, <1>0
  <2>3. CASE Mi!DelayReads
    <3>1. /\ mi_delaying = "loop" /\ c = "sketch"
          /\ mi_delaying' = mi_delaying /\ mi_ms' = mi_ms /\ mi_start' = mi_start
          /\ mi_called' = mi_called /\ mi_asked' = mi_asked
      BY <2>3, <1>1 DEF Mi!DelayReads, Mi!Call, Mi!delay, Mi!history
    <3>. QED
      BY <3>1, <1>0 DEF Mi!TypeOK
  <2>. QED
    BY <2>1, <2>2, <2>3
<1>5. Mi!TypeOK' /\ TimeFlow'
  BY <1>0, <1>1, <1>4 DEF Mi!TypeOK, TimeFlow, Mi!reading, Mi!last
<1>6. \E t \in Past' : DelaySince(t)'
  <2>1. CASE Mi!CallMicros \/ Mi!CallDelay
    <3>1. mi_called' = mi_now /\ mi_now' = mi_now /\ mi_delaying' # "loop"
      BY <2>1, <1>1 DEF Mi!CallMicros, Mi!CallDelay, Mi!delay
    <3>2. PICK t \in Past : t = mi_now
      BY <1>0 DEF Past
    <3>3. t \in Past' /\ DelaySince(t)'
      BY <1>0, <3>1, <3>2 DEF Past, DelaySince
    <3>. QED
      BY <3>3
  <2>2. CASE Mi!DelayReads
    <3>1. mi_delaying' = mi_delaying /\ mi_ms' = mi_ms /\ mi_start' = mi_start
              /\ mi_called' = mi_called /\ mi_asked' = mi_asked
      BY <2>2 DEF Mi!DelayReads, Mi!delay, Mi!history
    <3>2. s \in Past' /\ DelaySince(s)'
      BY <1>p, <1>1, <3>1 DEF Past, DelaySince
    <3>. QED
      BY <3>2
  <2>. QED
    BY <2>1, <2>2
<1>. QED
  BY <1>2, <1>3, <1>5, <1>6 DEF TimeInv

\* The ticks are no more than the clocks.
LEMMA TicksKnown ==
  ASSUME NEW n \in Nat
  PROVE  TicksBy(n) \in 0..n + 1 /\ TicksBy(n) \in 0..n + 1 + 1
<1>0. Tick \in Nat \ {0} /\ TicksBy(n) \in Nat /\ TicksBy(n) * Tick <= n + 1
  BY TimeParameters, TicksBounds
<1> DEFINE k == TicksBy(n)
<1>1. k \in Nat /\ k * Tick <= n + 1
  BY <1>0
<1> HIDE DEF k
<1>2. k * Tick = k + k * (Tick - 1) /\ k * (Tick - 1) >= 0
  BY <1>0, <1>1
<1>3. k <= n + 1
  BY <1>0, <1>1, <1>2
<1>. QED
  BY <1>1, <1>3 DEF k

\* The reading before stays what it was while the next is made.
LEMMA EarlierKept ==
  ASSUME NEW s, NEW d \in Nat, NEW x, mi_now \in Nat, mi_stolen \in Nat, mi_now' = mi_now + 1,
         mi_stolen' = mi_stolen,
         Late' = Late, UNCHANGED Mi!reading, ReadEarlier(s, d, x)
  PROVE  ReadEarlier(s, d + 1, x)'
<1>1. PICK a \in Past, k \in 0..mi_now + 1 : FirstRead(s, a, k, d) /\ k * Tick <= x
  BY DEF ReadEarlier
<1>2. /\ s <= a /\ a < mi_now /\ mi_now - a <= d + mi_stolen /\ mi_ticks = Mi!VAL(a)
      /\ TicksBy(a) <= k
      /\ (mi_count + mi_pend) % CounterWord = (k - Late) % CounterWord
  BY <1>1 DEF FirstRead
<1>3. Mi!VAL(a)' = Mi!VAL(a) /\ TicksBy(a)' = TicksBy(a)
  BY DEF Mi!VAL, TicksBy
<1>4. a \in Nat /\ a \in Past' /\ k \in 0..mi_now' + 1 /\ a < mi_now'
  BY <1>2 DEF Past
<1>5. mi_now' - a <= (d + 1) + mi_stolen'
  BY <1>2, <1>4
<1>6. (mi_count' + mi_pend') % CounterWord = (k - Late') % CounterWord /\ mi_ticks' = mi_ticks
  BY <1>2 DEF Mi!reading
<1>7. FirstRead(s, a, k, d + 1)'
  BY <1>2, <1>3, <1>4, <1>5, <1>6 DEF FirstRead
<1>. QED
  BY <1>1, <1>4, <1>7 DEF ReadEarlier

\* So does the counter that was read.
LEMMA LastTicksKept ==
  ASSUME NEW s, NEW a \in Past, NEW d \in Nat, mi_now \in Nat, mi_stolen \in Nat,
         mi_now' = mi_now + 1,
         mi_stolen' = mi_stolen, mi_ticks2' = mi_ticks2, LastTicks(s, a, d)
  PROVE  a \in Past' /\ LastTicks(s, a, d + 1)'
<1>1. s <= a /\ a < mi_now /\ mi_now - a <= d + mi_stolen /\ mi_ticks2 = Mi!VAL(a)
  BY DEF LastTicks
<1>2. Mi!VAL(a)' = Mi!VAL(a)
  BY DEF Mi!VAL
<1>3. a \in Nat /\ a \in Past' /\ a < mi_now'
  BY <1>1 DEF Past
<1>4. mi_now' - a <= (d + 1) + mi_stolen'
  BY <1>1, <1>3
<1>. QED
  BY <1>1, <1>2, <1>3, <1>4 DEF LastTicks

\* A read takes a clock, and changes nothing but what is read.
LEMMA ReadKept ==
  ASSUME TimeInv, Mi!ReadTicks \/ Mi!ReadPend \/ Mi!ReadCount, NEW s \in Past, DelaySince(s)
  PROVE  /\ Ticked' /\ Mi!TypeOK' /\ TimeFlow' /\ Late' = Late
         /\ mi_now \in Nat /\ mi_stolen \in Nat /\ mi_now' = mi_now + 1 /\ mi_stolen' = mi_stolen
         /\ mi_caller # "none"
         /\ s \in Past' /\ DelaySince(s)' /\ mi_caller' = mi_caller
         /\ mi_ulTickCount' = mi_ulTickCount
<1>0. /\ Mi!TypeOK /\ Ticked /\ TimeFlow /\ mi_now \in Nat /\ mi_stolen \in Nat
      /\ mi_PENDST \in 0..1
      /\ Tick \in Nat \ {0}
  BY TimeParameters DEF TimeInv, Mi!TypeOK
<1>1. /\ Mi!Clock /\ UNCHANGED <<mi_ulTickCount, mi_systick, mi_caller, mi_stolen, Mi!delay,
                                 Mi!history>> /\ mi_caller # "none"
  BY DEF Mi!ReadTicks, Mi!ReadPend, Mi!ReadCount, Mi!Runs, Mi!progress
<1>2. Ticked' /\ mi_now' = mi_now + 1 /\ mi_now' \in 0..MaxTime /\ mi_PENDST' \in 0..1
  BY <1>0, <1>1, ClockStep
<1>3. Late' = Late
  BY <1>1 DEF Late, Entered
<1>4. Mi!VAL(mi_now) \in 0..Tick - 1
  BY <1>0, Digits
<1>5. /\ {mi_ticks', mi_ticks2'} \subseteq 0..Tick - 1 /\ {mi_pend', mi_pend2'} \subseteq 0..1
      /\ {mi_count', mi_count2'} \subseteq 0..CounterWord - 1
      /\ mi_pc' \in {"ticks", "pend", "count", "test"} /\ mi_first' \in BOOLEAN
             /\ (mi_pc' = "test" => ~mi_first')
  <2>1. CASE Mi!ReadTicks
    BY <2>1, <1>0, <1>4 DEF Mi!ReadTicks, Mi!TypeOK, Mi!progress
  <2>2. CASE Mi!ReadPend
    BY <2>2, <1>0 DEF Mi!ReadPend, Mi!TypeOK, Mi!progress, Mi!reading
  <2>3. CASE Mi!ReadCount
    <3>1. /\ mi_pc' \in {"ticks", "test"} /\ mi_first' = FALSE /\ mi_count2' = mi_ulTickCount
          /\ mi_ticks' = mi_ticks /\ mi_pend' = mi_pend /\ mi_count' = mi_count
          /\ mi_ticks2' = mi_ticks2 /\ mi_pend2' = mi_pend2
      BY <2>3 DEF Mi!ReadCount, Mi!reading
    <3>. QED
      BY <3>1, <1>0 DEF Mi!TypeOK
  <2>. QED
    BY <2>1, <2>2, <2>3
<1>6. Mi!TypeOK'
  BY <1>0, <1>1, <1>2, <1>5 DEF Mi!TypeOK, Mi!delay, Mi!history
<1>7. TimeFlow'
  BY <1>0, <1>1, <1>5 DEF TimeFlow, Mi!delay, Mi!history
<1>8. s \in Past' /\ DelaySince(s)'
  BY <1>0, <1>1, <1>2 DEF Past, DelaySince, Mi!delay, Mi!history
<1>. QED
  BY <1>0, <1>1, <1>2, <1>3, <1>6, <1>7, <1>8

\* Reading the counter keeps the invariant: the reading that was last is now the one before.
LEMMA TicksRead == ASSUME TimeInv, Mi!ReadTicks PROVE TimeInv'
<1>p. PICK s \in Past : DelaySince(s) /\ ReadsSince(s)
  BY DEF TimeInv
<1>0. /\ Ticked' /\ Mi!TypeOK' /\ TimeFlow' /\ Late' = Late
      /\ mi_now \in Nat /\ mi_stolen \in Nat /\ mi_now' = mi_now + 1 /\ mi_stolen' = mi_stolen
      /\ s \in Past' /\ DelaySince(s)' /\ mi_caller' = mi_caller
  BY <1>p, ReadKept
<1>1. /\ mi_pc = "ticks" /\ mi_pc' = "pend" /\ mi_first' = mi_first
      /\ mi_ticks' = mi_ticks2 /\ mi_pend' = mi_pend2 /\ mi_count' = mi_count2
      /\ mi_ticks2' = Mi!VAL(mi_now)
  BY DEF Mi!ReadTicks, Mi!Runs, Mi!progress
<1>2. PICK b \in Past : b = mi_now
  BY <1>0 DEF Past
<1>3. b \in Past' /\ LastTicks(s, b, 1)'
  <2>1. b \in Past' /\ s <= b /\ b < mi_now' /\ mi_now' - b <= 1 + mi_stolen'
    BY <1>0, <1>2, <1>p DEF Past
  <2>2. Mi!VAL(b)' = Mi!VAL(b)
    BY DEF Mi!VAL
  <2>. QED
    BY <2>1, <2>2, <1>1, <1>2 DEF LastTicks
<1>4. ASSUME ~mi_first' PROVE ReadEarlier(s, 4, b)'
  <2>1. AtTicks(s)
    BY Zenon, <1>p, <1>1, <1>4 DEF ReadsSince
  <2>2. PICK a \in Past, k \in 0..mi_now + 1 : LastTicks(s, a, 3) /\ LastWhole(a, k)
    BY <2>1 DEF AtTicks
  <2>3. /\ s <= a /\ a < mi_now /\ mi_now - a <= 3 + mi_stolen /\ mi_ticks2 = Mi!VAL(a)
        /\ TicksBy(a) <= k /\ k * Tick <= mi_now
        /\ (mi_count2 + mi_pend2) % CounterWord = (k - Late) % CounterWord
    BY <2>2 DEF LastTicks, LastWhole
  <2>4. Mi!VAL(a)' = Mi!VAL(a) /\ TicksBy(a)' = TicksBy(a)
    BY DEF Mi!VAL, TicksBy
  <2>5. a \in Past' /\ k \in 0..mi_now' + 1 /\ a \in Nat /\ a < mi_now'
    BY <1>0, <2>3 DEF Past
  <2>6. mi_now' - a <= 4 + mi_stolen'
    BY <1>0, <2>3, <2>5
  <2>7. (mi_count' + mi_pend') % CounterWord = (k - Late') % CounterWord
    BY <1>0, <1>1, <2>3
  <2>8. FirstRead(s, a, k, 4)'
    BY <2>3, <2>4, <2>5, <2>6, <2>7, <1>1 DEF FirstRead
  <2>9. k * Tick <= b
    BY <1>2, <2>3
  <2>. QED
    BY <2>5, <2>8, <2>9 DEF ReadEarlier
<1>5. AtPend(s)'
  BY <1>3, <1>4 DEF AtPend
<1>6. ReadsSince(s)'
  BY <1>1, <1>5 DEF ReadsSince
<1>. QED
  BY <1>0, <1>6 DEF TimeInv

\* Reading the flag keeps the invariant: the ticks are those of now.
LEMMA PendRead == ASSUME TimeInv, Mi!ReadPend PROVE TimeInv'
<1>p. PICK s \in Past : DelaySince(s) /\ ReadsSince(s)
  BY DEF TimeInv
<1>0. /\ Ticked' /\ Mi!TypeOK' /\ TimeFlow' /\ Late' = Late
      /\ mi_now \in Nat /\ mi_stolen \in Nat /\ mi_now' = mi_now + 1 /\ mi_stolen' = mi_stolen
      /\ mi_caller # "none"
      /\ s \in Past' /\ DelaySince(s)' /\ mi_caller' = mi_caller
      /\ mi_ulTickCount' = mi_ulTickCount
  BY <1>p, ReadKept
<1>1. /\ mi_pc = "pend" /\ mi_pc' = "count" /\ mi_first' = mi_first /\ UNCHANGED Mi!reading
      /\ mi_ticks2' = mi_ticks2
      /\ mi_pend2' = mi_PENDST /\ (mi_caller = "sketch" => mi_PENDST = 0)
  BY DEF Mi!ReadPend, Mi!Runs, Mi!progress
<1>t. Mi!TypeOK /\ Ticked /\ TimeFlow /\ mi_PENDST \in 0..1 /\ CounterWord \in Nat \ {0}
  BY TimeParameters DEF TimeInv, Mi!TypeOK
<1>2. AtPend(s)
  BY Zenon, <1>p, <1>1 DEF ReadsSince
<1>3. PICK a \in Past : LastTicks(s, a, 1) /\ (~mi_first => ReadEarlier(s, 4, a))
  BY <1>2 DEF AtPend
<1>4. a \in Past' /\ LastTicks(s, a, 2)'
  BY <1>0, <1>1, <1>3, LastTicksKept
<1>5. ~mi_first' => ReadEarlier(s, 5, a)'
  <2>1. ASSUME ReadEarlier(s, 4, a) PROVE ReadEarlier(s, 4 + 1, a)'
    BY <1>0, <1>1, <2>1, EarlierKept
  <2>. QED
    BY <1>1, <1>3, <2>1
<1>6. PICK k \in 0..mi_now' + 1 : k = TicksBy(mi_now)
  BY <1>0, TicksKnown
<1>7. LastPend(a, k)'
  <2>1. a < mi_now /\ a \in Nat
    BY <1>0, <1>3 DEF LastTicks, Past
  <2>2. TicksBy(a) <= k
    BY <1>0, <1>6, <2>1, TicksMonotone
  <2>3. TicksBy(a)' = TicksBy(a)
    BY DEF TicksBy
  <2>4. k * Tick <= mi_now'
    BY <1>0, <1>6, TicksBounds
  <2>5. mi_caller # "sketch"
            => (mi_ulTickCount + mi_PENDST) % CounterWord = (k - Late) % CounterWord
    <3>1. ASSUME mi_caller # "sketch" PROVE Late = Entered
      <4>1. mi_caller \in {"masked", "handler"}
        BY <3>1, <1>0, <1>t, TimeParameters DEF Mi!TypeOK
      <4>. QED
        BY <4>1, <1>t DEF Late, Entered, TimeFlow
    <3> DEFINE x == TicksBy(mi_now) - mi_PENDST - Entered
    <3>2. x \in Int /\ x + mi_PENDST = k - Entered
      BY <1>0, <1>6, <1>t, TicksBounds DEF Entered
    <3>3. mi_ulTickCount = x % CounterWord
      BY <1>t DEF Ticked
    <3> HIDE DEF x
    <3>5. \A z \in Int : ((x % CounterWord) + z) % CounterWord = (x + z) % CounterWord
      BY <3>2, <1>t, AddedRemainder
    <3>4. ((x % CounterWord) + mi_PENDST) % CounterWord = (x + mi_PENDST) % CounterWord
      BY <3>5, <1>t
    <3>. QED
      BY <3>1, <3>2, <3>3, <3>4
  <2>6. IF mi_caller' = "sketch" THEN mi_pend2' = 0
            ELSE (mi_ulTickCount' + mi_pend2') % CounterWord = (k - Late') % CounterWord
    BY <1>0, <1>1, <2>5
  <2>. QED
    BY <2>2, <2>3, <2>4, <2>6 DEF LastPend
<1>8. AtCount(s)'
  BY <1>4, <1>5, <1>7 DEF AtCount
<1>9. ReadsSince(s)'
  BY <1>1, <1>8 DEF ReadsSince
<1>. QED
  BY <1>0, <1>9 DEF TimeInv

\* Reading the count keeps the invariant: the sketch goes on only with no tick pending or being
\* handled, and for the others the count is still the one of when the flag was read.
LEMMA CountRead == ASSUME TimeInv, Mi!ReadCount PROVE TimeInv'
<1>p. PICK s \in Past : DelaySince(s) /\ ReadsSince(s)
  BY DEF TimeInv
<1>0. /\ Ticked' /\ Mi!TypeOK' /\ TimeFlow' /\ Late' = Late
      /\ mi_now \in Nat /\ mi_stolen \in Nat /\ mi_now' = mi_now + 1 /\ mi_stolen' = mi_stolen
      /\ mi_caller # "none"
      /\ s \in Past' /\ DelaySince(s)' /\ mi_caller' = mi_caller
      /\ mi_ulTickCount' = mi_ulTickCount
  BY <1>p, ReadKept
<1>1. /\ mi_pc = "count" /\ mi_pc' = (IF mi_first THEN "ticks" ELSE "test") /\ mi_first' = FALSE
      /\ UNCHANGED Mi!reading /\ mi_ticks2' = mi_ticks2 /\ mi_pend2' = mi_pend2
      /\ mi_count2' = mi_ulTickCount
      /\ (mi_caller = "sketch" => mi_systick = "idle" /\ mi_PENDST = 0)
  BY DEF Mi!ReadCount, Mi!Runs, Mi!progress
<1>t. Mi!TypeOK /\ Ticked /\ TimeFlow /\ mi_PENDST \in 0..1 /\ CounterWord \in Nat \ {0}
  BY TimeParameters DEF TimeInv, Mi!TypeOK
<1>2. AtCount(s)
  BY Zenon, <1>p, <1>1 DEF ReadsSince
<1>3. PICK a \in Past, j \in 0..mi_now + 1 :
        LastTicks(s, a, 2) /\ LastPend(a, j) /\ (~mi_first => ReadEarlier(s, 5, a))
  BY <1>2 DEF AtCount
<1>4. a \in Past' /\ LastTicks(s, a, 3)'
  BY <1>0, <1>1, <1>3, LastTicksKept
<1>5. ~mi_first => ReadEarlier(s, 6, a)'
  <2>1. ASSUME ReadEarlier(s, 5, a) PROVE ReadEarlier(s, 5 + 1, a)'
    BY <1>0, <1>1, <2>1, EarlierKept
  <2>. QED
    BY <1>3, <2>1
<1>k. TicksBy(a)' = TicksBy(a)
  BY DEF TicksBy
<1>6. \E k \in 0..mi_now' + 1 : LastWhole(a, k)'
  <2>1. CASE mi_caller = "sketch"
    <3>1. PICK k \in 0..mi_now' + 1 : k = TicksBy(mi_now)
      BY <1>0, TicksKnown
    <3>2. a < mi_now /\ a \in Nat
      BY <1>0, <1>3 DEF LastTicks, Past
    <3>3. TicksBy(a) <= k
      BY <1>0, <3>1, <3>2, TicksMonotone
    <3>4. k * Tick <= mi_now'
      BY <1>0, <3>1, TicksBounds
    <3>5. mi_pend2 = 0 /\ Late = 0
      BY <1>3, <2>1 DEF LastPend, Late
    <3>6. mi_ulTickCount = (k - Late) % CounterWord
      <4>1. Entered = 0 /\ mi_PENDST = 0
        BY <1>1, <2>1 DEF Entered
      <4>2. TicksBy(mi_now) \in Nat
        BY <1>0, TicksBounds
      <4>3. k - Late = TicksBy(mi_now) - mi_PENDST - Entered
        BY <3>1, <3>5, <4>1, <4>2
      <4>. QED
        BY <4>3, <1>t DEF Ticked
    <3>7. (k - Late) % CounterWord \in Nat
              /\ ((k - Late) % CounterWord) % CounterWord = (k - Late) % CounterWord
      <4> DEFINE x == k - Late
      <4>1. x \in Int /\ x + 0 = x
        BY <3>1, <3>5
      <4> HIDE DEF x
      <4>a. \A z \in Int : ((x % CounterWord) + z) % CounterWord = (x + z) % CounterWord
        BY <4>1, <1>t, AddedRemainder
      <4>b. x % CounterWord \in 0..CounterWord - 1
        BY <4>1, <1>t, DivMod
      <4> DEFINE y == x % CounterWord
      <4>c. y \in 0..CounterWord - 1 /\ y + 0 = y
        BY <4>b, <1>t
      <4>d. (y + 0) % CounterWord = (x + 0) % CounterWord
        BY <4>a
      <4> HIDE DEF y
      <4>2. ((x % CounterWord) + 0) % CounterWord = (x + 0) % CounterWord
                /\ x % CounterWord \in Nat
        BY <4>c, <4>d, <1>t DEF y
      <4>3. (x % CounterWord) % CounterWord = x % CounterWord
        BY <4>1, <4>2
      <4>. QED
        BY <4>2, <4>3 DEF x
    <3>8. (mi_count2' + mi_pend2') % CounterWord = (k - Late') % CounterWord
      <4>2. mi_count2' = mi_ulTickCount /\ mi_pend2' = 0 /\ mi_ulTickCount \in Nat
        BY <1>1, <3>5, <3>6, <3>7
      <4>1. mi_count2' + mi_pend2' = mi_ulTickCount
        BY <4>2
      <4>. QED
        BY <4>1, <3>6, <3>7, <1>0
    <3>9. LastWhole(a, k)'
      BY <1>k, <3>3, <3>4, <3>8 DEF LastWhole
    <3>. QED
      BY <3>9
  <2>2. CASE mi_caller # "sketch"
    <3>1. /\ TicksBy(a) <= j /\ j * Tick <= mi_now
          /\ (mi_ulTickCount + mi_pend2) % CounterWord = (j - Late) % CounterWord
      BY <1>3, <2>2 DEF LastPend
    <3>2. (mi_count2' + mi_pend2') % CounterWord = (j - Late') % CounterWord
      BY <1>0, <1>1, <3>1
    <3>3. j \in 0..mi_now' + 1
      BY <1>0
    <3>4. j * Tick <= mi_now'
      <4> DEFINE x == j * Tick
      <4>1. x \in Int
        BY <3>3, <1>0, TimeParameters
      <4>2. x <= mi_now
        BY <3>1
      <4> HIDE DEF x
      <4>3. x <= mi_now'
        BY <4>1, <4>2, <1>0
      <4>. QED
        BY <4>3 DEF x
    <3>5. LastWhole(a, j)'
      BY <1>k, <3>1, <3>2, <3>4 DEF LastWhole
    <3>. QED
      BY <3>3, <3>5
  <2>. QED
    BY <2>1, <2>2
<1>7. ReadsSince(s)'
  <2>1. CASE mi_first
    <3>1. AtTicks(s)'
      BY <1>4, <1>6 DEF AtTicks
    <3>. QED
      BY <1>1, <2>1, <3>1 DEF ReadsSince
  <2>2. CASE ~mi_first
    <3>1. AtTest(s)'
      BY <1>4, <1>5, <1>6, <2>2 DEF AtTest
    <3>. QED
      BY <1>1, <2>2, <3>1 DEF ReadsSince
  <2>. QED
    BY <2>1, <2>2
<1>. QED
  BY <1>0, <1>7 DEF TimeInv

\* A reading that is not stable becomes the one before.
LEMMA ReadAgain == ASSUME TimeInv, Mi!Again PROVE TimeInv'
<1>0. Mi!TypeOK /\ Ticked /\ TimeFlow
  BY DEF TimeInv
<1>p. PICK s \in Past : DelaySince(s) /\ ReadsSince(s)
  BY DEF TimeInv
<1>1. /\ mi_pc = "test" /\ mi_pc' = "ticks"
      /\ UNCHANGED <<mi_now, mi_PENDST, mi_ulTickCount, mi_systick, mi_caller, mi_first,
                     mi_stolen, Mi!reading, Mi!last, Mi!delay, Mi!history>>
  BY DEF Mi!Again, Mi!Runs, Mi!timer, Mi!progress
<1>2. Ticked'
  BY <1>0, <1>1 DEF Ticked, TicksBy, Entered
<1>3. Mi!TypeOK' /\ TimeFlow'
  BY <1>0, <1>1 DEF Mi!TypeOK, TimeFlow, Mi!reading, Mi!last, Mi!delay, Mi!history
<1>4. s \in Past' /\ DelaySince(s)'
  BY <1>p, <1>1 DEF Past, DelaySince, Mi!delay, Mi!history
<1>5. AtTest(s)
  BY Zenon, <1>p, <1>1 DEF ReadsSince
<1>6. PICK a \in Past, k \in 0..mi_now + 1 : LastTicks(s, a, 3) /\ LastWhole(a, k)
  BY <1>5 DEF AtTest
<1>7. a \in Past' /\ k \in 0..mi_now' + 1 /\ LastTicks(s, a, 3)' /\ LastWhole(a, k)'
  BY <1>1, <1>6 DEF Past, LastTicks, LastWhole, Late, Entered, TicksBy, Mi!VAL, Mi!last
<1>8. AtTicks(s)'
  BY <1>7 DEF AtTicks
<1>9. ReadsSince(s)'
  BY <1>1, <1>8 DEF ReadsSince
<1>. QED
  BY <1>2, <1>3, <1>4, <1>9 DEF TimeInv

\* A stable reading makes the microseconds of a time since s; in a handler above SysTick perhaps of a
\* tick earlier.
LEMMA Returned ==
  ASSUME TimeInv, Mi!Return, NEW s \in Past, ReadsSince(s)
  PROVE  \E v \in Int : /\ Mi!Value = Mi!Us(v) % CounterWord
                        /\ s - (IF mi_caller = "handler" THEN Tick ELSE 0) <= v /\ v <= mi_now
<1>0. /\ Mi!TypeOK /\ mi_now \in Nat /\ mi_stolen \in 0..MaxStolen /\ Tick \in Nat \ {0}
      /\ MaxStolen \in Nat
      /\ CounterWord \in Nat \ {0} /\ s \in Nat
  BY TimeParameters DEF TimeInv, Mi!TypeOK, Past
<1>1. mi_pc = "test" /\ mi_pend = mi_pend2 /\ mi_count = mi_count2 /\ mi_ticks >= mi_ticks2
  BY DEF Mi!Return, Mi!Runs, Mi!Stable
<1>2. AtTest(s)
  BY Zenon, <1>1 DEF ReadsSince
<1>3. PICK b \in Past, k \in 0..mi_now + 1 :
        LastTicks(s, b, 3) /\ LastWhole(b, k) /\ ReadEarlier(s, 6, b)
  BY <1>2 DEF AtTest
<1>4. PICK a \in Past, j \in 0..mi_now + 1 : FirstRead(s, a, j, 6) /\ j * Tick <= b
  BY <1>3 DEF ReadEarlier
<1>5. /\ s <= a /\ mi_now - a <= 6 + mi_stolen /\ mi_ticks = Mi!VAL(a) /\ TicksBy(a) <= j
      /\ (mi_count + mi_pend) % CounterWord = (j - Late) % CounterWord
  BY <1>4 DEF FirstRead
<1>6. /\ b < mi_now /\ mi_ticks2 = Mi!VAL(b) /\ TicksBy(b) <= k /\ k * Tick <= mi_now
      /\ (mi_count2 + mi_pend2) % CounterWord = (k - Late) % CounterWord
  BY <1>3 DEF LastTicks, LastWhole
<1>7. a \in Nat /\ b \in Nat /\ j \in Nat /\ k \in Nat /\ Late \in 0..1
          /\ mi_now - a <= MaxStolen + 6
  BY <1>0, <1>5 DEF Past, Late, Entered
<1> DEFINE c == mi_count + mi_pend
<1> DEFINE l == Late
<1>8. c \in Int /\ l \in 0..1 /\ c % CounterWord = (j - l) % CounterWord
          /\ c % CounterWord = (k - l) % CounterWord
  BY <1>0, <1>1, <1>5, <1>6, <1>7 DEF Mi!TypeOK
<1>9. Mi!VAL(b) <= Mi!VAL(a)
  BY <1>0, <1>1, <1>5, <1>6 DEF Mi!TypeOK
<1>10. Mi!Value = (c * MicrosPerMs + Mi!Scaled(Tick - 1 - Mi!VAL(a))) % CounterWord
  BY <1>5 DEF Mi!Value
<1>11. l * Tick <= (IF mi_caller = "handler" THEN Tick ELSE 0) /\ l * Tick \in Int
  BY <1>0 DEF Late, Entered
<1> HIDE DEF c, l
<1>12. PICK v \in Int : /\ (c * MicrosPerMs + Mi!Scaled(Tick - 1 - Mi!VAL(a))) % CounterWord
                              = Mi!Us(v) % CounterWord
                        /\ a - l * Tick <= v /\ v <= mi_now
  <2>1. a \in Nat /\ b \in Nat /\ j \in Nat /\ k \in Nat /\ l \in 0..1 /\ mi_now \in Nat
            /\ c \in Int
    BY <1>0, <1>7, <1>8
  <2>2. TicksBy(a) <= j /\ j * Tick <= b /\ TicksBy(b) <= k /\ k * Tick <= mi_now
    BY <1>4, <1>5, <1>6
  <2>3. mi_now - a <= MaxStolen + 6 /\ b < mi_now /\ Mi!VAL(b) <= Mi!VAL(a)
    BY <1>6, <1>7, <1>9
  <2>4. ReadBetween(a, b, j, k, l, mi_now, c)
    BY <2>2, <2>3, <1>8 DEF ReadBetween
  <2>5. TimeBetween(c, Mi!VAL(a), l, a, mi_now)
    BY <2>1, <2>4, Reading
  <2>. QED
    BY <2>5 DEF TimeBetween
<1>13. s - (IF mi_caller = "handler" THEN Tick ELSE 0) <= v
  <2> DEFINE x == l * Tick
  <2> DEFINE y == IF mi_caller = "handler" THEN Tick ELSE 0
  <2>1. x \in Int /\ y \in Int /\ x <= y /\ a - x <= v
    BY <1>0, <1>11, <1>12
  <2> HIDE DEF x, y
  <2>2. s - y <= v
    BY <2>1, <1>0, <1>5, <1>7
  <2>. QED
    BY <2>2 DEF y
<1>. QED
  BY <1>10, <1>12, <1>13

\* A return leaves nothing read.
LEMMA ReturnKept ==
  ASSUME TimeInv, Mi!Return
  PROVE  /\ Ticked' /\ mi_now' = mi_now
         /\ mi_caller' = "none" /\ mi_pc' = "ticks" /\ mi_first' = TRUE
         /\ \A s : ReadsSince(s)'
         /\ (/\ mi_delaying' \in {"no", "start", "loop"} /\ mi_ms' \in Nat
             /\ mi_start' \in 0..CounterWord - 1
             /\ mi_called' \in 0..MaxTime /\ mi_asked' \in Delays \cup {0}
             /\ mi_delaying' # "start" /\ (mi_delaying' # "no" => mi_delaying # "no"))
            => Mi!TypeOK' /\ TimeFlow'
<1>0. /\ Mi!TypeOK /\ Ticked /\ TimeFlow /\ Tick \in Nat \ {0} /\ CounterWord \in Nat \ {0}
      /\ MaxStolen \in Nat
  BY TimeParameters DEF TimeInv, Mi!TypeOK
<1>1. /\ UNCHANGED <<mi_now, mi_PENDST, mi_ulTickCount, mi_systick>>
      /\ mi_caller' = "none" /\ mi_pc' = "ticks" /\ mi_first' = TRUE /\ mi_stolen' = 0
      /\ mi_ticks' = 0 /\ mi_pend' = 0 /\ mi_count' = 0 /\ mi_ticks2' = 0 /\ mi_pend2' = 0
      /\ mi_count2' = 0
  BY DEF Mi!Return, Mi!timer
<1>2. Ticked'
  BY <1>0, <1>1 DEF Ticked, TicksBy, Entered
<1>3. \A s : ReadsSince(s)'
  BY <1>1 DEF ReadsSince
<1>4. ASSUME /\ mi_delaying' \in {"no", "start", "loop"} /\ mi_ms' \in Nat
             /\ mi_start' \in 0..CounterWord - 1
             /\ mi_called' \in 0..MaxTime /\ mi_asked' \in Delays \cup {0}
             /\ mi_delaying' # "start" /\ (mi_delaying' # "no" => mi_delaying # "no")
      PROVE  Mi!TypeOK' /\ TimeFlow'
  BY <1>0, <1>1, <1>4 DEF Mi!TypeOK, TimeFlow
<1>. QED
  BY <1>1, <1>2, <1>3, <1>4

\* micros() returns with the invariant.
LEMMA CallerReturns == ASSUME TimeInv, Mi!ReturnToCaller PROVE TimeInv'
<1>0. Mi!TypeOK /\ TimeFlow /\ mi_now \in Nat /\ MaxTime \in Nat
  BY TimeParameters DEF TimeInv, Mi!TypeOK
<1>p. PICK s \in Past : DelaySince(s)
  BY DEF TimeInv
<1>1. /\ mi_delaying' = mi_delaying /\ mi_ms' = mi_ms /\ mi_start' = mi_start
      /\ mi_asked' = mi_asked /\ mi_called' = 0
      /\ Mi!Return /\ (mi_caller = "sketch" => mi_delaying = "no") /\ mi_caller # "none"
  BY DEF Mi!ReturnToCaller, Mi!Return, Mi!Runs, Mi!delay
<1>2. mi_delaying = "no"
  BY <1>0, <1>1 DEF TimeFlow
<1>3. /\ Ticked' /\ mi_now' = mi_now /\ ReadsSince(s)' /\ Mi!TypeOK' /\ TimeFlow'
  BY <1>0, <1>1, <1>2, ReturnKept DEF Mi!TypeOK
<1>4. s \in Past' /\ DelaySince(s)'
  BY <1>0, <1>1, <1>2, <1>3 DEF DelaySince, Past
<1>. QED
  BY <1>3, <1>4 DEF TimeInv

\* delay() starts from a time since its call.
LEMMA DelayBegins == ASSUME TimeInv, Mi!DelayStarts PROVE TimeInv'
<1>0. Mi!TypeOK /\ TimeFlow /\ mi_now \in Nat /\ CounterWord \in Nat \ {0} /\ Tick \in Nat \ {0}
  BY TimeParameters DEF TimeInv, Mi!TypeOK
<1>p. PICK s \in Past : DelaySince(s) /\ ReadsSince(s)
  BY DEF TimeInv
<1>1. /\ mi_delaying' = "loop" /\ mi_ms' = mi_ms /\ mi_start' = Mi!Value /\ mi_asked' = mi_asked
      /\ mi_called' = mi_called
      /\ Mi!Return /\ mi_caller = "sketch" /\ mi_delaying = "start"
  BY DEF Mi!DelayStarts, Mi!history
<1>2. PICK v \in Int : /\ Mi!Value = Mi!Us(v) % CounterWord
                       /\ s - (IF mi_caller = "handler" THEN Tick ELSE 0) <= v /\ v <= mi_now
  BY <1>p, <1>1, Returned
<1>3. s <= v /\ s \in Nat
  BY <1>0, <1>1, <1>2 DEF Past
<1>4. Mi!Value \in 0..CounterWord - 1
  BY <1>0, <1>2, UsGrows, DivMod
<1>5. /\ Ticked' /\ mi_now' = mi_now /\ ReadsSince(v)' /\ Mi!TypeOK' /\ TimeFlow'
  BY <1>0, <1>1, <1>4, ReturnKept DEF Mi!TypeOK
<1>6. v \in Past'
  BY <1>0, <1>2, <1>3, <1>5 DEF Past
<1>7. mi_called <= v /\ Mi!Us(mi_called) + (mi_asked - mi_ms) * MicrosPerMs <= Mi!Us(v)
  <2>1. mi_ms = mi_asked /\ mi_ms \in Nat /\ mi_called <= s /\ mi_called \in Nat
    BY <1>0, <1>1, <1>p, TimeParameters DEF TimeFlow, DelaySince, Mi!TypeOK
  <2>2. (mi_asked - mi_ms) * MicrosPerMs = 0
    BY <2>1, ScaleParameters
  <2>3. mi_called <= v
    BY <2>1, <1>3
  <2>4. Mi!Us(mi_called) \in Int /\ Mi!Us(mi_called) <= Mi!Us(v)
    BY <2>1, <2>3, UsGrows
  <2>. QED
    BY <2>2, <2>3, <2>4
<1>8. DelaySince(v)'
  BY <1>1, <1>2, <1>7 DEF DelaySince
<1>. QED
  BY <1>5, <1>6, <1>8 DEF TimeInv

\* The whole ms of a time that has wrapped are no more than the time.
LEMMA NoMoreThan ==
  ASSUME NEW x \in Nat, NEW p \in Nat \ {0}, NEW w \in Nat \ {0}
  PROVE  (x % w) \div p \in Nat /\ ((x % w) \div p) * p <= x
<1>1. x \div w \in Int /\ x % w \in 0..w - 1 /\ x = w * (x \div w) + (x % w)
  BY DivMod
<1> DEFINE y == x % w
<1> DEFINE d == x \div w
<1>2. y \in Nat /\ d \in Int /\ y < w /\ x = w * d + y
  BY <1>1
<1> HIDE DEF y, d
<1>3. y <= x
  <2>1. d >= 0
    <3> SUFFICES ASSUME d <= -1 PROVE FALSE
      BY <1>2
    <3>1. w * d = -w + w * (d + 1) /\ w * (d + 1) <= 0
      BY <1>2
    <3>. QED
      BY <3>1, <1>2
  <2>2. w * d >= 0
    BY <2>1, <1>2
  <2>. QED
    BY <2>2, <1>2
<1>4. y \div p \in Int /\ y % p \in 0..p - 1 /\ y = p * (y \div p) + (y % p)
  BY <1>2, DivMod
<1> DEFINE q == y \div p
<1> DEFINE r == y % p
<1>5. q \in Int /\ r \in 0..p - 1 /\ y = p * q + r
  BY <1>4
<1> HIDE DEF q, r
<1>6. q >= 0
  <2> SUFFICES ASSUME q <= -1 PROVE FALSE
    BY <1>5
  <2>1. p * q = -p + p * (q + 1) /\ p * (q + 1) <= 0
    BY <1>5
  <2>. QED
    BY <2>1, <1>2, <1>5
<1>7. q \in Nat /\ q * p <= x
  BY <1>2, <1>3, <1>5, <1>6
<1>. QED
  BY <1>7 DEF q, y

\* A pass of delay() counts no more ms than have passed since the time start stands for, also when
\* the microseconds have started again at zero.
LEMMA DelayPasses ==
  ASSUME TimeInv, Mi!DelayLoops
  PROVE  /\ Mi!Return /\ mi_caller = "sketch" /\ mi_delaying = "loop"
         /\ Mi!Value \in Nat /\ Mi!MsPassed \in Nat
         /\ \E s \in Past, v \in Past :
              /\ DelaySince(s) /\ s <= v /\ Mi!Value = Mi!Us(v) % CounterWord
              /\ Mi!Us(s) + Mi!MsPassed * MicrosPerMs <= Mi!Us(v)
<1>0. /\ Mi!TypeOK /\ TimeFlow /\ mi_now \in Nat /\ CounterWord \in Nat \ {0}
      /\ MicrosPerMs \in Nat \ {0}
  BY TimeParameters, ScaleParameters DEF TimeInv, Mi!TypeOK
<1>p. PICK s \in Past : DelaySince(s) /\ ReadsSince(s)
  BY DEF TimeInv
<1>1. Mi!Return /\ mi_caller = "sketch" /\ mi_delaying = "loop"
  BY DEF Mi!DelayLoops
<1>2. PICK v \in Int : /\ Mi!Value = Mi!Us(v) % CounterWord
                       /\ s - (IF mi_caller = "handler" THEN Tick ELSE 0) <= v /\ v <= mi_now
  BY <1>p, <1>1, Returned
<1>3. s <= v /\ s \in Nat /\ v \in Nat /\ v \in Past
  BY <1>0, <1>1, <1>2 DEF Past
<1> DEFINE us == Mi!Us(s)
<1> DEFINE uv == Mi!Us(v)
<1>u. us \in Int /\ uv \in Int /\ us <= uv
  BY <1>3, UsGrows
<1>4. mi_start = us % CounterWord /\ Mi!Value = uv % CounterWord
  BY <1>1, <1>2, <1>p DEF DelaySince
<1> HIDE DEF us, uv
<1> DEFINE x == uv - us
<1>5. x \in Nat /\ us + x = uv
  BY <1>u
<1>6. (Mi!Value - mi_start) % CounterWord = x % CounterWord
  <2>2. uv \in Int /\ us \in Int /\ CounterWord \in Nat \ {0}
    BY <1>0, <1>u
  <2>3. \A n \in Nat \ {0}, y, z \in Int : ((y % n) - (z % n)) % n = (y - z) % n
    BY SubtractedRemainder
  <2>1. ((uv % CounterWord) - (us % CounterWord)) % CounterWord = (uv - us) % CounterWord
    BY <2>2, <2>3
  <2>. QED
    BY <2>1, <1>4
<1> HIDE DEF x
<1>7. Mi!MsPassed = (x % CounterWord) \div MicrosPerMs
  BY <1>6 DEF Mi!MsPassed
<1>8. /\ (x % CounterWord) \div MicrosPerMs \in Nat
      /\ ((x % CounterWord) \div MicrosPerMs) * MicrosPerMs <= x
  BY <1>0, <1>5, NoMoreThan
<1>9. Mi!MsPassed \in Nat /\ Mi!MsPassed * MicrosPerMs <= x
  BY <1>7, <1>8
<1>10. us + Mi!MsPassed * MicrosPerMs <= uv
  <2> DEFINE y == Mi!MsPassed * MicrosPerMs
  <2>1. y \in Int /\ y <= x
    BY <1>0, <1>9
  <2> HIDE DEF y
  <2>2. us + y <= uv
    BY <2>1, <1>u, <1>5
  <2>. QED
    BY <2>2 DEF y
<1>11. Mi!Value \in Nat
  BY <1>0, <1>u, <1>4, DivMod
<1>12. Mi!Us(s) + Mi!MsPassed * MicrosPerMs <= Mi!Us(v)
  BY <1>10 DEF us, uv
<1>. QED
  BY <1>1, <1>p, <1>2, <1>3, <1>9, <1>12, <1>11

\* A pass of delay() keeps the invariant: start moves on by the ms that were counted.
LEMMA DelayGoesOn == ASSUME TimeInv, Mi!DelayLoops PROVE TimeInv'
<1>0. /\ Mi!TypeOK /\ TimeFlow /\ mi_now \in Nat /\ CounterWord \in Nat \ {0}
      /\ Tick \in Nat \ {0} /\ MicrosPerMs \in Nat \ {0} /\ mi_ms \in Nat
      /\ mi_asked \in Nat /\ mi_called \in Nat /\ MaxTime \in Nat
  BY TimeParameters, ScaleParameters DEF TimeInv, Mi!TypeOK
<1>1. /\ Mi!Return /\ mi_caller = "sketch" /\ mi_delaying = "loop" /\ Mi!MsPassed \in Nat
  BY DelayPasses
<1>p. PICK s \in Past, v \in Past :
        /\ DelaySince(s) /\ s <= v
        /\ Mi!Us(s) + Mi!MsPassed * MicrosPerMs <= Mi!Us(v)
  BY DelayPasses
<1>2. PICK n \in Nat :
        /\ n = (IF Mi!MsPassed < mi_ms THEN Mi!MsPassed ELSE mi_ms) /\ mi_ms' = mi_ms - n
        /\ IF n = mi_ms
           THEN mi_delaying' = "no" /\ mi_start' = 0 /\ mi_called' = 0 /\ mi_asked' = 0
           ELSE /\ mi_start' = (mi_start + n * MicrosPerMs) % CounterWord
                /\ mi_delaying' = mi_delaying
                /\ mi_called' = mi_called /\ mi_asked' = mi_asked
  BY <1>0, <1>1 DEF Mi!DelayLoops, Mi!history
<1>3. n <= Mi!MsPassed /\ n <= mi_ms /\ mi_ms' \in Nat
  BY <1>0, <1>1, <1>2
<1>s. s \in Nat /\ v \in Nat /\ v <= mi_now
  BY <1>0 DEF Past
<1> DEFINE x == n * MicrosPerMs
<1> DEFINE us == Mi!Us(s)
<1> DEFINE uv == Mi!Us(v)
<1>4. /\ x \in Nat /\ us \in Int /\ uv \in Int /\ us + x <= uv
      /\ Mi!Us(s + n * Tick) = us + x /\ s + n * Tick \in Nat /\ s <= s + n * Tick
  <2>1. n * MicrosPerMs <= Mi!MsPassed * MicrosPerMs
    BY <1>0, <1>1, <1>3, TimesMonotone
  <2>2. us \in Int /\ uv \in Int /\ Mi!Us(s + n * Tick) = us + x
    BY <1>s, UsGrows
  <2> DEFINE y == Mi!MsPassed * MicrosPerMs
  <2>3. x \in Nat /\ y \in Nat /\ x <= y /\ us + y <= uv
    BY <1>0, <1>1, <1>p, <2>1
  <2>4. s + n * Tick \in Nat /\ s <= s + n * Tick
    BY <1>0, <1>s
  <2> HIDE DEF x, y, us, uv
  <2>. QED
    BY <2>2, <2>3, <2>4
<1>t. PICK t \in Nat : s <= t /\ t <= v /\ Mi!Us(t) = us + x
  <2> DEFINE e == s + n * Tick
  <2>1. e \in Nat /\ s <= e /\ Mi!Us(e) = us + x
    BY <1>4
  <2> HIDE DEF e
  <2>2. CASE e <= v
    BY <2>1, <2>2
  <2>3. CASE v < e
    <3>1. uv <= Mi!Us(e)
      BY <1>s, <2>1, <2>3, UsGrows
    <3> HIDE DEF x
    <3>2. uv = us + x
      BY <1>4, <2>1, <3>1
    <3>. QED
      BY <1>p, <1>s, <3>2
  <2>. QED
    BY <1>s, <2>1, <2>2, <2>3
<1>5. mi_start' \in 0..CounterWord - 1
  <2>1. CASE n = mi_ms
    BY <1>0, <1>2, <2>1
  <2>2. CASE n # mi_ms
    <3>1. mi_start \in Int /\ mi_start' = (mi_start + x) % CounterWord /\ mi_start + x \in Int
      BY <1>0, <1>2, <1>4, <2>2 DEF Mi!TypeOK
    <3> HIDE DEF x
    <3> DEFINE y == mi_start + x
    <3>2. y \in Int /\ mi_start' = y % CounterWord
      BY <3>1
    <3> HIDE DEF y
    <3>. QED
      BY <1>0, <3>2, DivMod
  <2>. QED
    BY <2>1, <2>2
<1>6. /\ mi_delaying' \in {"no", "start", "loop"} /\ mi_called' \in 0..MaxTime
      /\ mi_asked' \in Delays \cup {0} /\ mi_delaying' # "start" /\ mi_delaying # "no"
  BY <1>0, <1>1, <1>2 DEF Mi!TypeOK
<1>7. /\ Ticked' /\ mi_now' = mi_now /\ Mi!TypeOK' /\ TimeFlow' /\ \A u : ReadsSince(u)'
  BY <1>1, <1>3, <1>5, <1>6, ReturnKept
<1>8. t \in Past'
  BY <1>0, <1>t, <1>7, <1>s DEF Past
<1>c. mi_called <= s
  BY <1>p DEF DelaySince
<1>9. DelaySince(t)'
  <2>1. CASE n = mi_ms
    <3>1. mi_delaying' = "no" /\ mi_called' = 0
      BY <1>2, <2>1
    <3>. QED
      BY <3>1, <1>t DEF DelaySince
  <2>2. CASE n # mi_ms
    <3>1. /\ mi_start' = (mi_start + x) % CounterWord /\ mi_called' = mi_called
          /\ mi_asked' = mi_asked /\ mi_ms' = mi_ms - n
          /\ mi_start = us % CounterWord
          /\ Mi!Us(mi_called) + (mi_asked - mi_ms) * MicrosPerMs <= us
          /\ mi_called <= s
      BY <1>1, <1>2, <1>p, <2>2 DEF DelaySince
    <3>2. mi_start' = Mi!Us(t) % CounterWord
      <4> HIDE DEF x, us
      <4>2. us \in Int /\ CounterWord \in Nat \ {0}
        BY <1>0, <1>4
      <4>3. \A n2 \in Nat \ {0}, y, z \in Int : ((y % n2) + z) % n2 = (y + z) % n2
        BY AddedRemainder
      <4>1. \A z \in Int : ((us % CounterWord) + z) % CounterWord = (us + z) % CounterWord
        BY <4>2, <4>3
      <4>. QED
        BY <3>1, <4>1, <1>4, <1>t
    <3>3. Mi!Us(mi_called) + (mi_asked' - mi_ms') * MicrosPerMs <= Mi!Us(t)
      <4> DEFINE y == (mi_asked - mi_ms) * MicrosPerMs
      <4> DEFINE uc == Mi!Us(mi_called)
      <4>1. (mi_asked - (mi_ms - n)) * MicrosPerMs = y + x
        BY <1>0
      <4>2. y \in Int /\ uc \in Int /\ uc + y <= us
        BY <1>0, <3>1, UsGrows
      <4> DEFINE z == (mi_asked - (mi_ms - n)) * MicrosPerMs
      <4>3. z = y + x
        BY <4>1
      <4> HIDE DEF x, y, z, uc, us
      <4>4. uc + z <= us + x
        BY <4>2, <4>3, <1>4
      <4>. QED
        BY <4>4, <3>1, <1>t DEF z, uc
    <3>4. mi_called' <= t
      BY <3>1, <1>0, <1>t, <1>s
    <3>. QED
      BY <3>1, <3>2, <3>3, <3>4 DEF DelaySince, Mi!Us, Mi!Scaled
  <2>. QED
    BY <2>1, <2>2
<1>. QED
  BY <1>7, <1>8, <1>9 DEF TimeInv

\* The inductive invariant holds of every behaviour.
THEOREM TimeInvariance == Mi!Spec => []TimeInv
<1>1. Mi!Init => TimeInv
  BY TimeStarts
<1>2. TimeInv /\ [Mi!Next]_Mi!vars => TimeInv'
  BY TimeGoesOn, TimeStutters, Begins, TicksRead, PendRead, CountRead, ReadAgain, CallerReturns,
     DelayBegins, DelayGoesOn DEF Mi!Next
<1>. QED
  BY <1>1, <1>2, PTL DEF Mi!Spec

\* What micros() returns is a time of its call.
LEMMA WindowStep ==
  ASSUME TimeInv, Mi!Return
  PROVE  Mi!Value \in Mi!Times(IF mi_caller = "handler" THEN mi_called - Tick ELSE mi_called)
<1>0. mi_now \in Nat /\ mi_called \in Nat /\ Tick \in Nat
  BY TimeParameters DEF TimeInv, Mi!TypeOK
<1>1. PICK s \in Past : DelaySince(s) /\ ReadsSince(s)
  BY DEF TimeInv
<1>2. PICK v \in Int : /\ Mi!Value = Mi!Us(v) % CounterWord
                       /\ s - (IF mi_caller = "handler" THEN Tick ELSE 0) <= v /\ v <= mi_now
  BY <1>1, Returned
<1>3. s \in Nat /\ mi_called <= s
  BY <1>0, <1>1 DEF Past, DelaySince
<1>4. v \in (IF mi_caller = "handler" THEN mi_called - Tick ELSE mi_called)..mi_now
  BY <1>0, <1>2, <1>3
<1>. QED
  BY <1>2, <1>4 DEF Mi!Times

\* When delay() ends, the time it was asked for has passed.
LEMMA LastsStep ==
  ASSUME TimeInv, Mi!DelayLoops, mi_delaying' = "no"
  PROVE  Mi!Us(mi_now) - Mi!Us(mi_called) >= mi_asked * MicrosPerMs
<1>0. /\ mi_now \in Nat /\ MicrosPerMs \in Nat \ {0} /\ mi_ms \in Nat /\ mi_asked \in Nat
      /\ mi_called \in Nat
  BY TimeParameters, ScaleParameters DEF TimeInv, Mi!TypeOK
<1>1. mi_delaying = "loop" /\ Mi!MsPassed \in Nat
  BY DelayPasses
<1>p. PICK s \in Past, v \in Past :
        DelaySince(s) /\ Mi!Us(s) + Mi!MsPassed * MicrosPerMs <= Mi!Us(v)
  BY DelayPasses
<1>2. mi_ms <= Mi!MsPassed
  BY <1>0, <1>1 DEF Mi!DelayLoops
<1> DEFINE us == Mi!Us(s)
<1> DEFINE uv == Mi!Us(v)
<1> DEFINE uc == Mi!Us(mi_called)
<1> DEFINE un == Mi!Us(mi_now)
<1>3. uc + (mi_asked - mi_ms) * MicrosPerMs <= us
  BY <1>0, <1>1, <1>p DEF DelaySince
<1>v. s \in Int /\ v \in Int /\ mi_called \in Int /\ mi_now \in Int /\ v <= mi_now
  BY <1>0 DEF Past
<1>w. us \in Int /\ uv \in Int /\ uc \in Int /\ un \in Int
  BY <1>v, UsGrows
<1>x. uv <= un
  BY <1>v, UsGrows
<1>u. us \in Int /\ uv \in Int /\ uc \in Int /\ un \in Int /\ uv <= un
  BY <1>w, <1>x
<1>4. mi_ms * MicrosPerMs <= Mi!MsPassed * MicrosPerMs
  BY <1>0, <1>1, <1>2, TimesMonotone
<1> DEFINE x == mi_ms * MicrosPerMs
<1> DEFINE y == Mi!MsPassed * MicrosPerMs
<1> DEFINE z == mi_asked * MicrosPerMs
<1>5. /\ x \in Nat /\ y \in Nat /\ z \in Nat /\ x <= y
      /\ (mi_asked - mi_ms) * MicrosPerMs = z - x
  BY <1>0, <1>1, <1>4
<1>6. uc + (z - x) <= us /\ us + y <= uv
  BY <1>3, <1>5, <1>p
<1> HIDE DEF x, y, z, us, uv, uc, un
<1>7. un - uc >= z
  BY <1>u, <1>5, <1>6
<1>. QED
  BY <1>7 DEF z, un, uc

\* micros() and delay() (delay.c): whatever runs between its reads, and wherever the counts wrap,
\* micros() returns the microseconds of a time within its call, in a handler above SysTick at worst
\* of a tick early; and delay() never ends too soon by that count.  For every length of a tick, every
\* width of the word and every scaling that takes the clocks of a ms to less than a ms.
THEOREM TimeIsRight == Mi!Spec => TimeRight
<1>1. TimeInv /\ [Mi!Next]_Mi!vars =>
        [Mi!Return => Mi!Value \in Mi!Times(IF mi_caller = "handler" THEN mi_called - Tick
            ELSE mi_called)]_Mi!vars
  BY WindowStep
<1>2. TimeInv /\ [Mi!Next]_Mi!vars => [Mi!DelayLoops /\ mi_delaying' = "no"
          => Mi!Us(mi_now) - Mi!Us(mi_called) >= mi_asked * MicrosPerMs]_Mi!vars
  BY LastsStep
<1>. QED
  BY <1>1, <1>2, TimeInvariance, PTL DEF Mi!Spec, Mi!InWindow, Mi!DelayLasts, TimeRight

\* The time, the ticks and what is read of them stay in their types, the counts within their word.
THEOREM TimeTypes == Mi!Spec => []Mi!TypeOK
<1>1. TimeInv => Mi!TypeOK
  BY DEF TimeInv
<1>. QED
  BY <1>1, TimeInvariance, PTL

-----------------------------------------------------------------------------
(***************************************************************************)
(* The frequency of a tone, and the types of the parts.                    *)
(***************************************************************************)
\* The search for a prescaler ends, with a value that the 16 bits of the timer hold.
LEMMA TimerTyped ==
  ASSUME NEW f \in Frequencies, f # 0
  PROVE  /\ Tn!CcValue(f) \in 0..TONE_TC_TOP /\ Tn!Prescaler(Tn!Turns(f)) \in Nat \ {0}
         /\ Tn!Turns(f) \in 0..7 /\ toneMaxFrequency \div f \in Nat
<1>1. /\ toneMaxFrequency \in Nat /\ TONE_TC_TOP \in Nat /\ TONE_TC_TOP > 1 /\ f \in Nat \ {0}
      /\ f <= toneMaxFrequency
      /\ toneMaxFrequency \div 1024 <= TONE_TC_TOP + 1
  BY CoreAssumption DEF Tn!ToneAssumption
<1> DEFINE m == toneMaxFrequency \div f
           T == {n \in 0..7 : Tn!Quotient(f, n) - 1 \in 0..TONE_TC_TOP}
<1>2. m \in Nat /\ m <= toneMaxFrequency
  <2>1. m \in Int /\ toneMaxFrequency % f \in 0..f - 1 /\ toneMaxFrequency = f * m + (toneMaxFrequency % f)
    BY <1>1, DivMod
  <2>2. m \in Nat
    <3>1. 0 \in Nat /\ 0 <= toneMaxFrequency
      BY <1>1
    <3>2. toneMaxFrequency <= toneMaxFrequency
      BY <1>1
    <3>. QED
      BY <1>1, <3>2, QuotientGrows
  <2>3. f * m >= m
    <3> HIDE DEF m
    <3>1. f * m = m + (f - 1) * m
      BY <1>1, <2>2
    <3>2. (f - 1) * m >= 0
      BY <1>1, <2>2
    <3>. QED
      BY <1>1, <2>2, <3>1, <3>2
  <2> DEFINE r == toneMaxFrequency % f
             p == f * m
  <2>4. p \in Nat
    BY <1>1, <2>2
  <2> HIDE DEF m, r, p
  <2>5. r \in Nat /\ toneMaxFrequency = p + r /\ p >= m
    BY <1>1, <2>1, <2>3 DEF p, r
  <2>. QED
    BY <1>1, <2>2, <2>4, <2>5
<1>3. ASSUME NEW n \in 0..7
      PROVE  Tn!Quotient(f, n) \in Nat /\ Tn!Prescaler(n) \in Nat \ {0}
  <2>1. n \in {0, 1, 2, 3, 4, 5, 6, 7}
    BY <1>3
  <2>2. /\ Tn!Shifts[1] = 0 /\ Tn!Shifts[2] = 1 /\ Tn!Shifts[3] = 2 /\ Tn!Shifts[4] = 3
        /\ Tn!Shifts[5] = 5 /\ Tn!Shifts[6] = 7 /\ Tn!Shifts[7] = 9
    BY DEF Tn!Shifts
  <2>3. 2^(0 + 1) = 2 /\ 2^(1 + 1) = 4 /\ 2^(2 + 1) = 8 /\ 2^(3 + 1) = 16 /\ 2^(5 + 1) = 64
          /\ 2^(7 + 1) = 256 /\ 2^(9 + 1) = 1024
    OBVIOUS
  <2>4. n # 0 => 2^(Tn!Shifts[n] + 1) \in Nat \ {0} /\ (n = 7 => 2^(Tn!Shifts[n] + 1) = 1024)
    <3> DEFINE W(k) == 2^(k + 1)
    <3>1. /\ W(0) = 2 /\ W(1) = 4 /\ W(2) = 8 /\ W(3) = 16 /\ W(5) = 64 /\ W(7) = 256
          /\ W(9) = 1024
      BY <2>3
    <3> DEFINE w == W(Tn!Shifts[n])
    <3> HIDE DEF W
    <3>2. n # 0 => w \in {2, 4, 8, 16, 64, 256, 1024} /\ (n = 7 => w = 1024)
      BY <2>1, <2>2, <3>1
    <3> HIDE DEF w
    <3>3. n # 0 => w \in Nat \ {0} /\ (n = 7 => w = 1024)
      BY <3>2
    <3>. QED
      BY <3>3 DEF w, W
  <2>5. Tn!Quotient(f, n) \in Nat
    <3> DEFINE d == IF n = 0 THEN 1 ELSE 2^(Tn!Shifts[n] + 1)
    <3>1. d \in Nat \ {0}
      BY <2>4
    <3>2. Tn!Quotient(f, n) = m \div d
      BY DEF Tn!Quotient, Tn!Divisor
    <3> HIDE DEF d, m
    <3>3. m <= m
      BY <1>2
    <3>4. m \div d \in Nat
      BY <1>2, <3>1, <3>3, QuotientGrows
    <3>. QED
      BY <3>1, <3>2, <3>4
  <2>6. Tn!NextShift(n) \in {0, 1, 2, 3, 5, 7, 9, 10}
    BY <2>1, <2>2 DEF Tn!NextShift
  <2>7. /\ 2^0 \in Nat \ {0} /\ 2^1 \in Nat \ {0} /\ 2^2 \in Nat \ {0} /\ 2^3 \in Nat \ {0}
        /\ 2^5 \in Nat \ {0} /\ 2^7 \in Nat \ {0} /\ 2^9 \in Nat \ {0} /\ 2^10 \in Nat \ {0}
    OBVIOUS
  <2>8. Tn!Prescaler(n) \in Nat \ {0}
    <3> DEFINE k == Tn!NextShift(n)
    <3> HIDE DEF k
    <3>1. k \in {0, 1, 2, 3, 5, 7, 9, 10}
      BY <2>6 DEF k
    <3>2. 2^k \in Nat \ {0}
      BY <2>7, <3>1, Zenon
    <3>. QED
      BY <3>2 DEF k, Tn!Prescaler
  <2>. QED
    BY <2>5, <2>8
<1>m. 1 <= m
  <2>1. m \in Int /\ toneMaxFrequency % f \in 0..f - 1
            /\ toneMaxFrequency = f * m + (toneMaxFrequency % f)
    BY <1>1, DivMod
  <2> DEFINE r == toneMaxFrequency % f
  <2> HIDE DEF m, r
  <2>2. ASSUME m = 0 PROVE FALSE
    BY <1>1, <2>1, <2>2 DEF r
  <2>. QED
    BY <1>2, <2>2
<1>q. /\ Tn!Quotient(f, 0) = m \div 1 /\ Tn!Quotient(f, 1) = m \div 2
      /\ Tn!Quotient(f, 2) = m \div 4 /\ Tn!Quotient(f, 3) = m \div 8
      /\ Tn!Quotient(f, 4) = m \div 16 /\ Tn!Quotient(f, 5) = m \div 64
      /\ Tn!Quotient(f, 6) = m \div 256 /\ Tn!Quotient(f, 7) = m \div 1024
  <2>2. /\ Tn!Shifts[1] = 0 /\ Tn!Shifts[2] = 1 /\ Tn!Shifts[3] = 2 /\ Tn!Shifts[4] = 3
        /\ Tn!Shifts[5] = 5 /\ Tn!Shifts[6] = 7 /\ Tn!Shifts[7] = 9
    BY DEF Tn!Shifts
  <2>3. 2^(0 + 1) = 2 /\ 2^(1 + 1) = 4 /\ 2^(2 + 1) = 8 /\ 2^(3 + 1) = 16 /\ 2^(5 + 1) = 64
          /\ 2^(7 + 1) = 256 /\ 2^(9 + 1) = 1024
    OBVIOUS
  <2>. QED
    BY <2>2, <2>3 DEF Tn!Quotient, Tn!Divisor
<1>4. \E n \in T : TRUE
  <2>1. m \div 1024 <= toneMaxFrequency \div 1024
    <3> HIDE DEF m
    <3>. QED
      BY <1>1, <1>2, QuotientGrows
  <2> DEFINE t == toneMaxFrequency \div 1024
  <2>2. t \in Nat
    BY <1>1, QuotientGrows
  <2> HIDE DEF t, m
  <2>3. m \div 1024 <= t /\ t <= TONE_TC_TOP + 1
    BY <1>1, <2>1 DEF t
  <2> DEFINE Ends(d) == (m \div d) - 1 \in 0..TONE_TC_TOP
  <2>4. Ends(1) \/ Ends(2) \/ Ends(4) \/ Ends(8) \/ Ends(16) \/ Ends(64) \/ Ends(256) \/ Ends(1024)
    BY <1>1, <1>2, <1>m, <2>2, <2>3
  <2>. QED
    BY <2>4, <1>q
<1>5. Tn!Turns(f) \in T
  <2>1. T \in SUBSET Nat
    OBVIOUS
  <2>3. \E n \in T : \A k \in T : n <= k
    <3> DEFINE L(n) == \A k \in T : n <= k
    <3> HIDE DEF T
    <3>0. T \subseteq 0..7 /\ T # {}
      BY <1>4 DEF T
    <3>1. 0 \in T => L(0)
      BY <3>0
    <3>2. 0 \notin T /\ 1 \in T => L(1)
      BY <3>0
    <3>3. T \cap 0..1 = {} /\ 2 \in T => L(2)
      BY <3>0
    <3>4. T \cap 0..2 = {} /\ 3 \in T => L(3)
      BY <3>0
    <3>5. T \cap 0..3 = {} /\ 4 \in T => L(4)
      BY <3>0
    <3>6. T \cap 0..4 = {} /\ 5 \in T => L(5)
      BY <3>0
    <3>7. T \cap 0..5 = {} /\ 6 \in T => L(6)
      BY <3>0
    <3>a. T \cap 0..6 = {} => 7 \in T
      <4>1. PICK x \in T : TRUE
        BY <3>0
      <4>2. x \in 0..6 \/ x = 7
        BY <3>0, <4>1
      <4>. QED
        BY <4>1, <4>2
    <3>8. T \cap 0..6 = {} => L(7) /\ 7 \in T
      BY <3>0, <3>a
    <3>9. /\ 0 \notin T /\ 1 \notin T => T \cap 0..1 = {}
          /\ T \cap 0..1 = {} /\ 2 \notin T => T \cap 0..2 = {}
          /\ T \cap 0..2 = {} /\ 3 \notin T => T \cap 0..3 = {}
          /\ T \cap 0..3 = {} /\ 4 \notin T => T \cap 0..4 = {}
          /\ T \cap 0..4 = {} /\ 5 \notin T => T \cap 0..5 = {}
          /\ T \cap 0..5 = {} /\ 6 \notin T => T \cap 0..6 = {}
      BY <3>0
    <3> HIDE DEF L
    <3>10. \E n \in T : L(n)
      BY <3>0, <3>1, <3>2, <3>3, <3>4, <3>5, <3>6, <3>7, <3>8, <3>9, Zenon
    <3>. QED
      BY <3>10 DEF L
  <2>4. Tn!Turns(f) = CHOOSE n \in T : \A k \in T : n <= k
    BY DEF Tn!Turns, Tn!Min
  <2> HIDE DEF T
  <2>. QED
    BY <2>3, <2>4
<1>6. Tn!Turns(f) \in 0..7 /\ Tn!Quotient(f, Tn!Turns(f)) - 1 \in 0..TONE_TC_TOP
  BY <1>5
<1> HIDE DEF T
<1>. QED
  BY <1>2, <1>3, <1>6 DEF Tn!CcValue

\* A quotient, times what it was divided by, is short of the number by less than that.
LEMMA Rounded ==
  ASSUME NEW m \in Nat, NEW d \in Nat \ {0}
  PROVE  /\ (((m \div d) - 1) + 1) * d <= m
         /\ m < (((m \div d) - 1) + 2) * d
<1> DEFINE q == m \div d
           r == m % d
<1>1. q \in Int /\ r \in 0..d - 1 /\ m = d * q + r
  BY DivMod
<1> HIDE DEF q, r
<1>2. ((q - 1) + 1) * d = d * q /\ ((q - 1) + 2) * d = d * q + d
  BY <1>1
<1> DEFINE p == d * q
<1>3. p \in Int
  BY <1>1
<1> HIDE DEF p
<1>4. p <= m /\ m < p + d
  BY <1>1, <1>3 DEF p
<1>. QED
  BY <1>2, <1>4 DEF p, q

\* What the timer counts to, times the prescaler that is set for it, is half a period.
LEMMA InTune ==
  ASSUME NEW f \in Frequencies, f # 0, Tn!Divisor(Tn!Turns(f)) \notin {16, 64, 256}
  PROVE  /\ (Tn!CcValue(f) + 1) * Tn!Prescaler(Tn!Turns(f)) <= toneMaxFrequency \div f
         /\ toneMaxFrequency \div f < (Tn!CcValue(f) + 2) * Tn!Prescaler(Tn!Turns(f))
<1> DEFINE n == Tn!Turns(f)
           d == Tn!Divisor(n)
           m == toneMaxFrequency \div f
           q == m \div d
<1>1. n \in 0..7 /\ m \in Nat
  BY TimerTyped
<1>2. Tn!CcValue(f) = q - 1
  BY DEF Tn!CcValue, Tn!Quotient
<1> HIDE DEF n
<1>3. d \in Nat \ {0} /\ Tn!Prescaler(n) = d
  <2>1. /\ Tn!Shifts[1] = 0 /\ Tn!Shifts[2] = 1 /\ Tn!Shifts[3] = 2 /\ Tn!Shifts[4] = 3
        /\ Tn!Shifts[5] = 5 /\ Tn!Shifts[6] = 7 /\ Tn!Shifts[7] = 9
    BY DEF Tn!Shifts
  <2>2. /\ 2^(0 + 1) = 2 /\ 2^(1 + 1) = 4 /\ 2^(2 + 1) = 8 /\ 2^(3 + 1) = 16
        /\ 2^(5 + 1) = 64 /\ 2^(7 + 1) = 256 /\ 2^(9 + 1) = 1024
        /\ 2^1 = 2 /\ 2^2 = 4 /\ 2^3 = 8 /\ 2^10 = 1024
    OBVIOUS
  <2>3. /\ Tn!Divisor(0) = 1 /\ Tn!Divisor(1) = 2 /\ Tn!Divisor(2) = 4 /\ Tn!Divisor(3) = 8
        /\ Tn!Divisor(4) = 16 /\ Tn!Divisor(5) = 64 /\ Tn!Divisor(6) = 256
        /\ Tn!Divisor(7) = 1024
    BY <2>1, <2>2 DEF Tn!Divisor
  <2>4. /\ Tn!NextShift(0) = 0 /\ Tn!NextShift(1) = 1 /\ Tn!NextShift(2) = 2
        /\ Tn!NextShift(3) = 3 /\ Tn!NextShift(7) = 10
    BY <2>1 DEF Tn!NextShift
  <2>5. /\ Tn!Prescaler(0) = 1 /\ Tn!Prescaler(1) = 2 /\ Tn!Prescaler(2) = 4
        /\ Tn!Prescaler(3) = 8 /\ Tn!Prescaler(7) = 1024
    <3> DEFINE W(k) == 2^k
    <3>1. W(1) = 2 /\ W(2) = 4 /\ W(3) = 8 /\ W(10) = 1024
      BY <2>2
    <3>2. \A k \in {0, 1, 2, 3, 7} :
            Tn!Prescaler(k) = IF Tn!NextShift(k) - 1 \in {0, 1, 2, 3, 5, 7, 9}
                              THEN W(Tn!NextShift(k)) ELSE 1
      BY DEF Tn!Prescaler
    <3> HIDE DEF W
    <3>. QED
      BY <2>4, <3>1, <3>2
  <2>6. n \in {0, 1, 2, 3, 4, 5, 6, 7} /\ d \notin {16, 64, 256}
    BY <1>1 DEF n
  <2>. QED
    BY <2>3, <2>5, <2>6
<1>4. q = m \div d /\ Tn!CcValue(f) + 1 = (q - 1) + 1 /\ Tn!CcValue(f) + 2 = (q - 1) + 2
  BY <1>2
<1> HIDE DEF d, m, q
<1>5. ((q - 1) + 1) * d <= m /\ m < ((q - 1) + 2) * d
  BY <1>1, <1>3, <1>4, Rounded
<1>. QED
  BY <1>3, <1>4, <1>5 DEF m, n

\* The timer is that of the tone that plays.
Tuned ==
  tone_running =>
    /\ tone_frequency \in Frequencies \ {0} /\ tone_cc = Tn!CcValue(tone_frequency)
    /\ tone_prescaler = Tn!Prescaler(Tn!Turns(tone_frequency))

\* Every tone that tone() starts comes at its frequency, if its prescaler is one that is set.
LEMMA ToneTuned == Tn!Spec => []Tn!PlaysFrequency
<1>1. Tn!Init => Tuned
  BY DEF Tn!Init, Tuned
<1>2. ASSUME Tuned, [Tn!Next]_Tn!vars PROVE Tuned'
  <2>1. CASE UNCHANGED Tn!vars
    BY <1>2, <2>1 DEF Tn!vars, Tn!timer, Tn!history, Tuned, Tn!CcValue, Tn!Turns, Tn!Quotient
  <2>2. ASSUME NEW p \in Pins, Tn!noTone(p) PROVE Tuned'
    <3>1. tone_running' => tone_running
      BY <2>2, Zenon DEF Tn!noTone
    <3>. QED
      BY <1>2, <2>2, <3>1 DEF Tn!noTone, Tuned, Tn!CcValue, Tn!Turns, Tn!Quotient
  <2>3. ASSUME NEW p \in Pins, NEW f \in Frequencies, f # 0, NEW d \in Durations, Tn!tone(p, f, d)
        PROVE  Tuned'
    BY <2>3 DEF Tn!tone, Tuned
  <2>4. CASE Tn!Tone_Handler
    BY <1>2, <2>4
       DEF Tn!Tone_Handler, Tn!Toggle, Tn!Stop, Tn!timer, Tn!history, Tuned
  <2>. QED
    BY <1>2, <2>1, <2>2, <2>3, <2>4 DEF Tn!Next, Tn!CallTone, Tn!CallNoTone
<1>3. Tuned => Tn!PlaysFrequency
  BY InTune DEF Tuned, Tn!PlaysFrequency
<1>. QED
  BY <1>1, <1>2, <1>3, PTL DEF Tn!Spec

\* tone(), noTone() and Tone_Handler() (Tone.cpp): only the pin of the tone that plays is high; a
\* tone nobody stops has as many toggles as its duration and ends low, if the product does not wrap;
\* and a tone whose prescaler is not one of DIV16, DIV64 and DIV256 has the frequency it was asked
\* for.  For all pins, frequencies and durations.
THEOREM Tones == Tn!Spec => ToneSound
<1>1. TInv => Tn!OthersLow
  BY DEF TInv
<1>2. TInv /\ [Tn!Next]_Tn!vars => [Tn!Stop /\ tone_frequency * tone_duration * 2 < Word
       => tone_toggles = (tone_frequency * tone_duration * 2) \div Second
           /\ ~tone_level'[tone_portPin]]_Tn!vars
  BY StopsWhole
<1>. QED
  BY <1>1, <1>2, ToneInvariance, ToneTuned, PTL DEF Tn!Spec, Tn!WholeTone, ToneSound

\* A count of toggles fits its word.
LEMMA CountTyped ==
  ASSUME NEW f \in Nat, NEW d \in Nat
  PROVE  Tn!ToggleCount(f, d) \in -1..Word
<1>1. Word \in Nat \ {0} /\ Second \in Nat \ {0}
  BY CoreAssumption DEF Tn!ToneAssumption
<1> DEFINE x == f * d * 2
           y == x % Word
           z == y \div Second
<1>2. x \in Nat
  OBVIOUS
<1>3. Tn!ToggleCount(f, d) = IF d > 0 THEN z ELSE -1
  BY DEF Tn!ToggleCount
<1> HIDE DEF x
<1>4. y \in 0..Word - 1
  BY <1>1, <1>2, DivMod
<1> HIDE DEF y
<1>5. z \in Int /\ y % Second \in 0..Second - 1 /\ y = Second * z + (y % Second)
  BY <1>1, <1>4, DivMod
<1> DEFINE r == y % Second
           p == (Second - 1) * z
<1> HIDE DEF z, r
<1>6. r \in 0..Second - 1 /\ y = z + p + r
  <2>1. Second * z = z + (Second - 1) * z
    BY <1>1, <1>5
  <2>. QED
    BY <1>1, <1>5, <2>1 DEF r
<1>7. z >= 0
  <2>1. ASSUME z <= -1 PROVE FALSE
    <3>1. Second * z = -Second + Second * (z + 1)
      BY <1>1, <1>5
    <3>2. Second * (z + 1) <= 0
      BY <1>1, <1>5, <2>1
    <3> DEFINE u == Second * (z + 1)
    <3> HIDE DEF u
    <3>3. u \in Int /\ y = -Second + u + r /\ u <= 0
      BY <1>1, <1>5, <3>1, <3>2 DEF u, r
    <3>. QED
      BY <1>1, <1>4, <1>6, <3>3
  <2>. QED
    BY <1>5, <2>1
<1>8. p >= 0 /\ p \in Int
  BY <1>1, <1>5, <1>7
<1> HIDE DEF p
<1>9. z \in 0..Word
  BY <1>1, <1>4, <1>5, <1>6, <1>7, <1>8
<1>. QED
  BY <1>1, <1>3, <1>9

\* The types of tone(): its count stays in its word, and what the timer counts to in its
\* 16 bits.
LEMMA ToneTypes == Tn!Spec => []Tn!TypeOK
<1>0. /\ \A f \in Frequencies : f \in Nat /\ (f # 0 => /\ Tn!CcValue(f) \in 0..TONE_TC_TOP
                                           /\ Tn!Prescaler(Tn!Turns(f)) \in Nat \ {0})
      /\ Durations \subseteq Nat /\ Word \in Nat \ {0} /\ MaxTones \in Nat
      /\ TONE_TC_TOP \in Nat
  BY TimerTyped, CoreAssumption DEF Tn!ToneAssumption
<1>1. Tn!Init => Tn!TypeOK
  <2> SUFFICES ASSUME Tn!Init PROVE Tn!TypeOK
    OBVIOUS
  <2>1. /\ tone_running \in BOOLEAN /\ tone_toneIsActive \in BOOLEAN
        /\ tone_firstTimeRunning \in BOOLEAN /\ tone_stray \in BOOLEAN
    BY Zenon DEF Tn!Init
  <2>. QED
    BY <1>0, <2>1 DEF Tn!Init, Tn!TypeOK
<1>2. ASSUME Tn!TypeOK, [Tn!Next]_Tn!vars PROVE Tn!TypeOK'
  <2>0. /\ tone_level \in [Pins -> BOOLEAN] /\ tone_running \in BOOLEAN
        /\ tone_toneIsActive \in BOOLEAN /\ tone_firstTimeRunning \in BOOLEAN
        /\ tone_stray \in BOOLEAN
    BY <1>2 DEF Tn!TypeOK
  <2>1. CASE UNCHANGED Tn!vars
    BY <1>2, <2>1 DEF Tn!vars, Tn!timer, Tn!flags, Tn!history, Tn!TypeOK
  <2>2. ASSUME NEW p \in Pins, Tn!noTone(p), tone_calls' \in 0..MaxTones PROVE Tn!TypeOK'
    <3>1. CASE tone_firstTimeRunning
      <4>1. /\ tone_running' = FALSE /\ tone_level' = [tone_level EXCEPT ![p] = FALSE]
            /\ tone_toneIsActive' = FALSE
            /\ tone_stray' = (tone_stray \/ (tone_running /\ p # tone_portPin))
            /\ UNCHANGED <<tone_cc, tone_prescaler, tone_portPin, tone_lastOutputPin,
                           tone_firstTimeRunning,
                           tone_toggleCount, tone_frequency, tone_duration, tone_toggles>>
        BY <2>2, <3>1 DEF Tn!noTone, Tn!Low
      <4>2. /\ tone_running' \in BOOLEAN /\ tone_toneIsActive' \in BOOLEAN
            /\ tone_stray' \in BOOLEAN
        BY <4>1, Zenon
      <4>3. tone_level' \in [Pins -> BOOLEAN]
        BY <2>0, <4>1
      <4>. QED
        BY <1>2, <2>2, <4>1, <4>2, <4>3 DEF Tn!TypeOK
    <3>2. CASE ~tone_firstTimeRunning
      BY <1>2, <2>2, <3>2 DEF Tn!noTone, Tn!TypeOK
    <3>. QED
      BY <3>1, <3>2
  <2>3. ASSUME NEW p \in Pins, NEW f \in Frequencies, f # 0, NEW d \in Durations, Tn!tone(p, f, d),
               tone_calls' \in 0..MaxTones
        PROVE  Tn!TypeOK'
    <3>1. /\ tone_firstTimeRunning' = TRUE /\ tone_cc' = Tn!CcValue(f)
          /\ tone_prescaler' = Tn!Prescaler(Tn!Turns(f))
          /\ tone_toggleCount' = Tn!ToggleCount(f, d) /\ tone_portPin' = p /\ tone_running' = TRUE
          /\ tone_frequency' = f /\ tone_duration' = d /\ tone_toggles' = 0
          /\ tone_stray' = (tone_stray \/ (p = tone_lastOutputPin /\ ~tone_toneIsActive))
          /\ tone_lastOutputPin' = p
          /\ p # tone_lastOutputPin
               => tone_toneIsActive' = TRUE /\ tone_level' = Tn!Low(Tn!StopLast(p), p)
          /\ p = tone_lastOutputPin => UNCHANGED <<tone_toneIsActive, tone_level>>
      BY <2>3 DEF Tn!tone
    <3>2. /\ tone_firstTimeRunning' \in BOOLEAN /\ tone_running' \in BOOLEAN
          /\ tone_stray' \in BOOLEAN /\ tone_toneIsActive' \in BOOLEAN
      BY <2>0, <3>1, Zenon
    <3>3. tone_level' \in [Pins -> BOOLEAN]
      BY <2>0, <3>1 DEF Tn!Low, Tn!StopLast
    <3>4. tone_toggleCount' \in -1..Word /\ tone_cc' \in 0..TONE_TC_TOP
            /\ tone_prescaler' \in Nat \ {0}
      <4>1. f \in Nat /\ d \in Nat /\ Tn!CcValue(f) \in 0..TONE_TC_TOP
                /\ Tn!Prescaler(Tn!Turns(f)) \in Nat \ {0}
        BY <1>0, <2>3
      <4>2. Tn!ToggleCount(f, d) \in -1..Word
        BY <4>1, CountTyped
      <4>. QED
        BY <3>1, <4>1, <4>2
    <3>. QED
      BY <2>3, <3>1, <3>2, <3>3, <3>4 DEF Tn!TypeOK
  <2>4. CASE Tn!Toggle
    <3>1. /\ tone_level' = [tone_level EXCEPT ![tone_portPin] = ~@]
          /\ tone_toggleCount' = Tn!Counted
          /\ tone_toggles' = IF tone_toggleCount > 0 THEN tone_toggles + 1 ELSE tone_toggles
          /\ UNCHANGED <<tone_running, tone_cc, tone_prescaler, tone_portPin, tone_lastOutputPin,
                         tone_toneIsActive, tone_firstTimeRunning, tone_calls, tone_frequency,
                         tone_duration, tone_stray>>
      BY <2>4 DEF Tn!Toggle, Tn!timer, Tn!flags
    <3>2. tone_level' \in [Pins -> BOOLEAN]
      BY <2>0, <3>1
    <3>3. tone_toggleCount' \in -1..Word /\ tone_toggles' \in Nat
      BY <1>0, <1>2, <3>1 DEF Tn!TypeOK, Tn!Counted
    <3>. QED
      BY <1>2, <3>1, <3>2, <3>3 DEF Tn!TypeOK
  <2>5. CASE Tn!Stop
    <3>1. /\ tone_running' = FALSE /\ tone_level' = [tone_level EXCEPT ![tone_portPin] = FALSE]
          /\ tone_toneIsActive' = FALSE
          /\ UNCHANGED <<tone_cc, tone_prescaler, tone_portPin, tone_lastOutputPin,
                         tone_firstTimeRunning,
                         tone_toggleCount, tone_calls, tone_frequency, tone_duration, tone_toggles,
                         tone_stray>>
      BY <2>5 DEF Tn!Stop, Tn!Low, Tn!history
    <3>2. tone_running' \in BOOLEAN /\ tone_toneIsActive' \in BOOLEAN
      BY <3>1, Zenon
    <3>3. tone_level' \in [Pins -> BOOLEAN]
      BY <2>0, <3>1
    <3>. QED
      BY <1>2, <3>1, <3>2, <3>3 DEF Tn!TypeOK
  <2>6. ASSUME tone_calls < MaxTones /\ tone_calls' = tone_calls + 1
        PROVE  tone_calls' \in 0..MaxTones
    BY <1>0, <1>2, <2>6 DEF Tn!TypeOK
  <2>7. CASE Tn!CallTone
    <3>1. PICK p \in Pins, f \in Frequencies, d \in Durations :
            IF f = 0 THEN Tn!noTone(p) ELSE Tn!tone(p, f, d)
      BY <2>7 DEF Tn!CallTone
    <3>2. tone_calls' \in 0..MaxTones
      BY <2>6, <2>7 DEF Tn!CallTone
    <3>. QED
      BY <2>2, <2>3, <3>1, <3>2
  <2>8. CASE Tn!CallNoTone
    BY <2>2, <2>6, <2>8 DEF Tn!CallNoTone
  <2>. QED
    BY <1>2, <2>1, <2>4, <2>5, <2>7, <2>8 DEF Tn!Next, Tn!Tone_Handler
<1>. QED
  BY <1>1, <1>2, PTL DEF Tn!Spec

\* The types of the core, for a sketch that masks the calls: of the receiver and the transmitter, the
\* external interrupts, tone(), whose search for a prescaler ends, and the time.
THEOREM CoreTypes ==
  ASSUME Guarded
  PROVE  Spec /\ Tx!Spec /\ Ext!Spec /\ Tn!Spec /\ Mi!Spec => []TypesOK
<1>1. IInv => Ext!TypeOK
  BY DEF IInv
<1>. QED
  BY <1>1, RxTypes, TxTypes, Invariance, ToneTypes, TimeTypes, PTL DEF TypesOK
=============================================================================

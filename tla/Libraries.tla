------------------------------ MODULE Libraries ------------------------------
(***************************************************************************)
(* The libraries, each with variables of its own: the master and the slave *)
(* of class TwoWire (libraries/Wire/Wire.cpp), an object of which has one  *)
(* role at a time; the clock with its alarm; and the text of the API,      *)
(* which is searching a port, printing a number, and the String; and what  *)
(* they promise.                                                           *)
(***************************************************************************)
EXTENDS WireMaster

CONSTANTS
  MaxLen, MaxTransfers,                             \* of the slave: its bounds
  S, M, H, D, Times, Sleeps, RtcCalls, RtcResets,   \* of the clock
  Texts, Targets, Numbers, MaxLength, LongHalf,     \* of the search
  Values, Bases, Word, ByteMod, Max16,              \* of the numbers
  StringTexts, Replacements, MaxText                \* of the String

VARIABLES
  PREC, AMATCH, DRDY, SR, DIR, sl_bus, len, refused, sl_rxBuffer, sl_txBuffer, transfer,
  accepted, reported, stale, joined,
  rtc_clock, rtc_alarm, rtc_mask, rtc_ALARM0, rtc_enabled, rtc_RCAUSE, rtc_configured,
  rtc_pc, rtc_rest, rtc_arg, rtc_loaded, rtc_edges, rtc_calls, rtc_resets,
  tx_call, tx_pc, tx_text, tx_targets, tx_index, tx_lookahead, tx_ignore, tx_isNegative,
  tx_value, tx_terminator, tx_length, tx_buffer, tx_result, tx_taken, tx_gaveUp,
  nu_arg, nu_base, nu_wide, nu_pc, nu_n, nu_th16, nu_innerLoops, nu_r, nu_j, nu_buf, nu_out,
  st_text, st_capacity, st_pc, st_find, st_replace, st_diff, st_size, st_readFrom, st_index,
  st_before, st_replaced

Slave == INSTANCE WireSlave WITH
  bus <- sl_bus, rxBuffer <- sl_rxBuffer, txBuffer <- sl_txBuffer

Rtc == INSTANCE Rtc WITH
  MaxCalls <- RtcCalls, MaxResets <- RtcResets,
  clock <- rtc_clock, alarm <- rtc_alarm, mask <- rtc_mask, ALARM0 <- rtc_ALARM0,
  enabled <- rtc_enabled, RCAUSE <- rtc_RCAUSE, _configured <- rtc_configured, pc <- rtc_pc,
  rest <- rtc_rest, arg <- rtc_arg, loaded <- rtc_loaded, edges <- rtc_edges, calls <- rtc_calls,
  resets <- rtc_resets

Tx == INSTANCE TextStream WITH
  call <- tx_call, pc <- tx_pc, text <- tx_text, targets <- tx_targets, index <- tx_index,
  lookahead <- tx_lookahead, ignore <- tx_ignore, isNegative <- tx_isNegative,
  value <- tx_value, terminator <- tx_terminator, length <- tx_length, buffer <- tx_buffer,
  result <- tx_result, taken <- tx_taken, gaveUp <- tx_gaveUp

Nu == INSTANCE PrintNumber WITH
  arg <- nu_arg, base <- nu_base, wide <- nu_wide, pc <- nu_pc, n <- nu_n, th16 <- nu_th16,
  innerLoops <- nu_innerLoops, r <- nu_r, j <- nu_j, buf <- nu_buf, out <- nu_out

St == INSTANCE Strings WITH
  Texts <- StringTexts,
  text <- st_text, capacity <- st_capacity, pc <- st_pc, find <- st_find,
  replace <- st_replace, diff <- st_diff, size <- st_size, readFrom <- st_readFrom,
  index <- st_index, before <- st_before, replaced <- st_replaced

ASSUME RolesAssumption == WireAssumption /\ Slave!SlaveAssumption

ASSUME LibrariesAssumption ==
  /\ Rtc!RtcAssumption /\ Tx!TextAssumption /\ Nu!PrintAssumption /\ St!StringsAssumption

-----------------------------------------------------------------------------
\* Every variable of each part stays in its type, whatever calls and interrupts come.
TypesOK ==
  TypeOK /\ Slave!TypeOK /\ Rtc!TypeOK /\ Tx!TypeOK /\ Nu!TypeOK /\ St!TypeOK

\* The slave reports what one write brought, and answers with what the request wrote.
SlaveSound == Slave!SlaveSound

\* setTime() leaves the time it was given although the clock goes on between its writes.
TimeIsSet == Rtc!TimeIsSet

\* findMulti() stops at the first string that comes, whatever came before it, and parseInt()
\* and readBytesUntil() take what they answer with and no more.
TakesWhatItFinds == Tx!FindsTheFirst /\ Tx!ParsesTheNumber /\ Tx!TakesUntil

\* A number is printed with its digits, in one division or in chunks.
PrintsTheDigits == Nu!PrintsTheDigits

\* replace() replaces each occurrence once (Strings names the replacements it says nothing of).
ReplacesOnce == St!ReplacesOnce
=============================================================================

----------------------------- MODULE MCLibraries -----------------------------
(***************************************************************************)
(* The libraries in one run: the I2C slave, the I2C master, and the clock  *)
(* with its alarm, each with the device on its other side, and the text of *)
(* the API: searching a port, printing a number, and the String.  part     *)
(* says which one a behaviour is about; the others stay in their initial   *)
(* states, so a property of a part holds of every behaviour iff it holds   *)
(* of the part.                                                            *)
(***************************************************************************)
EXTENDS Libraries

VARIABLE part

slaveVars == <<
  PREC, AMATCH, DRDY, SR, DIR, sl_bus, len, refused, sl_rxBuffer, sl_txBuffer, transfer,
  accepted, reported, stale, joined>>

rtcVars == <<
  rtc_clock, rtc_alarm, rtc_mask, rtc_ALARM0, rtc_enabled, rtc_RCAUSE, rtc_configured,
  rtc_pc, rtc_rest, rtc_arg, rtc_loaded, rtc_edges, rtc_calls, rtc_resets>>

textVars == <<
  tx_call, tx_pc, tx_text, tx_targets, tx_index, tx_lookahead, tx_ignore, tx_isNegative,
  tx_value, tx_terminator, tx_length, tx_buffer, tx_result, tx_taken, tx_gaveUp>>

printVars == <<
  nu_arg, nu_base, nu_wide, nu_pc, nu_n, nu_th16, nu_innerLoops, nu_r, nu_j, nu_buf, nu_out>>

stringVars == <<
  st_text, st_capacity, st_pc, st_find, st_replace, st_diff, st_size, st_readFrom, st_index,
  st_before, st_replaced>>

\* Texts to search, with the strings to search for, and texts with a number.
MCTexts == UNION {[1..n -> 0..1] : n \in 0..5}
Pairs == {<<0>>, <<0, 1>>, <<1, 0>>, <<0, 0, 1>>, <<1, 0, 1>>, <<>>}
MCTargets ==
  {<<s>> : s \in UNION {[1..n -> 0..1] : n \in 1..4}} \cup {<<s, t>> : s, t \in Pairs}
MCNumbers == UNION {[1..n -> {7, 10, 11, 12, 13}] : n \in 0..3}

\* Both sides of zero, of a chunk, and of the largest number.
MCValues == -2048..-2040 \cup -5..130 \cup 2040..2047

\* Texts, and replacements of every length, also by what is replaced.
Words(m, n) == UNION {[1..k -> {"a", "b"}] : k \in m..n}
MCStringTexts == Words(0, 2)
MCReplacements ==
  {<<"a">>} \X Words(0, 2) \cup {<<"a", "b">>} \X {<<"a">>, <<"a", "a">>, <<"a", "a", "b">>}

LibrariesInit ==
  /\ part \in {"slave", "master", "clock", "text", "print", "string"}
  /\ Slave!Init /\ Init /\ Rtc!Init /\ St!Init
  /\ \/ part = "text" /\ Tx!Init
     \/ /\ part # "text"
        /\ tx_call = "readBytesUntil" /\ tx_text = <<>> /\ tx_terminator = 7
        /\ tx_length = 0 /\ Tx!Init
  /\ \/ part = "print" /\ Nu!Init
     \/ /\ part # "print"
        /\ nu_arg = 0 /\ nu_base = 10 /\ nu_wide = FALSE /\ Nu!Init

LibrariesNext ==
  /\ UNCHANGED part
  /\ \/ part = "slave" /\ Slave!Next
        /\ UNCHANGED <<vars, rtcVars, textVars, printVars, stringVars>>
     \/ part = "master" /\ Next
        /\ UNCHANGED <<slaveVars, rtcVars, textVars, printVars, stringVars>>
     \/ part = "clock" /\ Rtc!Next
        /\ UNCHANGED <<slaveVars, vars, textVars, printVars, stringVars>>
     \/ part = "text" /\ Tx!Next
        /\ UNCHANGED <<slaveVars, vars, rtcVars, printVars, stringVars>>
     \/ part = "print" /\ Nu!Next
        /\ UNCHANGED <<slaveVars, vars, rtcVars, textVars, stringVars>>
     \/ part = "string" /\ St!Next
        /\ UNCHANGED <<slaveVars, vars, rtcVars, textVars, printVars>>

\* The fairness of each part, as its own specification states it.
LibrariesSpec ==
  /\ LibrariesInit /\ [][LibrariesNext]_<<
       part, slaveVars, vars, rtcVars, textVars, printVars, stringVars>>
  /\ WF_slaveVars(part = "slave" /\ Slave!OnService)
  /\ WF_vars(part = "master" /\ Master)
  /\ WF_rtcVars(part = "clock" /\ Rtc!Tick) /\ WF_rtcVars(part = "clock" /\ Rtc!Handler)

-----------------------------------------------------------------------------
\* The slave releases the clock, every call of the master returns, whatever the slave and the
\* other master do, and a timed sleep ends by itself.
LibraryCallsEnd == Slave!ClockReleased /\ CallsReturn /\ Rtc!SleepEnds

=============================================================================

------------------------------ MODULE MCMonitor ------------------------------
(***************************************************************************)
(* Monitor for model checking: one S command, whose data may follow the    *)
(* command in the same packet or in packets of its own.  A command is the  *)
(* letter, the address, the number of bytes and the bytes that follow.     *)
(***************************************************************************)
EXTENDS Monitor

S(a, n, b) == [command |-> "S", address |-> a, number |-> n, bytes |-> b]

MCOneScript == {<<S(1, 3, <<"#", "2", "S">>)>>, <<S(0, 2, <<"1", "2">>)>>}
=============================================================================

---------------------------- MODULE MCBootloader -----------------------------
(***************************************************************************)
(* The bootloader in one run: the life cycle of a board, the two           *)
(* directions of the XMODEM transfer, the commands, and the USB port that  *)
(* they come by.  part says which one a behaviour is about; the others     *)
(* stay in their initial states, so a property of a part holds of every    *)
(* behaviour iff it holds of the part.                                     *)
(***************************************************************************)
EXTENDS Bootloader, Sequences

VARIABLE part

putVars == <<
  put_pc, put_result, put_sno, put_length, put_ptr_data, put_size_of_data, put_toHost,
  put_toDevice, put_seq, put_received, put_hostState, put_faults, put_repeated>>

getVars == <<
  get_pc, get_result, get_sno, get_ptr_data, get_size_of_data, get_nbr_of_timeout,
  get_memory, get_toDevice, get_toHost, get_block, get_hostState, get_faults>>

monVars == <<
  mon_script, mon_sent, mon_bank, mon_data, mon_command, mon_current_number, mon_ptr_data,
  mon_todo, mon_dst, mon_memory, mon_answers>>

portVars == <<
  usb_hostAddress, usb_hostConfiguration, usb_request, usb_requests, usb_resets, usb_sent,
  usb_answers, usb_EORST, usb_RXSTP, usb_DADD, usb_STALLRQ, usb_ep0, usb_TRCPT1,
  usb_stalled, usb_open, usb_BK0RDY, usb_TRCPT0, usb_packet, usb_ep1, usb_taken1, usb_pc,
  usb_served, usb_currentConfiguration, usb_read_job, usb_orphaned>>

\* The host's scripts: three commands, in every order.
C(c, a, n, b) == [command |-> c, address |-> a, number |-> n, bytes |-> b]
MCCommands == {C("S", 1, 3, <<"#", "2", "S">>), C("O", 2, 3, <<>>), C("o", 2, 0, <<>>),
               C("V", 0, 0, <<>>), C("?", 0, 0, <<>>)}
MCScripts == {<<a, b, c>> : a, b, c \in MCCommands}

BootloaderInit ==
  /\ part \in {"board", "send", "receive", "monitor", "port"}
  /\ LInit /\ Put!Init /\ Get!Init /\ Mon!Init /\ Port!Init
  /\ part # "monitor" => mon_script = CHOOSE s \in MonScripts : TRUE
  /\ part # "board" => ~secure

BootloaderNext ==
  /\ UNCHANGED part
  /\ \/ part = "board" /\ LNext
        /\ UNCHANGED <<putVars, getVars, monVars, portVars>>
     \/ part = "send" /\ Put!Next
        /\ UNCHANGED <<lvars, getVars, monVars, portVars>>
     \/ part = "receive" /\ Get!Next
        /\ UNCHANGED <<lvars, putVars, monVars, portVars>>
     \/ part = "monitor" /\ Mon!Next
        /\ UNCHANGED <<lvars, putVars, getVars, portVars>>
     \/ part = "port" /\ Port!Next
        /\ UNCHANGED <<lvars, putVars, getVars, monVars>>

\* The fairness of each part, as its own specification states it.
BootloaderSpec ==
  /\ BootloaderInit /\ [][BootloaderNext]_<<
       part, lvars, putVars, getVars, monVars, portVars>>
  /\ WF_lvars(part = "board" /\ Sketch /\ Tick) /\ WF_lvars(part = "board" /\ TouchReset)
  /\ WF_lvars(part = "board" /\ BootPart /\ BootStep)
  /\ WF_putVars(part = "send" /\ Put!Device) /\ WF_putVars(part = "send" /\ Put!Host)
  /\ WF_getVars(part = "receive" /\ Get!Device) /\ WF_getVars(part = "receive" /\ Get!HostAnswered)
  /\ WF_getVars(part = "receive" /\ Get!HostTimeout) /\ WF_getVars(part = "receive" /\ Get!Leftover)
  /\ WF_monVars(part = "monitor" /\ Mon!Loop) /\ WF_monVars(part = "monitor" /\ Mon!Send)
  /\ WF_portVars(part = "port" /\ Port!Device)
  /\ WF_portVars(part = "port" /\ (Port!HostTakes \/ Port!HostRefused))
  /\ WF_portVars(part = "port" /\ Port!HostSends) /\ WF_portVars(part = "port" /\ Port!HostReads)

-----------------------------------------------------------------------------
\* Every interrupted upload leads back to an application, and a touch leads to the monitor.
UploadsEnd == (part = "board" => UploadEnds) /\ TouchReachesMonitor

\* Both transfers end, every command is executed, and every request and packet is answered.
LoopsEnd ==
  /\ part = "send" => Put!SendEnds
  /\ part = "receive" => Get!ReceiveEnds
  /\ part = "monitor" => Mon!AllExecuted
  /\ part = "port" => Port!RequestsEnd /\ Port!PacketsAnswered
=============================================================================

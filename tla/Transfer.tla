------------------------------ MODULE Transfer ------------------------------
(***************************************************************************)
(* What a stop-and-wait transfer of numbered blocks promises: the receiver *)
(* takes each block once and in order, the sender never believes more than *)
(* has been taken and is one block behind at most, and only a transfer     *)
(* that is complete on both sides succeeds.                                *)
(***************************************************************************)
EXTENDS Naturals

CONSTANT Blocks

VARIABLES
  delivered,   \* blocks the receiver has taken
  confirmed,   \* blocks the sender knows of
  outcome      \* of the sender: "open", "success" or "failure"

TransferInit == delivered = 0 /\ confirmed = 0 /\ outcome = "open"

Deliver == /\ outcome = "open" /\ delivered = confirmed /\ delivered < Blocks
           /\ delivered' = delivered + 1
           /\ UNCHANGED <<confirmed, outcome>>

Confirm == /\ outcome = "open" /\ confirmed < delivered
           /\ confirmed' = delivered
           /\ UNCHANGED <<delivered, outcome>>

Succeed == /\ outcome = "open" /\ confirmed = Blocks
           /\ outcome' = "success"
           /\ UNCHANGED <<delivered, confirmed>>

Fail == /\ outcome = "open"
        /\ outcome' = "failure"
        /\ UNCHANGED <<delivered, confirmed>>

TransferNext == Deliver \/ Confirm \/ Succeed \/ Fail

TransferSpec == TransferInit /\ [][TransferNext]_<<delivered, confirmed, outcome>>
=============================================================================

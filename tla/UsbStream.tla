------------------------------ MODULE UsbStream ------------------------------
(***************************************************************************)
(* What a bulk OUT endpoint promises to the sketch: one stream of bytes,   *)
(* written by the host and read once, in order, by the sketch.  The byte   *)
(* that the host sends as its k-th is represented by its position k, so    *)
(* the stream is described by two counters and the answer of the last      *)
(* call of the driver.                                                     *)
(***************************************************************************)
EXTENDS Naturals, Sequences

VARIABLES
  sent,   \* bytes of the packets the device has acknowledged
  got,    \* bytes the sketch has taken with recv()
  out     \* what the last call returned: bytes, a peeked byte, or a count

svars == <<sent, got, out>>

StreamInit == sent = 0 /\ got = 0 /\ out = <<>>

\* The host gets one more packet acknowledged.
Send == /\ sent' \in Nat /\ sent' > sent
        /\ UNCHANGED <<got, out>>

\* recv(): the next k bytes of the stream, all of them already sent.
Read == \E k \in 0..(sent - got) : /\ out' = [i \in 1..k |-> got + i]
                                   /\ got' = got + k
                                   /\ UNCHANGED sent

\* peek(): the byte the next recv() will start with, or nothing yet.
Peek == /\ out' = <<>> \/ (got < sent /\ out' = <<got + 1>>)
        /\ UNCHANGED <<sent, got>>

\* available(): never more than what has been sent and not read.
Count == /\ \E n \in 0..(sent - got) : out' = <<n>>
         /\ UNCHANGED <<sent, got>>

StreamNext == Send \/ Read \/ Peek \/ Count

StreamSpec == StreamInit /\ [][StreamNext]_svars
=============================================================================

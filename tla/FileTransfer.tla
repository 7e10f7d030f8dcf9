---------------------------- MODULE FileTransfer ----------------------------
(***************************************************************************)
(* What a client of the TFTP server is promised: it is given the blocks of *)
(* the file in their order, each once, and the server takes the transfer   *)
(* for delivered only when the client has all of them.  Either side may    *)
(* give up at any moment.                                                  *)
(***************************************************************************)
EXTENDS Naturals, Sequences

CONSTANT Blocks  \* number of blocks in the file

VARIABLES
  received,  \* the blocks that the client was given
  outcome    \* what the server thinks of the transfer

vars == <<received, outcome>>

Init ==
  /\ received = <<>>
  /\ outcome = "open"

\* The client may be given blocks when the server has already given up.
Receive ==
  /\ Len(received) < Blocks
  /\ received' = Append(received, Len(received) + 1)
  /\ UNCHANGED outcome

Deliver ==
  /\ outcome = "open"
  /\ Len(received) = Blocks
  /\ outcome' = "delivered"
  /\ UNCHANGED received

GiveUp ==
  /\ outcome = "open"
  /\ outcome' = "given up"
  /\ UNCHANGED received

Next == Receive \/ Deliver \/ GiveUp

Spec == Init /\ [][Next]_vars
=============================================================================

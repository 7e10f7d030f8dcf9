--------------------------- MODULE MCTftpTransfer ---------------------------
(* TftpTransfer with the timeouts a client may ask for, for TLC. *)
EXTENDS TftpTransfer

ValidTimeouts == {0, 1}
=============================================================================

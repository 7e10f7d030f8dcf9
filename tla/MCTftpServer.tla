---------------------------- MODULE MCTftpServer ----------------------------
(* TftpServer with a few clients, for TLC. *)
EXTENDS TftpServer, TLC

Symmetry == Permutations(Clients)
=============================================================================

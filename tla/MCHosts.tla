------------------------------ MODULE MCHosts -------------------------------
(***************************************************************************)
(* The values of the constants of Hosts.                                   *)
(***************************************************************************)
EXTENDS Hosts, TLC

CONSTANTS u1, u2, s1, s2

\* Accounts whose ranges of ports overlap: ft-100 and one with a name of its own.
Overlapping == (u1 :> <<s1, s2>>) @@ (u2 :> <<s2, s1>>)

Symmetry == Permutations(Processes)

\* Inodes that are in use at a time.
EightInodes == 1 .. 8
=============================================================================

------------------------------- MODULE MCArms -------------------------------
(***************************************************************************)
(* The values of the constants of Arms.                                    *)
(***************************************************************************)
EXTENDS Arms, TLC

CONSTANTS os, vms, tmp_root

\* An installation on top of an operating system.
Chain == (os :> tmp_root) @@ (vms :> os)
=============================================================================

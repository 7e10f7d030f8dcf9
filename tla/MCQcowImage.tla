---------------------------- MODULE MCQcowImage ----------------------------
(* QcowImage with the sizes given in the configurations. *)
EXTENDS QcowImage
=============================================================================

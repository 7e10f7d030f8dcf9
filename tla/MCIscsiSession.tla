--------------------------- MODULE MCIscsiSession ---------------------------
(* IscsiSession with a few writes, for TLC. *)
EXTENDS IscsiSession, TLC

Symmetry == Permutations(Tags) \union Permutations(Lbas)
=============================================================================

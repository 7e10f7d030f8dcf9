--------------------------- MODULE MCGitlabTrace ----------------------------
(* GitlabTrace with a few updates, for TLC. *)
EXTENDS GitlabTrace

\* A job that was executed twice.
TwoResults == {Updates - 1, Updates}
=============================================================================

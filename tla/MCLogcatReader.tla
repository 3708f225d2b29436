--------------------------- MODULE MCLogcatReader ---------------------------
(* An instance of LogcatReader for TLC. *)
EXTENDS LogcatReader

MCPatterns == <<"p", "q">>
=============================================================================

-------------------------- MODULE MCLogcatService ---------------------------
(* An instance of LogcatService for TLC. *)
EXTENDS LogcatService
=============================================================================

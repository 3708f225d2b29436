---------------------------- MODULE MCSnippetRpc ----------------------------
(* An instance of SnippetRpc for TLC. *)
EXTENDS SnippetRpc
=============================================================================

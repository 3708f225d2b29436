-------------------------- MODULE MCSnippetClient --------------------------
(* An instance of SnippetClient for TLC. *)
EXTENDS SnippetClient

(* Names, ports, objects and threads differ in nothing but their identity. *)
Symmetry ==
  Permutations(Names) \cup Permutations(Ports) \cup Permutations(EventClients)
  \cup Permutations(Threads)

(* Handlers of two threads are looked at beside one client.                  *)
HandlersBesideOne ==
  (\A t \in Threads : async[t].handler # None \/ async[t].pc # "idle") => Len(managed) <= 1
=============================================================================

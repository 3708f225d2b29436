----------------------------- MODULE EventQueue -----------------------------
(***************************************************************************)
(* What a callback handler promises of the events of an asynchronous RPC:  *)
(* they form a queue on the device, a call takes events from its front and *)
(* hands them to its caller, and none is lost unless the connection        *)
(* failed.  Nothing is said of sockets, locks or time.                     *)
(***************************************************************************)
EXTENDS Naturals, Sequences, SequencesExt

CONSTANTS
  Threads,   \* the threads that call the handler
  MaxEvents  \* bound: events that occur

VARIABLES
  occurred,  \* events are numbered; how many have occurred
  queue,     \* the events that no call has taken, the oldest first
  waits,     \* the threads in a call
  taken,     \* per thread the events taken for its call
  seen,      \* the events handed to a caller
  failed     \* did the connection fail

vars == <<occurred, queue, waits, taken, seen, failed>>

Init ==
  /\ occurred = 0 /\ queue = <<>>
  /\ waits = {} /\ taken = [t \in Threads |-> <<>>]
  /\ seen = {} /\ failed = FALSE

Occur ==
  /\ occurred < MaxEvents
  /\ occurred' = occurred + 1
  /\ queue' = Append(queue, occurred')
  /\ UNCHANGED <<waits, taken, seen, failed>>

Call(t) ==
  /\ t \notin waits
  /\ waits' = waits \cup {t}
  /\ UNCHANGED <<occurred, queue, taken, seen, failed>>

(* The oldest event, or all there are. *)
Take(t) ==
  /\ t \in waits /\ taken[t] = <<>> /\ queue # <<>>
  /\ \/ /\ taken' = [taken EXCEPT ![t] = <<Head(queue)>>]
        /\ queue' = Tail(queue)
     \/ /\ taken' = [taken EXCEPT ![t] = queue]
        /\ queue' = <<>>
  /\ UNCHANGED <<occurred, waits, seen, failed>>

(* The caller gets what was taken, and the call ends or goes on. *)
Hand(t) ==
  /\ t \in waits
  /\ seen' = seen \cup ToSet(taken[t])
  /\ taken' = [taken EXCEPT ![t] = <<>>]
  /\ waits' \in {waits, waits \ {t}}
  /\ UNCHANGED <<occurred, queue, failed>>

Break ==
  /\ failed' = TRUE
  /\ UNCHANGED <<occurred, queue, waits, taken, seen>>

(* A call ends with an error because the connection failed. *)
Fail(t) ==
  /\ t \in waits
  /\ failed' = TRUE
  /\ waits' = waits \ {t}
  /\ taken' = [taken EXCEPT ![t] = <<>>]
  /\ UNCHANGED <<occurred, queue, seen>>

(* Events are lost only when it failed. *)
Lose ==
  /\ failed /\ queue # <<>>
  /\ queue' \in {Tail(queue), <<>>}
  /\ UNCHANGED <<occurred, waits, taken, seen, failed>>

Next ==
  \/ Occur
  \/ Break
  \/ Lose
  \/ \E t \in Threads : Call(t) \/ Take(t) \/ Hand(t) \/ Fail(t)

Spec == Init /\ [][Next]_vars

-----------------------------------------------------------------------------
(* Every event is in the queue, taken by a call, or seen by a caller, as     *)
(* long as the connection has not failed.                                    *)
Conserved ==
  ~failed =>
    1..occurred = ToSet(queue) \cup seen \cup UNION {ToSet(taken[t]) : t \in Threads}

(* No event is given to two callers. *)
TakenOnce ==
  /\ \A t \in Threads : ToSet(taken[t]) \cap (ToSet(queue) \cup seen) = {}
  /\ \A t, u \in Threads : t # u => ToSet(taken[t]) \cap ToSet(taken[u]) = {}
  /\ ToSet(queue) \cap seen = {}
=============================================================================

------------------------- MODULE EventQueueProofs -------------------------
(***************************************************************************)
(* What EventQueue promises, for any threads and any number of events: no   *)
(* event is lost while the connection holds, and none goes to two callers. *)
(* SnippetRpc implements EventQueue, so that both hold of the calls of a    *)
(* callback handler.                                                       *)
(***************************************************************************)
EXTENDS EventQueue, TLAPS

(* The events that have not been handed over yet are in one place each, and *)
(* there once.                                                             *)
Once(s) == \A i, j \in DOMAIN s : s[i] = s[j] => i = j

QueueType ==
  /\ occurred \in Nat
  /\ queue \in Seq(Nat)
  /\ taken \in [Threads -> Seq(Nat)]
  /\ failed \in BOOLEAN

Numbered ==
  /\ ToSet(queue) \subseteq 1..occurred
  /\ seen \subseteq 1..occurred
  /\ \A t \in Threads : ToSet(taken[t]) \subseteq 1..occurred

Inv ==
  /\ QueueType
  /\ Numbered
  /\ Once(queue)
  /\ TakenOnce
  /\ Conserved

-----------------------------------------------------------------------------
(* Sequences *)

LEMMA EmptySet == ToSet(<<>>) = {}
BY DEF ToSet

LEMMA AppendedSet ==
  ASSUME NEW s \in Seq(Nat), NEW e \in Nat
  PROVE  /\ Append(s, e) \in Seq(Nat)
         /\ ToSet(Append(s, e)) = ToSet(s) \cup {e}
<1>1. /\ Append(s, e) \in Seq(Nat)
      /\ Len(Append(s, e)) = Len(s) + 1
      /\ \A i \in 1..Len(s) : Append(s, e)[i] = s[i]
      /\ Append(s, e)[Len(s) + 1] = e
      /\ DOMAIN s = 1..Len(s) /\ Len(s) \in Nat
      /\ DOMAIN Append(s, e) = 1..(Len(s) + 1)
  OBVIOUS
<1>2. ASSUME NEW x \in ToSet(Append(s, e)) PROVE x \in ToSet(s) \cup {e}
  <2>1. PICK i \in 1..(Len(s) + 1) : x = Append(s, e)[i]
    BY <1>1, <1>2 DEF ToSet
  <2> QED  BY <1>1, <2>1 DEF ToSet
<1>3. ASSUME NEW x \in ToSet(s) \cup {e} PROVE x \in ToSet(Append(s, e))
  <2>1. CASE x = e
    BY <1>1, <2>1 DEF ToSet
  <2>2. CASE x \in ToSet(s)
    <3>1. PICK i \in 1..Len(s) : x = s[i]
      BY <1>1, <2>2 DEF ToSet
    <3> QED  BY <1>1, <3>1 DEF ToSet
  <2> QED  BY <1>3, <2>1, <2>2
<1> QED  BY <1>1, <1>2, <1>3

LEMMA AppendedOnce ==
  ASSUME NEW s \in Seq(Nat), NEW e \in Nat, Once(s), e \notin ToSet(s)
  PROVE  Once(Append(s, e))
<1>1. /\ \A i \in 1..Len(s) : Append(s, e)[i] = s[i] /\ s[i] # e
      /\ Append(s, e)[Len(s) + 1] = e
      /\ DOMAIN s = 1..Len(s) /\ Len(s) \in Nat
      /\ DOMAIN Append(s, e) = 1..(Len(s) + 1)
  BY DEF ToSet
<1> QED  BY <1>1 DEF Once

LEMMA SplitSet ==
  ASSUME NEW s \in Seq(Nat), s # <<>>
  PROVE  /\ Tail(s) \in Seq(Nat) /\ Head(s) \in Nat
         /\ ToSet(s) = ToSet(Tail(s)) \cup {Head(s)}
         /\ ToSet(Tail(s)) \subseteq ToSet(s)
<1>1. /\ Tail(s) \in Seq(Nat) /\ Head(s) \in Nat /\ Head(s) = s[1]
      /\ Len(s) \in Nat /\ Len(s) >= 1
      /\ DOMAIN s = 1..Len(s)
      /\ DOMAIN Tail(s) = 1..(Len(s) - 1)
      /\ \A i \in 1..(Len(s) - 1) : Tail(s)[i] = s[i + 1]
  OBVIOUS
<1>2. ASSUME NEW x \in ToSet(s) PROVE x \in ToSet(Tail(s)) \cup {Head(s)}
  <2>1. PICK i \in 1..Len(s) : x = s[i]
    BY <1>1, <1>2 DEF ToSet
  <2>2. CASE i = 1
    BY <1>1, <2>1, <2>2
  <2>3. CASE i # 1
    <3>1. i - 1 \in 1..(Len(s) - 1) /\ Tail(s)[i - 1] = x
      BY <1>1, <2>1, <2>3
    <3> QED  BY <1>1, <3>1 DEF ToSet
  <2> QED  BY <2>2, <2>3
<1>3. ASSUME NEW x \in ToSet(Tail(s)) PROVE x \in ToSet(s)
  <2>1. PICK i \in 1..(Len(s) - 1) : x = Tail(s)[i]
    BY <1>1, <1>3 DEF ToSet
  <2>2. i + 1 \in 1..Len(s) /\ s[i + 1] = x
    BY <1>1, <2>1
  <2> QED  BY <1>1, <2>2 DEF ToSet
<1>4. Head(s) \in ToSet(s)
  BY <1>1 DEF ToSet
<1> QED  BY <1>1, <1>2, <1>3, <1>4

LEMMA SplitOnce ==
  ASSUME NEW s \in Seq(Nat), s # <<>>, Once(s)
  PROVE  Once(Tail(s)) /\ Head(s) \notin ToSet(Tail(s))
<1>1. /\ Head(s) = s[1]
      /\ Len(s) \in Nat /\ Len(s) >= 1
      /\ DOMAIN s = 1..Len(s)
      /\ DOMAIN Tail(s) = 1..(Len(s) - 1)
      /\ \A i \in 1..(Len(s) - 1) : Tail(s)[i] = s[i + 1]
  OBVIOUS
<1>2. Head(s) \notin ToSet(Tail(s))
  <2>1. SUFFICES ASSUME NEW i \in 1..(Len(s) - 1), Tail(s)[i] = Head(s)
                 PROVE  FALSE
    BY <1>1 DEF ToSet
  <2> QED  BY <1>1, <2>1 DEF Once
<1>3. ASSUME NEW i \in DOMAIN Tail(s), NEW j \in DOMAIN Tail(s), Tail(s)[i] = Tail(s)[j]
      PROVE  i = j
  <2>1. i + 1 \in DOMAIN s /\ j + 1 \in DOMAIN s /\ s[i + 1] = s[j + 1]
    BY <1>1, <1>3
  <2>2. i + 1 = j + 1
    BY <2>1 DEF Once
  <2> QED  BY <1>1, <1>3, <2>2
<1> QED  BY <1>2, <1>3 DEF Once

LEMMA EmptyOnce == Once(<<>>)
BY DEF Once
-----------------------------------------------------------------------------
(* The steps *)

LEMMA InitInv == Init => Inv
<1> SUFFICES ASSUME Init PROVE Inv
  OBVIOUS
<1>1. /\ occurred = 0 /\ seen = {} /\ queue = <<>>
      /\ taken = [t \in Threads |-> <<>>]
      /\ ToSet(queue) = {} /\ \A t \in Threads : ToSet(taken[t]) = {}
  BY EmptySet DEF Init
<1>2. QueueType
  <2>1. failed \in BOOLEAN
    BY DEF Init
  <2>2. <<>> \in Seq(Nat)
    OBVIOUS
  <2> QED  BY <1>1, <2>1, <2>2 DEF QueueType
<1>3. Numbered
  BY <1>1 DEF Numbered
<1>4. Once(queue)
  BY <1>1, EmptyOnce
<1>5. TakenOnce
  BY <1>1 DEF TakenOnce
<1>6. Conserved
  <2>1. 1..occurred = {}
    BY <1>1
  <2> QED  BY <1>1, <2>1 DEF Conserved
<1> QED  BY <1>2, <1>3, <1>4, <1>5, <1>6 DEF Inv

LEMMA OccurInv == Inv /\ Occur => Inv'
<1> SUFFICES ASSUME Inv, Occur PROVE Inv'
  OBVIOUS
<1>1. /\ occurred \in Nat /\ occurred' = occurred + 1 /\ occurred' \in Nat
      /\ queue \in Seq(Nat) /\ queue' = Append(queue, occurred')
      /\ UNCHANGED <<waits, taken, seen, failed>>
  BY DEF Inv, QueueType, Occur
<1>2. queue' \in Seq(Nat) /\ ToSet(queue') = ToSet(queue) \cup {occurred'}
  BY <1>1, AppendedSet
<1>3. 1..occurred' = 1..occurred \cup {occurred'} /\ occurred' \notin 1..occurred
  BY <1>1
<1>4. QueueType'
  BY <1>1, <1>2 DEF Inv, QueueType
<1>5. Numbered'
  BY <1>1, <1>2, <1>3 DEF Inv, Numbered
<1>6. Once(queue')
  BY <1>1, <1>3, AppendedOnce DEF Inv, Numbered
<1>7. TakenOnce'
  BY <1>1, <1>2, <1>3 DEF Inv, Numbered, TakenOnce
<1>8. Conserved'
  BY <1>1, <1>2, <1>3 DEF Inv, Conserved
<1> QED  BY <1>4, <1>5, <1>6, <1>7, <1>8 DEF Inv

(* A part of the queue, its first event or all, is taken for t. *)
LEMMA TakenInv ==
  ASSUME NEW t \in Threads, NEW part \in Seq(Nat), Inv,
         ToSet(taken[t]) = {},
         taken' = [taken EXCEPT ![t] = part],
         queue' \in Seq(Nat), Once(queue'),
         ToSet(queue) = ToSet(queue') \cup ToSet(part),
         ToSet(queue') \cap ToSet(part) = {},
         UNCHANGED <<occurred, seen, failed>>
  PROVE  Inv'
<1>1. /\ taken \in [Threads -> Seq(Nat)] /\ taken' \in [Threads -> Seq(Nat)]
      /\ taken'[t] = part
      /\ \A u \in Threads : u # t => taken'[u] = taken[u]
  BY DEF Inv, QueueType
<1>2. QueueType'
  BY <1>1 DEF Inv, QueueType
<1>3. Numbered'
  BY <1>1 DEF Inv, Numbered
<1>4. TakenOnce'
  BY <1>1 DEF Inv, TakenOnce
<1>5. Conserved'
  <2>1. (UNION {ToSet(taken'[u]) : u \in Threads})
          = (UNION {ToSet(taken[u]) : u \in Threads}) \cup ToSet(part)
    BY <1>1
  <2> QED  BY <2>1 DEF Inv, Conserved
<1> QED  BY <1>2, <1>3, <1>4, <1>5 DEF Inv

LEMMA TakeInv == ASSUME NEW t \in Threads PROVE Inv /\ Take(t) => Inv'
<1> SUFFICES ASSUME Inv, Take(t) PROVE Inv'
  OBVIOUS
<1>1. /\ queue \in Seq(Nat) /\ queue # <<>> /\ Once(queue)
      /\ ToSet(taken[t]) = {}
      /\ UNCHANGED <<occurred, seen, failed>>
  BY EmptySet DEF Inv, QueueType, Take
<1>2. CASE taken' = [taken EXCEPT ![t] = <<Head(queue)>>] /\ queue' = Tail(queue)
  <2>1. <<Head(queue)>> \in Seq(Nat) /\ ToSet(<<Head(queue)>>) = {Head(queue)}
    BY <1>1, SplitSet DEF ToSet
  <2>2. /\ queue' \in Seq(Nat) /\ Once(queue')
        /\ ToSet(queue) = ToSet(queue') \cup {Head(queue)}
        /\ Head(queue) \notin ToSet(queue')
    BY <1>1, <1>2, SplitSet, SplitOnce
  <2> QED  BY <1>1, <1>2, <2>1, <2>2, TakenInv
<1>3. CASE taken' = [taken EXCEPT ![t] = queue] /\ queue' = <<>>
  <2>1. /\ queue' \in Seq(Nat) /\ Once(queue') /\ ToSet(queue') = {}
    BY <1>3, EmptySet, EmptyOnce
  <2> QED  BY <1>1, <1>3, <2>1, TakenInv
<1> QED  BY <1>2, <1>3 DEF Take

(* The events taken for t go to its caller, or are lost with the call. *)
LEMMA EndedInv ==
  ASSUME NEW t \in Threads, Inv,
         taken' = [taken EXCEPT ![t] = <<>>],
         UNCHANGED <<occurred, queue>>,
         \/ seen' = seen \cup ToSet(taken[t]) /\ failed' = failed
         \/ seen' = seen /\ failed' = TRUE
  PROVE  Inv'
<1>1. /\ taken \in [Threads -> Seq(Nat)] /\ taken' \in [Threads -> Seq(Nat)]
      /\ ToSet(taken'[t]) = {}
      /\ \A u \in Threads : u # t => taken'[u] = taken[u]
  BY EmptySet DEF Inv, QueueType
<1>2. QueueType'
  BY <1>1 DEF Inv, QueueType
<1>3. Numbered'
  BY <1>1 DEF Inv, Numbered
<1>4. TakenOnce'
  BY <1>1 DEF Inv, TakenOnce
<1>5. Conserved'
  <2>1. (UNION {ToSet(taken[u]) : u \in Threads})
          = (UNION {ToSet(taken'[u]) : u \in Threads}) \cup ToSet(taken[t])
    BY <1>1
  <2> QED  BY <2>1 DEF Inv, Conserved
<1> QED  BY <1>2, <1>3, <1>4, <1>5 DEF Inv

LEMMA LoseInv == Inv /\ Lose => Inv'
<1> SUFFICES ASSUME Inv, Lose PROVE Inv'
  OBVIOUS
<1>1. /\ queue' \in Seq(Nat) /\ Once(queue') /\ ToSet(queue') \subseteq ToSet(queue)
      /\ failed /\ UNCHANGED <<occurred, waits, taken, seen, failed>>
  <2>1. queue \in Seq(Nat) /\ Once(queue) /\ queue # <<>>
    BY DEF Inv, QueueType, Lose
  <2>2. CASE queue' = Tail(queue)
    BY <2>1, <2>2, SplitSet, SplitOnce DEF Lose
  <2>3. CASE queue' = <<>>
    BY <2>3, EmptySet, EmptyOnce DEF Lose
  <2> QED  BY <2>2, <2>3 DEF Lose
<1>2. TakenOnce'
  BY <1>1 DEF Inv, TakenOnce
<1>3. Numbered'
  BY <1>1 DEF Inv, Numbered
<1> QED  BY <1>1, <1>2, <1>3 DEF Inv, QueueType, Conserved

LEMMA IdleInv ==
  ASSUME Inv, UNCHANGED <<occurred, queue, taken, seen>>, failed' = failed \/ failed' = TRUE
  PROVE  Inv'
BY DEF Inv, QueueType, Numbered, TakenOnce, Conserved, Once

LEMMA NextInv == Inv /\ [Next]_vars => Inv'
<1> SUFFICES ASSUME Inv, [Next]_vars PROVE Inv'
  OBVIOUS
<1>1. CASE Occur
  BY <1>1, OccurInv
<1>2. CASE Break
  BY <1>2, IdleInv DEF Break
<1>3. CASE Lose
  BY <1>3, LoseInv
<1>4. ASSUME NEW t \in Threads, Call(t) PROVE Inv'
  BY <1>4, IdleInv DEF Call
<1>5. ASSUME NEW t \in Threads, Take(t) PROVE Inv'
  BY <1>5, TakeInv
<1>6. ASSUME NEW t \in Threads, Hand(t) PROVE Inv'
  BY <1>6, EndedInv DEF Hand
<1>7. ASSUME NEW t \in Threads, Fail(t) PROVE Inv'
  BY <1>7, EndedInv DEF Fail
<1>8. CASE UNCHANGED vars
  BY <1>8, IdleInv DEF vars
<1> QED  BY <1>1, <1>2, <1>3, <1>4, <1>5, <1>6, <1>7, <1>8 DEF Next

-----------------------------------------------------------------------------
(* Every event that occurred waits on the device, is on its way in a call or  *)
(* was handed to a caller, as long as the connection did not fail:           *)
(* waitAndGet, waitForEvent and getAll lose none.                            *)
THEOREM EventsConserved == Spec => []Conserved
<1>1. Inv => Conserved
  BY DEF Inv
<1> QED  BY <1>1, InitInv, NextInv, PTL DEF Spec

(* No event is given to two callers, whether or not the connection failed:   *)
(* of several threads that wait for one event name each gets its own.        *)
THEOREM EventsTakenOnce == Spec => []TakenOnce
<1>1. Inv => TakenOnce
  BY DEF Inv
<1> QED  BY <1>1, InitInv, NextInv, PTL DEF Spec
=============================================================================

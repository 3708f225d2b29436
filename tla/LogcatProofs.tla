---------------------------- MODULE LogcatProofs ----------------------------
(***************************************************************************)
(* Theorems about logcat: the service that writes the log of a device to a *)
(* file (LogcatService) and what reads the file (LogcatReader).  The two   *)
(* specifications share no variable.                                       *)
(*                                                                         *)
(* Of the readers, for any patterns, any number of threads and files of    *)
(* any length: wait_for reports the first line for each pattern and passes *)
(* by none, a listener's thread dispatches each line it comes by once and  *)
(* in order, the queue keeps that order, nothing is dispatched after the   *)
(* context was left, and tail, which reads backwards in blocks, returns    *)
(* the end of what get_lines returns.                                      *)
(*                                                                         *)
(* What a thread has passed by is between scan and its position in the     *)
(* open file: a line there for which it looks was read in part, or the     *)
(* scan had moved past it (Tracks).  Everything else follows from what     *)
(* lies before scan (Dispatched, Found, Looked).                           *)
(*                                                                         *)
(* get_lines and tail are loops, and their models recursive functions.     *)
(* That these have a value, and what follows for every length of the file, *)
(* is shown by induction over a set of offsets (Backwards, Forwards).      *)
(*                                                                         *)
(* Of the service, for logs of any length and any sequence of its methods: *)
(* no line of a pause is lost or written twice, and the excerpts part what *)
(* the file got.                                                           *)
(*                                                                         *)
(* Owing says where a line that is still owed will come from: the process  *)
(* has it before it, or a process that is being started will begin before  *)
(* it, or the time that pause noted lies before it.  Fresh says the        *)
(* opposite of what was written, so that none of it is written again.      *)
(***************************************************************************)
EXTENDS LogcatReader, LogcatService, SequenceTheorems, WellFoundedInduction, TLAPS

WaitModes == {"in_order", "any_order"}

ScannerType ==
  [alive : BOOLEAN, open : BOOLEAN, at : Nat, scan : Nat, half : SUBSET Nat]

TypeOK ==
  /\ file \in Seq(Pieces) /\ Len(file) <= MaxPieces
  /\ mode \in {"idle", "listen"} \cup WaitModes
  /\ since \in 0..Len(file)
  /\ scanner \in [Scanners -> ScannerType]
  /\ match \in [DOMAIN Patterns -> SUBSET Nat]
  /\ outcome \in {"none", "found", "timeout"}
  /\ sent \in [Scanners -> Seq(Nat)]
  /\ halves \in [Scanners -> SUBSET Nat]

(* The rest of a line follows its head. *)
Shape ==
  \A i \in 1..Len(file) - 1 : file[i].part = "head" => file[i + 1].part = "rest"

(* The offsets of the lines for a pattern, half written ones included. *)
Begun(p) == {i \in 0..Len(file) - 1 : /\ file[i + 1].part # "rest"
                                      /\ file[i + 1].kind = p}

Wanteds == {"p", "q"}

Tracks ==
  \A t \in Scanners :
    LET s == scanner[t] IN
    /\ s.at <= Len(file) /\ s.scan <= Len(file)
    /\ s.alive => since <= s.scan
    /\ s.open => s.alive /\ s.scan <= s.at
    /\ \A i \in halves[t] : i < s.scan
    /\ \A i \in s.half : i < s.at /\ (i < s.scan => i \in halves[t])
    /\ s.at = 0 => halves[t] = {}
    /\ s.open => \A p \in Wanteds : \A i \in Begun(p) :
                   s.scan <= i /\ i < s.at => i \in s.half

(* What there is before the user does anything, and what the modes exclude. *)
Users ==
  /\ mode = "idle" => \A t \in Scanners : scanner[t] = Off
  /\ mode # "listen" => context = "out" /\ \A t \in Scanners : sent[t] = <<>>
  /\ mode \in WaitModes => \A t \in Scanners \ {Caller} : ~scanner[t].alive
  /\ mode \notin WaitModes =>
       outcome = "none" /\ \A k \in DOMAIN Patterns : match[k] = {}
  /\ outcome # "found" => Missing # {}

Dispatched ==
  \A t \in Scanners :
    /\ \A i, j \in DOMAIN sent[t] : i < j => sent[t][i] < sent[t][j]
    /\ ToSet(sent[t]) \subseteq Lines
    /\ mode = "listen" /\ scanner[t].alive =>
         ToSet(sent[t]) =
           {i \in Begun(Patterns[1]) : since <= i /\ i < scanner[t].scan}
             \ halves[t]

(* Of the lines for pattern k only those of which the head was read alone     *)
(* lie before an offset.                                                     *)
NoneBefore(k, offset) ==
  \A j \in Begun(Patterns[k]) :
    From(k) <= j /\ j < offset => j \in halves[Caller]

Found ==
  \A k \in DOMAIN Patterns : \A i \in match[k] :
    /\ i \in Matching(Patterns[k]) /\ From(k) <= i
    /\ i < scanner[Caller].scan
    /\ NoneBefore(k, i)
    /\ match[k] = {i}

Looked ==
  mode \in WaitModes =>
    \A k \in Missing :
      /\ mode = "in_order" => \A j \in DOMAIN Patterns : k < j => j \in Missing
      /\ mode = "any_order" \/ (\A j \in Missing : k <= j) =>
           /\ From(k) <= scanner[Caller].scan
           /\ NoneBefore(k, scanner[Caller].scan)

ReadInv ==
  TypeOK /\ Shape /\ Tracks /\ Users /\ Dispatched /\ Found /\ Looked

(* The queue, what was taken from it, and the deque. *)
Fifo ==
  /\ order \in Seq(Nat) /\ given \in Seq(Nat)
  /\ queue \in Seq(Nat) /\ events \in Seq(Nat)
  /\ Len(queue) <= QueueSize /\ Len(events) <= QueueSize
  /\ Len(events) <= Len(order)
  /\ Len(given) + Len(queue) <= Len(order)

(* The threads that run are those that the context is to join. *)
Joins ==
  /\ mode = "idle" => \A t \in Scanners : ~scanner[t].alive
  /\ \A t \in Scanners : scanner[t].open => scanner[t].alive
  /\ mode = "listen" /\ ~abandoned =>
       \A t \in Scanners : scanner[t].alive => t \in thread /\ context # "out"

-----------------------------------------------------------------------------
(* Lines *)

(* What a reader makes of the piece at its position: a line for a pattern is   *)
(* known as such if it is read whole, and a line for a pattern that is passed  *)
(* by was read in part.                                                      *)
LEMMA LineFacts ==
  ASSUME TypeOK, Shape, NEW at \in Nat, at < Len(file), NEW line,
         line = LineAt(at)
  PROVE  /\ line.start = at
         /\ line.next \in Nat /\ at < line.next /\ line.next <= Len(file)
         /\ line.half \in BOOLEAN
         /\ line.kind \in Wanteds =>
              /\ at \in Matching(line.kind) /\ Parsed(line) /\ ~line.half
              /\ line.next = IF file[at + 1].part = "head"
                               THEN at + 2 ELSE at + 1
         /\ \A p \in Wanteds : \A i \in Begun(p) :
              at <= i /\ i < line.next =>
                i = at /\ (line.half \/ line.kind = p)
<1> DEFINE x == file[at + 1]
           joined == x.part = "head" /\ at + 2 <= Len(file)
<1>1. at + 1 \in 1..Len(file) /\ Len(file) \in Nat /\ x \in Pieces
  BY DEF TypeOK
<1>2. /\ x.part \in {"whole", "head", "rest"} /\ x.kind \in Kinds
      /\ x.parses \in BOOLEAN
  BY <1>1 DEF Pieces
<1>3. line = [start |-> at,
              next  |-> IF joined THEN at + 2 ELSE at + 1,
              half  |-> x.part = "head" /\ ~joined,
              kind  |-> CASE x.part = "whole" \/ joined -> x.kind
                          [] x.part = "head" /\ ~joined /\ x.parses -> "other"
                          [] OTHER -> "unparsed"]
  BY DEF LineAt, LineIn
<1>4. /\ line.start = at
      /\ line.next = IF joined THEN at + 2 ELSE at + 1
      /\ line.half = (x.part = "head" /\ ~joined)
      /\ line.kind = CASE x.part = "whole" \/ joined -> x.kind
                       [] x.part = "head" /\ ~joined /\ x.parses -> "other"
                       [] OTHER -> "unparsed"
  BY <1>3
<1>5. line.next \in Nat /\ at < line.next /\ line.next <= Len(file)
  BY <1>1, <1>4
<1>6. /\ x.part = "whole" \/ joined => line.kind = x.kind
      /\ ~(x.part = "whole" \/ joined) => line.kind \in {"other", "unparsed"}
  BY <1>2, <1>4
<1>7. ASSUME line.kind \in Wanteds
      PROVE  /\ at \in Matching(line.kind) /\ Parsed(line) /\ ~line.half
             /\ line.next = IF x.part = "head" THEN at + 2 ELSE at + 1
  <2>1. (x.part = "whole" \/ joined) /\ line.kind = x.kind
    BY <1>6, <1>7 DEF Wanteds
  <2>2. at \in Matching(line.kind)
    BY <1>1, <2>1 DEF Matching, Lines
  <2>3. Parsed(line) /\ ~line.half
    BY <1>4, <1>7, <2>1 DEF Parsed, Wanteds
  <2> QED
    BY <1>4, <2>1, <2>2, <2>3
<1>8. ASSUME NEW p \in Wanteds, NEW i \in Begun(p), at <= i, i < line.next
      PROVE  i = at /\ (line.half \/ line.kind = p)
  <2>1. i \in Nat /\ i + 1 \in 1..Len(file) /\ file[i + 1].part # "rest"
        /\ file[i + 1].kind = p
    BY <1>1, <1>8 DEF Begun
  <2>2. i = at \/ (joined /\ i = at + 1)
    BY <1>1, <1>4, <1>8, <2>1
  <2>3. ASSUME joined, i = at + 1 PROVE FALSE
    <3>1. at + 1 \in 1..Len(file) - 1 /\ file[at + 1].part = "head"
      BY <1>1, <2>3
    <3>2. file[(at + 1) + 1].part = "rest"
      BY <3>1 DEF Shape
    <3> QED
      BY <2>1, <2>3, <3>2
  <2>4. i = at
    BY <2>2, <2>3
  <2>5. x.part = "whole" \/ joined \/ line.half
    BY <1>2, <1>4, <2>1, <2>4
  <2> QED
    BY <1>6, <2>1, <2>4, <2>5
<1> QED
  BY <1>4, <1>5, <1>7, <1>8

(* What is written later leaves the earlier pieces as they are. *)
LEMMA WriteFacts ==
  ASSUME TypeOK, Shape, Write
  PROVE  /\ file' \in Seq(Pieces) /\ Len(file') <= MaxPieces /\ Shape'
         /\ Len(file') = Len(file) + 1 /\ Len(file) \in Nat
         /\ \A i \in 1..Len(file) : file'[i] = file[i]
         /\ Lines \subseteq Lines'
         /\ \A p : /\ Begun(p) \subseteq Begun(p)'
                   /\ \A i \in Begun(p)' : i \in Begun(p) \/ i = Len(file)
                   /\ Matching(p) \subseteq Matching(p)'
<1>1. PICK x \in Pieces :
        /\ Len(file) < MaxPieces
        /\ file # <<>> /\ Last(file).part = "head" => x.part = "rest"
        /\ file' = Append(file, x)
  BY DEF Write
<1>2. /\ file' \in Seq(Pieces) /\ Len(file') = Len(file) + 1
      /\ Len(file) \in Nat
      /\ \A i \in 1..Len(file) : file'[i] = file[i]
      /\ file'[Len(file) + 1] = x
  BY <1>1 DEF TypeOK
<1>3. Len(file') <= MaxPieces
  BY <1>1, <1>2, ReaderAssumption
<1>4. Shape'
  <2> SUFFICES ASSUME NEW i \in 1..Len(file') - 1, file'[i].part = "head"
               PROVE  file'[i + 1].part = "rest"
    BY DEF Shape
  <2>1. CASE i = Len(file)
    BY <1>1, <1>2, <2>1 DEF Last, TypeOK
  <2>2. CASE i < Len(file)
    BY <1>2, <2>2 DEF Shape
  <2> QED
    BY <1>2, <2>1, <2>2
<1>5. Lines \subseteq Lines'
  BY <1>2 DEF Lines
<1>6. \A p : /\ Begun(p) \subseteq Begun(p)'
             /\ \A i \in Begun(p)' : i \in Begun(p) \/ i = Len(file)
  BY <1>2 DEF Begun
<1>7. \A p : Matching(p) \subseteq Matching(p)'
  BY <1>2, <1>5 DEF Matching, Lines
<1> QED
  BY <1>2, <1>3, <1>4, <1>5, <1>6, <1>7

(* The smallest of a set of numbers. *)
LEMMA Smallest ==
  ASSUME NEW S \in SUBSET Nat, S # {}
  PROVE  \E m \in S : \A k \in S : m <= k
<1>1. PICK m \in S : \A k \in S : ~(<<k, m>> \in OpToRel(<, Nat))
  BY NatLessThanWellFounded, WFMin
<1>2. ASSUME NEW k \in S PROVE m <= k
  <2>1. ~(k < m)
    BY <1>1 DEF OpToRel
  <2> QED
    BY <2>1
<1> QED
  BY <1>2

(* Induction from the end: what holds at an offset once it holds at all the   *)
(* later ones holds at all.                                                  *)
LEMMA Backwards ==
  ASSUME NEW to \in Nat, NEW S,
         \A i \in 0..to : (\A j \in i + 1..to : j \in S) => i \in S
  PROVE  \A i \in 0..to : i \in S
<1> DEFINE Bad == {k \in 0..to : to - k \notin S}
<1>1. Bad = {}
  <2> SUFFICES ASSUME Bad # {} PROVE FALSE
    OBVIOUS
  <2>1. Bad \in SUBSET Nat
    OBVIOUS
  <2> HIDE DEF Bad
  <2>2. PICK k \in Bad : \A j \in Bad : k <= j
    BY <2>1, Smallest
  <2> USE DEF Bad
  <2>3. k \in 0..to /\ to - k \in 0..to /\ to - k \notin S
    BY <2>2
  <2>4. ASSUME NEW j \in to - k + 1..to PROVE j \in S
    <3>1. to - j \in 0..to /\ to - j < k /\ to - (to - j) = j
      BY <2>3, <2>4
    <3> QED
      BY <2>2, <3>1
  <2> QED
    BY <2>3, <2>4
<1>2. ASSUME NEW i \in 0..to PROVE i \in S
  <2>1. to - i \in 0..to /\ to - (to - i) = i
    OBVIOUS
  <2> QED
    BY <1>1, <2>1
<1> QED
  BY <1>2

(* Induction from the beginning.                                             *)
LEMMA Forwards ==
  ASSUME NEW n \in Nat, NEW S, 0 \in S, \A i \in 1..n : i - 1 \in S => i \in S
  PROVE  \A i \in 0..n : i \in S
<1> DEFINE Bad == {i \in 0..n : i \notin S}
<1>1. Bad \in SUBSET Nat
  OBVIOUS
<1> SUFFICES ASSUME Bad # {} PROVE FALSE
  OBVIOUS
<1> HIDE DEF Bad
<1>2. PICK k \in Bad : \A j \in Bad : k <= j
  BY <1>1, Smallest
<1> USE DEF Bad
<1>3. k \in 1..n /\ k - 1 \in 0..n /\ k - 1 \notin Bad
  BY <1>2
<1> QED
  BY <1>2, <1>3

(* The pattern that is looked for next is the first that is missing. *)
LEMMA NextMissingFirst ==
  ASSUME ReaderAssumption, Missing # {}
  PROVE  NextMissing \in Missing /\ \A j \in Missing : NextMissing <= j
<1>1. Missing \in SUBSET Nat
  BY DEF Missing, ReaderAssumption
<1>2. \E m \in Missing : \A k \in Missing : m <= k
  BY <1>1, Smallest
<1> QED
  BY <1>2 DEF NextMissing

(* Where the next pattern is looked for, in order: after the line found.      *)
LEMMA FromIs ==
  ASSUME NEW k \in DOMAIN Patterns, mode = "in_order", k > 1,
         NEW i, match[k - 1] = {i},
         NEW v \in Offsets, v = IF file[i + 1].part = "head" THEN i + 2 ELSE i + 1
  PROVE  From(k) = v
<1>1. match[k - 1] # {}
  OBVIOUS
<1>2. From(k) = CHOOSE n \in Offsets : \E j \in match[k - 1] :
                  n = IF file[j + 1].part = "head" THEN j + 2 ELSE j + 1
  BY <1>1 DEF From
<1>3. \A n : (\E j \in match[k - 1] :
                n = IF file[j + 1].part = "head" THEN j + 2 ELSE j + 1)
             <=> n = v
  OBVIOUS
<1> QED
  BY <1>2, <1>3

(* Otherwise it is looked for from where wait_for began. *)
LEMMA FromSince ==
  ASSUME NEW k, mode # "in_order" \/ k <= 1 \/ match[k - 1] = {}, k \in Nat
  PROVE  From(k) = since
  BY DEF From

(* The value of From, and that it is an offset. *)
LEMMA FromType ==
  ASSUME TypeOK, Found, NEW k \in DOMAIN Patterns
  PROVE  /\ From(k) \in 0..Len(file)
         /\ \/ From(k) = since
               /\ (mode # "in_order" \/ k <= 1 \/ match[k - 1] = {})
            \/ /\ mode = "in_order" /\ k > 1
               /\ \E i \in match[k - 1] :
                    /\ i + 1 \in 1..Len(file) /\ match[k - 1] = {i}
                    /\ From(k) = IF file[i + 1].part = "head"
                                   THEN i + 2 ELSE i + 1
<1>1. /\ k \in Nat \ {0} /\ Len(file) \in Nat /\ Len(file) <= MaxPieces
      /\ MaxPieces \in Nat /\ since \in 0..Len(file)
  BY ReaderAssumption DEF TypeOK
<1>2. CASE mode # "in_order" \/ k <= 1 \/ match[k - 1] = {}
  BY <1>1, <1>2, FromSince
<1>3. CASE mode = "in_order" /\ k > 1 /\ match[k - 1] # {}
  <2>1. PICK i \in match[k - 1] : TRUE
    BY <1>3
  <2>2. k - 1 \in DOMAIN Patterns
    BY <1>1, <1>3, ReaderAssumption
  <2>3. i \in Matching(Patterns[k - 1]) /\ match[k - 1] = {i}
    BY <2>1, <2>2 DEF Found
  <2> DEFINE v == IF file[i + 1].part = "head" THEN i + 2 ELSE i + 1
  <2>4. /\ i \in Nat /\ i + 1 \in 1..Len(file)
        /\ \/ file[i + 1].part = "whole"
           \/ file[i + 1].part = "head" /\ i + 2 <= Len(file)
    <3>1. i \in Lines
      BY <2>3 DEF Matching
    <3> QED
      BY <1>1, <3>1 DEF Lines
  <2>5. v \in 0..Len(file) /\ v \in Offsets
    BY <1>1, <2>4 DEF Offsets
  <2>6. From(k) = v
    BY <1>3, <2>3, <2>5, FromIs
  <2> QED
    BY <1>3, <2>1, <2>3, <2>4, <2>5, <2>6
<1> QED
  BY <1>1, <1>2, <1>3

(* A found line stays the one after which the next is looked for. *)
LEMMA FromStays ==
  ASSUME TypeOK, Found, UNCHANGED <<mode, since>>,
         NEW k \in DOMAIN Patterns,
         k > 1 => match'[k - 1] = match[k - 1],
         \A i \in 1..Len(file) : file'[i] = file[i]
  PROVE  From(k)' = From(k)
<1>1. /\ k \in Nat \ {0} /\ Len(file) \in Nat /\ Len(file) <= MaxPieces
      /\ MaxPieces \in Nat
  BY ReaderAssumption DEF TypeOK
<1>2. CASE mode # "in_order" \/ k <= 1 \/ match[k - 1] = {}
  <2>1. From(k) = since
    BY <1>1, <1>2, FromSince
  <2>2. From(k)' = since'
    BY <1>1, <1>2 DEF From
  <2> QED
    BY <2>1, <2>2
<1>3. CASE mode = "in_order" /\ k > 1 /\ match[k - 1] # {}
  <2>1. PICK i \in match[k - 1] :
          /\ i + 1 \in 1..Len(file) /\ match[k - 1] = {i}
          /\ From(k) = IF file[i + 1].part = "head" THEN i + 2 ELSE i + 1
          /\ From(k) \in 0..Len(file)
    BY <1>3, FromType
  <2> DEFINE v == From(k)
  <2>2. v \in Offsets
    BY <1>1, <2>1 DEF Offsets
  <2>3. /\ mode' = "in_order" /\ match'[k - 1] = {i}
        /\ v = IF file'[i + 1].part = "head" THEN i + 2 ELSE i + 1
    BY <1>3, <2>1
  <2> HIDE DEF v
  <2>4. From(k)' = CHOOSE n \in Offsets : \E j \in match'[k - 1] :
                     n = IF file'[j + 1].part = "head" THEN j + 2 ELSE j + 1
    BY <1>3, <2>3 DEF From
  <2>5. \A n : (\E j \in match'[k - 1] :
                  n = IF file'[j + 1].part = "head" THEN j + 2 ELSE j + 1)
               <=> n = v
    BY <2>3
  <2>6. From(k)' = v
    BY <2>2, <2>4, <2>5
  <2> QED
    BY <2>6 DEF v
<1> QED
  BY <1>1, <1>2, <1>3

-----------------------------------------------------------------------------
(* The steps *)

(* What is written is after what was passed by. *)
LEMMA WriteKeeps ==
  ASSUME ReadInv, Write
  PROVE  ReadInv'
<1> USE DEF ReadInv
<1>1. UNCHANGED <<mode, since, scanner, expired, outcome, match, context, sent,
                  halves>>
  BY DEF Write, waitVars, listenVars
<1>2. /\ file' \in Seq(Pieces) /\ Len(file') <= MaxPieces /\ Shape'
      /\ Len(file') = Len(file) + 1 /\ Len(file) \in Nat
      /\ \A i \in 1..Len(file) : file'[i] = file[i]
      /\ Lines \subseteq Lines'
      /\ \A p : /\ Begun(p) \subseteq Begun(p)'
                /\ \A i \in Begun(p)' : i \in Begun(p) \/ i = Len(file)
                /\ Matching(p) \subseteq Matching(p)'
  BY WriteFacts
<1>3. TypeOK'
  BY <1>1, <1>2 DEF TypeOK
<1>4. \A t \in Scanners :
        /\ scanner[t].at \in Nat /\ scanner[t].scan \in Nat
        /\ scanner[t].at <= Len(file) /\ scanner[t].scan <= Len(file)
  BY DEF Tracks, TypeOK, ScannerType
<1>5. Tracks'
  BY <1>1, <1>2, <1>4 DEF Tracks
<1>6. Missing' = Missing
  BY <1>1 DEF Missing
<1>7. Users'
  BY <1>1, <1>6 DEF Users
<1>8. Dispatched'
  <2>1. ASSUME NEW t \in Scanners
        PROVE  {i \in Begun(Patterns[1])' :
                  since <= i /\ i < scanner[t].scan} =
               {i \in Begun(Patterns[1]) :
                  since <= i /\ i < scanner[t].scan}
    BY <1>2, <1>4
  <2> QED
    BY <1>1, <1>2, <2>1 DEF Dispatched
<1>9. \A k \in DOMAIN Patterns : From(k)' = From(k)
  BY <1>1, <1>2, FromStays
<1>10. ASSUME NEW k \in DOMAIN Patterns, NEW offset \in Nat,
              offset <= Len(file), NoneBefore(k, offset)
       PROVE  \A j \in Begun(Patterns[k])' :
                From(k)' <= j /\ j < offset => j \in halves[Caller]
  BY <1>2, <1>9, <1>10 DEF NoneBefore
<1>11. Caller \in Scanners
  BY ReaderAssumption DEF Caller
<1>12. Found'
  <2> SUFFICES ASSUME NEW k \in DOMAIN Patterns, NEW i \in match[k]
               PROVE  /\ i \in Matching(Patterns[k])' /\ From(k)' <= i
                      /\ i < scanner'[Caller].scan
                      /\ NoneBefore(k, i)'
                      /\ match'[k] = {i}
    BY <1>1 DEF Found
  <2>1. /\ i \in Matching(Patterns[k]) /\ From(k) <= i
        /\ i < scanner[Caller].scan /\ NoneBefore(k, i) /\ match[k] = {i}
    BY DEF Found
  <2>2. i \in Nat /\ i <= Len(file)
    BY <1>2, <2>1 DEF Matching, Lines
  <2>3. NoneBefore(k, i)'
    BY <1>1, <1>10, <2>1, <2>2 DEF NoneBefore
  <2> QED
    BY <1>1, <1>2, <1>9, <2>1, <2>3
<1>13. Looked'
  <2> SUFFICES ASSUME mode \in WaitModes, NEW k \in Missing
               PROVE  /\ mode = "in_order" =>
                           \A j \in DOMAIN Patterns : k < j => j \in Missing
                      /\ mode = "any_order" \/ (\A j \in Missing : k <= j) =>
                           /\ From(k)' <= scanner'[Caller].scan
                           /\ NoneBefore(k, scanner[Caller].scan)'
    BY <1>1, <1>6 DEF Looked
  <2>1. k \in DOMAIN Patterns
    BY DEF Missing
  <2>2. mode = "in_order" => \A j \in DOMAIN Patterns : k < j => j \in Missing
    BY DEF Looked
  <2>3. ASSUME mode = "any_order" \/ (\A j \in Missing : k <= j)
        PROVE  /\ From(k)' <= scanner'[Caller].scan
               /\ NoneBefore(k, scanner[Caller].scan)'
    <3>1. /\ From(k) <= scanner[Caller].scan
          /\ NoneBefore(k, scanner[Caller].scan)
      BY <2>3 DEF Looked
    <3>2. NoneBefore(k, scanner[Caller].scan)'
      BY <1>1, <1>4, <1>10, <1>11, <2>1, <3>1 DEF NoneBefore
    <3> QED
      BY <1>1, <1>9, <2>1, <3>1, <3>2
  <2> QED
    BY <2>2, <2>3
<1> QED
  BY <1>2, <1>3, <1>5, <1>7, <1>8, <1>12, <1>13

(* A step of a thread that moves no scan. *)
LEMMA ScansStay ==
  ASSUME ReadInv, UNCHANGED <<file, mode, since, match, sent, halves>>,
         outcome' \in {"none", "found", "timeout"},
         scanner' \in [Scanners -> ScannerType],
         \A t \in Scanners : /\ scanner'[t].scan = scanner[t].scan
                             /\ scanner'[t].alive => scanner[t].alive,
         Tracks', Users'
  PROVE  ReadInv'
<1> USE DEF ReadInv
<1>1. TypeOK' /\ Shape'
  BY DEF TypeOK, Shape
<1>2. Dispatched'
  BY DEF Dispatched, Lines, Begun
<1>3. \A k : From(k)' = From(k)
  BY DEF From
<1>4. \A k, offset : NoneBefore(k, offset) => NoneBefore(k, offset)'
  BY <1>3 DEF NoneBefore, Begun
<1>5. Missing' = Missing /\ Caller \in Scanners
  BY ReaderAssumption DEF Missing, Caller
<1>6. scanner'[Caller].scan = scanner[Caller].scan
  BY <1>5
<1>7. \A p : Matching(p)' = Matching(p)
  BY DEF Matching, Lines
<1>8. Found'
  BY <1>3, <1>4, <1>6, <1>7 DEF Found
<1>9. Looked'
  <2> SUFFICES ASSUME mode \in WaitModes, NEW k \in Missing
               PROVE  /\ mode = "in_order" =>
                           \A j \in DOMAIN Patterns : k < j => j \in Missing
                      /\ mode = "any_order" \/ (\A j \in Missing : k <= j) =>
                           /\ From(k)' <= scanner'[Caller].scan
                           /\ NoneBefore(k, scanner[Caller].scan)'
    BY <1>5 DEF Looked
  <2>1. k \in DOMAIN Patterns
    BY DEF Missing
  <2>2. mode = "in_order" => \A j \in DOMAIN Patterns : k < j => j \in Missing
    BY DEF Looked
  <2>3. ASSUME mode = "any_order" \/ (\A j \in Missing : k <= j)
        PROVE  /\ From(k)' <= scanner'[Caller].scan
               /\ NoneBefore(k, scanner[Caller].scan)'
    <3>1. /\ From(k) <= scanner[Caller].scan
          /\ NoneBefore(k, scanner[Caller].scan)
      BY <2>3 DEF Looked
    <3>2. NoneBefore(k, scanner[Caller].scan)'
      BY <1>1, <1>6, <3>1 DEF NoneBefore, From, Begun
    <3> QED
      BY <1>3, <1>6, <3>1, <3>2
  <2> QED
    BY <2>2, <2>3
<1> QED
  BY <1>1, <1>2, <1>8, <1>9

(* Opening the file, coming to its end, and leaving. *)
LEMMA QuietKeeps ==
  ASSUME ReadInv, NEW t \in Scanners, Open(t) \/ EndOfFile(t) \/ ThreadEnds(t)
  PROVE  ReadInv'
<1>1. UNCHANGED <<file, mode, since, match, outcome, sent, halves, context>>
  BY DEF Open, EndOfFile, ThreadEnds, waitVars, listenVars
<1>2. /\ scanner \in [Scanners -> ScannerType] /\ scanner[t] \in ScannerType
      /\ Tracks /\ Users
  BY DEF ReadInv, TypeOK
<1>3. /\ scanner' \in [Scanners -> ScannerType]
      /\ \A u \in Scanners : u # t => scanner'[u] = scanner[u]
      /\ scanner'[t].scan = scanner[t].scan
      /\ \/ /\ scanner[t].alive /\ scanner'[t].alive /\ scanner'[t].open
            /\ scanner'[t].at = scanner[t].scan /\ scanner'[t].half = {}
         \/ /\ scanner'[t].alive = scanner[t].alive /\ ~scanner'[t].open
            /\ scanner'[t].at = scanner[t].at
            /\ scanner'[t].half = scanner[t].half
         \/ /\ ~scanner'[t].alive /\ ~scanner[t].open /\ ~scanner'[t].open
            /\ scanner[t].alive
            /\ scanner'[t].at = scanner[t].at
            /\ scanner'[t].half = scanner[t].half
  <2>1. CASE Open(t)
    BY <1>2, <2>1 DEF Open, OpensAt, ScannerType
  <2>2. CASE EndOfFile(t)
    BY <1>2, <2>2 DEF EndOfFile, ScannerType
  <2>3. CASE ThreadEnds(t)
    BY <1>2, <2>3 DEF ThreadEnds, ScannerType
  <2> QED
    BY <2>1, <2>2, <2>3
<1>4. \A u \in Scanners : scanner'[u].alive => scanner[u].alive
  BY <1>3
<1>5. Tracks'
  <2> SUFFICES ASSUME NEW u \in Scanners
               PROVE  LET s == scanner'[u] IN
                      /\ s.at <= Len(file) /\ s.scan <= Len(file)
                      /\ s.alive => since <= s.scan
                      /\ s.open => s.alive /\ s.scan <= s.at
                      /\ \A i \in halves[u] : i < s.scan
                      /\ \A i \in s.half :
                           i < s.at /\ (i < s.scan => i \in halves[u])
                      /\ s.at = 0 => halves[u] = {}
                      /\ s.open => \A p \in Wanteds : \A i \in Begun(p) :
                                     s.scan <= i /\ i < s.at => i \in s.half
    BY <1>1 DEF Tracks, Begun
  <2>1. CASE u # t
    BY <1>2, <1>3, <2>1 DEF Tracks
  <2>2. CASE u = t
    <3>1. halves[t] \in SUBSET Nat /\ Len(file) \in Nat
      BY DEF ReadInv, TypeOK
    <3>2. \A p : Begun(p) \subseteq Nat
      BY <3>1 DEF Begun
    <3>3. scanner[t].scan \in Nat /\ scanner[t].at \in Nat
      BY <1>2 DEF ScannerType
    <3> QED
      BY <1>2, <1>3, <2>2, <3>1, <3>2, <3>3 DEF Tracks
  <2> QED
    BY <2>1, <2>2
<1>6. Users'
  <2>1. mode # "idle"
    <3> SUFFICES ASSUME mode = "idle" PROVE FALSE
      OBVIOUS
    <3>1. scanner[t] = Off
      BY <1>2 DEF Users
    <3> QED
      BY <3>1 DEF Off, Open, EndOfFile, ThreadEnds
  <2>2. Missing' = Missing
    BY <1>1 DEF Missing
  <2> QED
    BY <1>1, <1>2, <1>4, <2>1, <2>2 DEF Users
<1> QED
  BY <1>1, <1>3, <1>4, <1>5, <1>6, ScansStay DEF ReadInv, TypeOK

(* The record a thread starts with. *)
LEMMA StartedType ==
  ASSUME NEW o \in Nat, NEW s, s = [Off EXCEPT !.alive = TRUE, !.scan = o]
  PROVE  /\ Off \in ScannerType
         /\ ~Off.alive /\ ~Off.open /\ Off.at = 0 /\ Off.scan = 0
         /\ Off.half = {}
         /\ s \in ScannerType
         /\ s.scan = o /\ s.alive /\ ~s.open /\ s.at = 0 /\ s.half = {}
<1>1. Off = [alive |-> FALSE, open |-> FALSE, at |-> 0, scan |-> 0, half |-> {}]
  BY DEF Off
<1>2. s = [alive |-> TRUE, open |-> FALSE, at |-> 0, scan |-> o, half |-> {}]
  BY <1>1
<1>3. {} \in SUBSET Nat /\ 0 \in Nat
  OBVIOUS
<1> QED
  BY <1>1, <1>2, <1>3 DEF ScannerType

(* A call begins where it is told to, and has passed by nothing. *)
LEMMA CallKeeps ==
  ASSUME ReadInv, NEW offset \in Offsets,
         \/ Listen(offset)
         \/ \E m \in WaitModes : WaitFor(m, offset)
  PROVE  ReadInv'
<1> USE DEF ReadInv
<1>1. /\ mode = "idle" /\ offset \in 0..Len(file) /\ Len(file) \in Nat
      /\ mode' \in {"listen"} \cup WaitModes /\ since' = offset
      /\ UNCHANGED <<file, match, outcome, sent, halves, context>>
  BY DEF Listen, WaitFor, waitVars, listenVars, Positions, TypeOK
<1>2. Caller \in Scanners
  BY ReaderAssumption DEF Caller
<1>3. /\ \A t \in Scanners :
           /\ scanner[t] = Off /\ halves[t] = {} /\ sent[t] = <<>>
      /\ \A k \in DOMAIN Patterns : match[k] = {}
      /\ outcome = "none" /\ context = "out" /\ Missing # {}
  BY <1>1 DEF Users, Tracks, Off, WaitModes
<1> DEFINE begun == [Off EXCEPT !.alive = TRUE, !.scan = offset]
<1>a. begun = [Off EXCEPT !.alive = TRUE, !.scan = offset] /\ offset \in Nat
  BY <1>1
<1> HIDE DEF begun
<1>4. /\ Off \in ScannerType /\ begun \in ScannerType
      /\ ~Off.alive /\ ~Off.open /\ Off.at = 0 /\ Off.scan = 0 /\ Off.half = {}
      /\ begun.scan = offset /\ ~begun.open /\ begun.at = 0 /\ begun.half = {}
  BY <1>a, StartedType
<1>5. /\ \A t \in Scanners : scanner'[t] = Off \/ scanner'[t] = begun
      /\ scanner' \in [Scanners -> ScannerType]
      /\ mode' \in WaitModes =>
           /\ scanner'[Caller] = begun
           /\ \A t \in Scanners \ {Caller} : scanner'[t] = Off
      /\ mode' = "listen" => \A t \in Scanners : scanner'[t] = Off
  <2>1. scanner \in [Scanners -> ScannerType]
    BY DEF TypeOK
  <2>2. CASE Listen(offset)
    <3>1. mode' = "listen" /\ scanner' = scanner
      BY <2>2 DEF Listen
    <3> QED
      BY <1>3, <2>1, <3>1 DEF WaitModes
  <2>3. CASE \E m \in WaitModes : WaitFor(m, offset)
    <3>1. /\ mode' \in WaitModes
          /\ scanner' = [scanner EXCEPT ![Caller] = begun]
      BY <2>3 DEF WaitFor, begun
    <3> QED
      BY <1>2, <1>3, <1>4, <2>1, <3>1 DEF WaitModes
  <2> QED
    BY <2>2, <2>3
<1>6. TypeOK' /\ Shape'
  BY <1>1, <1>5 DEF TypeOK, Shape
<1>7. Tracks'
  BY <1>1, <1>3, <1>4, <1>5 DEF Tracks
<1>8. Missing' = Missing
  BY <1>1 DEF Missing
<1>9. Users'
  BY <1>1, <1>3, <1>4, <1>5, <1>8 DEF Users, WaitModes
<1>10. Dispatched'
  BY <1>1, <1>3, <1>4, <1>5 DEF Dispatched, ToSet, WaitModes
<1>11. Found'
  BY <1>1, <1>3 DEF Found
<1>12. \A k \in DOMAIN Patterns : k \in Missing
  BY <1>3 DEF Missing
<1>13. Looked'
  <2> SUFFICES ASSUME mode' \in WaitModes, NEW k \in DOMAIN Patterns
               PROVE  /\ From(k)' <= scanner'[Caller].scan
                      /\ NoneBefore(k, scanner[Caller].scan)'
    BY <1>8, <1>12 DEF Looked, Missing
  <2>1. From(k)' = offset
    <3>1. k > 1 => match'[k - 1] = {}
      <4>1. k > 1 => k - 1 \in DOMAIN Patterns
        BY ReaderAssumption
      <4> QED
        BY <1>1, <1>3, <4>1
    <3> QED
      BY <1>1, <3>1 DEF From
  <2>2. scanner'[Caller].scan = offset
    BY <1>4, <1>5
  <2>3. \A j \in Begun(Patterns[k])' : j \in Nat
    BY <1>1 DEF Begun
  <2> QED
    BY <1>1, <2>1, <2>2, <2>3 DEF NoneBefore
<1> QED
  BY <1>6, <1>7, <1>9, <1>10, <1>11, <1>13

(* __enter__: the thread starts with a record of its own. *)
LEMMA EnterKeeps ==
  ASSUME ReadInv, Enter
  PROVE  ReadInv'
<1> USE DEF ReadInv
<1>1. PICK t \in Scanners :
        /\ mode = "listen" /\ ~scanner[t].alive /\ sent[t] = <<>>
        /\ scanner[t].at = 0
        /\ scanner' = [scanner EXCEPT ![t] = [Off EXCEPT !.alive = TRUE,
                                                         !.scan = since]]
        /\ UNCHANGED <<file, mode, since, match, outcome, sent, halves>>
  BY DEF Enter, waitVars
<1>2. /\ scanner \in [Scanners -> ScannerType]
      /\ since \in 0..Len(file) /\ Len(file) \in Nat
      /\ halves[t] = {}
  BY <1>1 DEF TypeOK, Tracks
<1> DEFINE begun == [Off EXCEPT !.alive = TRUE, !.scan = since]
<1>a. begun = [Off EXCEPT !.alive = TRUE, !.scan = since] /\ since \in Nat
  BY <1>2
<1> HIDE DEF begun
<1>3. /\ begun \in ScannerType
      /\ begun.scan = since /\ ~begun.open /\ begun.at = 0 /\ begun.half = {}
  BY <1>a, StartedType
<1>4. /\ scanner' \in [Scanners -> ScannerType]
      /\ scanner'[t] = begun
      /\ \A u \in Scanners \ {t} : scanner'[u] = scanner[u]
  <2>1. scanner' = [scanner EXCEPT ![t] = begun]
    BY <1>1 DEF begun
  <2> QED
    BY <1>2, <1>3, <2>1
<1>5. TypeOK' /\ Shape'
  BY <1>1, <1>4 DEF TypeOK, Shape
<1>6. Tracks'
  <2> SUFFICES ASSUME NEW u \in Scanners
               PROVE  LET s == scanner'[u] IN
                      /\ s.at <= Len(file) /\ s.scan <= Len(file)
                      /\ s.alive => since <= s.scan
                      /\ s.open => s.alive /\ s.scan <= s.at
                      /\ \A i \in halves[u] : i < s.scan
                      /\ \A i \in s.half :
                           i < s.at /\ (i < s.scan => i \in halves[u])
                      /\ s.at = 0 => halves[u] = {}
                      /\ s.open => \A p \in Wanteds : \A i \in Begun(p) :
                                     s.scan <= i /\ i < s.at => i \in s.half
    BY <1>1 DEF Tracks, Begun
  <2>1. CASE u # t
    BY <1>4, <2>1 DEF Tracks
  <2>2. CASE u = t
    BY <1>2, <1>3, <1>4, <2>2
  <2> QED
    BY <2>1, <2>2
<1>7. Missing' = Missing
  BY <1>1 DEF Missing
<1>8. Users'
  BY <1>1, <1>4, <1>7 DEF Users, WaitModes
<1>9. Dispatched'
  <2> SUFFICES ASSUME NEW u \in Scanners
               PROVE  /\ \A i, j \in DOMAIN sent[u] :
                           i < j => sent[u][i] < sent[u][j]
                      /\ ToSet(sent[u]) \subseteq Lines
                      /\ scanner'[u].alive =>
                           ToSet(sent[u]) =
                             {i \in Begun(Patterns[1]) :
                                since <= i /\ i < scanner'[u].scan}
                               \ halves[u]
    BY <1>1 DEF Dispatched, Lines, Begun
  <2>1. CASE u # t
    BY <1>1, <1>4, <2>1 DEF Dispatched
  <2>2. CASE u = t
    <3>1. \A i \in Begun(Patterns[1]) : i \in Nat
      BY <1>2 DEF Begun
    <3>2. ToSet(sent[u]) = {}
      BY <1>1, <2>2 DEF ToSet
    <3> QED
      BY <1>1, <1>2, <1>3, <1>4, <2>2, <3>1, <3>2
  <2> QED
    BY <2>1, <2>2
<1>10. Found'
  BY <1>1 DEF Found, Users, WaitModes
<1>11. Looked'
  BY <1>1 DEF Looked, WaitModes
<1> QED
  BY <1>5, <1>6, <1>8, <1>9, <1>10, <1>11

(* Steps of the context and of the user that touch no thread. *)
LEMMA OtherKeeps ==
  ASSUME ReadInv,
         Expire \/ Exit \/ Exited \/ JoinTimesOut \/ GetNextEvent
           \/ UNCHANGED vars
  PROVE  ReadInv'
<1>1. /\ UNCHANGED <<file, mode, since, scanner, match, outcome, sent, halves>>
      /\ context' = context \/ context \in {"in", "exit"}
  BY DEF Expire, Exit, Exited, JoinTimesOut, GetNextEvent, waitVars,
         listenVars, vars
<1>2. Tracks'
  BY <1>1 DEF ReadInv, Tracks, Begun
<1>3. Users'
  <2>1. Missing' = Missing
    BY <1>1 DEF Missing
  <2> QED
    BY <1>1, <2>1 DEF ReadInv, Users
<1> QED
  BY <1>1, <1>2, <1>3, ScansStay DEF ReadInv, TypeOK

(* A timeout is no find. *)
LEMMA TimeoutKeeps ==
  ASSUME ReadInv, NEW t \in Scanners, WaitTimesOut(t)
  PROVE  ReadInv'
<1>1. /\ UNCHANGED <<file, mode, since, scanner, match, sent, halves, context>>
      /\ outcome' = "timeout" /\ outcome = "none" /\ mode \in WaitModes
  BY DEF WaitTimesOut, listenVars, WaitModes
<1>2. Tracks'
  BY <1>1 DEF ReadInv, Tracks, Begun
<1>3. Users'
  <2>1. Missing' = Missing
    BY <1>1 DEF Missing
  <2> QED
    BY <1>1, <2>1 DEF ReadInv, Users
<1> QED
  BY <1>1, <1>2, <1>3, ScansStay DEF ReadInv, TypeOK

(* A line that was passed by for good is a line for no pattern, the line just  *)
(* read, or one of which the head was read alone.                            *)
LEMMA PassKeeps ==
  ASSUME ReadInv, NEW t \in Scanners, Reading(t), NEW line,
         line = LineAt(scanner[t].at), NEW goOn \in BOOLEAN,
         Pass(t, line, goOn), UNCHANGED <<file, mode, since>>
  PROVE  /\ scanner' \in [Scanners -> ScannerType]
         /\ halves' \in [Scanners -> SUBSET Nat]
         /\ Tracks'
         /\ \A u \in Scanners \ {t} :
              scanner'[u] = scanner[u] /\ halves'[u] = halves[u]
         /\ scanner[t].alive /\ scanner'[t].alive
         /\ scanner[t].scan <= scanner'[t].scan
         /\ Parsed(line) => /\ scanner[t].at < scanner'[t].scan
                            /\ scanner'[t].scan = line.next
         /\ \A i \in halves[t] : i \in halves'[t]
         /\ \A i \in halves'[t] : i \in halves[t] \/ scanner[t].scan <= i
         /\ line.kind \in Wanteds => scanner[t].at \notin halves'[t]
         /\ \A p \in Wanteds : \A i \in Begun(p) :
              scanner[t].scan <= i /\ i < scanner'[t].scan =>
                \/ i \in halves'[t]
                \/ i = scanner[t].at /\ line.kind = p
         /\ line.kind \in Wanteds => \A p \in Wanteds : \A i \in Begun(p) :
              scanner[t].scan <= i /\ i < scanner[t].at => i \in halves'[t]
<1> USE DEF ReadInv
<1> DEFINE at == scanner[t].at
           scan == scanner[t].scan
           old == scanner[t].half
           half == old \cup (IF line.half THEN {line.start} ELSE {})
<1>1. /\ scanner \in [Scanners -> ScannerType]
      /\ halves \in [Scanners -> SUBSET Nat] /\ Len(file) \in Nat
  BY DEF TypeOK
<1>2. /\ at \in Nat /\ scan \in Nat /\ old \in SUBSET Nat
      /\ scanner[t].open \in BOOLEAN /\ scanner[t].alive \in BOOLEAN
  BY <1>1 DEF ScannerType
<1>3. /\ at < Len(file) /\ scanner[t].open
      /\ scanner[t].alive /\ scan <= at /\ since <= scan
      /\ \A i \in halves[t] : i < scan
      /\ \A i \in old : i < at /\ (i < scan => i \in halves[t])
      /\ \A p \in Wanteds : \A i \in Begun(p) :
           scan <= i /\ i < at => i \in old
  BY DEF Reading, Tracks
<1>4. /\ line.start = at
      /\ line.next \in Nat /\ at < line.next /\ line.next <= Len(file)
      /\ line.half \in BOOLEAN
      /\ line.kind \in Wanteds => Parsed(line) /\ ~line.half
      /\ \A p \in Wanteds : \A i \in Begun(p) :
           at <= i /\ i < line.next => i = at /\ (line.half \/ line.kind = p)
  BY <1>2, <1>3, LineFacts
<1>5. /\ half \in SUBSET Nat
      /\ \A i \in old : i \in half
      /\ \A i \in half : i \in old \/ (i = at /\ line.half)
      /\ line.half => at \in half
  BY <1>2, <1>4
<1>6. /\ scanner' = [scanner EXCEPT ![t].at = line.next,
                                    ![t].scan = Scan(t, line),
                                    ![t].open = goOn, ![t].half = half]
      /\ halves' = IF Parsed(line) THEN [halves EXCEPT ![t] = @ \cup half]
                                   ELSE halves
  BY DEF Pass
<1>7. Scan(t, line) = IF Parsed(line) THEN line.next ELSE scan
  BY DEF Scan
<1> DEFINE to == Scan(t, line)
<1>8. /\ to \in Nat
      /\ Parsed(line) => to = line.next
      /\ ~Parsed(line) => to = scan
      /\ Parsed(line) \in BOOLEAN
  BY <1>2, <1>4, <1>7 DEF Parsed
<1> HIDE DEF half, to
<1>9. /\ scanner' \in [Scanners -> ScannerType]
      /\ scanner'[t].at = line.next /\ scanner'[t].scan = to
      /\ scanner'[t].open = goOn /\ scanner'[t].half = half
      /\ scanner'[t].alive
      /\ \A u \in Scanners \ {t} : scanner'[u] = scanner[u]
  <2> DEFINE s == [scanner[t] EXCEPT !.at = line.next, !.scan = to,
                                     !.open = goOn, !.half = half]
  <2>1. scanner' = [scanner EXCEPT ![t] = s]
    BY <1>1, <1>6 DEF to
  <2>2. scanner[t] \in ScannerType
    BY <1>1
  <2>3. /\ s \in ScannerType
        /\ s.at = line.next /\ s.scan = to /\ s.open = goOn /\ s.half = half
        /\ s.alive = scanner[t].alive
    BY <1>4, <1>5, <1>8, <2>2 DEF ScannerType
  <2> HIDE DEF s
  <2> QED
    BY <1>1, <1>3, <2>1, <2>3
<1>10. /\ halves' \in [Scanners -> SUBSET Nat]
       /\ Parsed(line) => halves'[t] = halves[t] \cup half
       /\ ~Parsed(line) => halves' = halves
       /\ \A u \in Scanners \ {t} : halves'[u] = halves[u]
  BY <1>1, <1>5, <1>6
<1>11. /\ \A i \in halves[t] : i \in halves'[t]
       /\ \A i \in halves'[t] : i \in halves[t] \/ scan <= i
       /\ scan <= to /\ (Parsed(line) => at < to /\ to = line.next)
  BY <1>1, <1>2, <1>3, <1>4, <1>5, <1>8, <1>10
<1>12. line.kind \in Wanteds => at \notin halves'[t]
  BY <1>1, <1>2, <1>3, <1>4, <1>5, <1>10
<1>13. \A p : \A i \in Begun(p) : i \in Nat
  BY <1>1 DEF Begun
<1>14. ASSUME NEW p \in Wanteds, NEW i \in Begun(p), scan <= i, i < to
       PROVE  i \in halves'[t] \/ (i = at /\ line.kind = p)
  <2>1. Parsed(line) /\ to = line.next
    BY <1>2, <1>8, <1>13, <1>14
  <2>2. CASE i < at
    BY <1>3, <1>5, <1>10, <1>14, <2>1, <2>2
  <2>3. CASE at <= i
    BY <1>4, <1>5, <1>10, <1>14, <2>1, <2>3
  <2> QED
    BY <1>2, <1>13, <2>2, <2>3
<1>15. ASSUME line.kind \in Wanteds, NEW p \in Wanteds, NEW i \in Begun(p),
              scan <= i, i < at
       PROVE  i \in halves'[t]
  BY <1>3, <1>4, <1>5, <1>10, <1>15
<1>16. Tracks'
  <2> SUFFICES ASSUME NEW u \in Scanners
               PROVE  LET s == scanner'[u] IN
                      /\ s.at <= Len(file) /\ s.scan <= Len(file)
                      /\ s.alive => since <= s.scan
                      /\ s.open => s.alive /\ s.scan <= s.at
                      /\ \A i \in halves'[u] : i < s.scan
                      /\ \A i \in s.half :
                           i < s.at /\ (i < s.scan => i \in halves'[u])
                      /\ s.at = 0 => halves'[u] = {}
                      /\ s.open => \A p \in Wanteds : \A i \in Begun(p) :
                                     s.scan <= i /\ i < s.at => i \in s.half
    BY DEF Tracks, Begun
  <2>1. CASE u # t
    BY <1>9, <1>10, <2>1 DEF Tracks
  <2>2. CASE u = t
    <3>1. /\ line.next <= Len(file) /\ to <= Len(file) /\ since <= to
          /\ to <= line.next /\ line.next # 0
      BY <1>1, <1>2, <1>3, <1>4, <1>8 DEF TypeOK
    <3>2. \A i \in halves'[t] : i < to
      BY <1>1, <1>2, <1>3, <1>4, <1>5, <1>8, <1>10
    <3>3. \A i \in half : i < line.next /\ (i < to => i \in halves'[t])
      <4> SUFFICES ASSUME NEW i \in half
                   PROVE  i < line.next /\ (i < to => i \in halves'[t])
        OBVIOUS
      <4>1. i \in Nat /\ (i \in old \/ i = at)
        BY <1>5
      <4>2. i < line.next
        BY <1>2, <1>3, <1>4, <4>1
      <4>3. CASE Parsed(line)
        BY <1>10, <4>2, <4>3
      <4>4. CASE ~Parsed(line)
        BY <1>2, <1>3, <1>8, <1>10, <4>1, <4>2, <4>4
      <4> QED
        BY <1>8, <4>2, <4>3, <4>4
    <3>4. ASSUME NEW p \in Wanteds, NEW i \in Begun(p),
                 to <= i, i < line.next
          PROVE  i \in half
      <4>1. ~Parsed(line) /\ to = scan
        BY <1>4, <1>8, <1>13, <3>4
      <4>2. line.kind # p
        BY <1>4, <4>1
      <4>3. CASE i < at
        BY <1>3, <1>5, <3>4, <4>1, <4>3
      <4>4. CASE at <= i
        BY <1>4, <1>5, <3>4, <4>2, <4>4
      <4> QED
        BY <1>2, <1>13, <4>3, <4>4
    <3> QED
      BY <1>9, <2>2, <3>1, <3>2, <3>3, <3>4
  <2> QED
    BY <2>1, <2>2
<1> QED
  BY <1>3, <1>9, <1>10, <1>11, <1>12, <1>14, <1>15, <1>16

(* A sequence that grows by a number above all in it is increasing still. *)
LEMMA AppendIncreasing ==
  ASSUME NEW s \in Seq(Nat), NEW x \in Nat,
         \A i, j \in DOMAIN s : i < j => s[i] < s[j],
         \A y \in ToSet(s) : y < x
  PROVE  /\ Append(s, x) \in Seq(Nat)
         /\ ToSet(Append(s, x)) = ToSet(s) \cup {x}
         /\ \A i, j \in DOMAIN Append(s, x) :
              i < j => Append(s, x)[i] < Append(s, x)[j]
<1> DEFINE u == Append(s, x)
<1>1. /\ u \in Seq(Nat) /\ Len(u) = Len(s) + 1 /\ Len(s) \in Nat
      /\ DOMAIN s = 1..Len(s) /\ DOMAIN u = 1..Len(s) + 1
      /\ \A i \in 1..Len(s) : u[i] = s[i]
      /\ u[Len(s) + 1] = x
  OBVIOUS
<1> HIDE DEF u
<1>2. \A i \in DOMAIN s : s[i] < x
  BY DEF ToSet
<1>3. ToSet(u) = ToSet(s) \cup {x}
  BY <1>1 DEF ToSet
<1>4. ASSUME NEW i \in DOMAIN u, NEW j \in DOMAIN u, i < j
      PROVE  u[i] < u[j]
  <2>1. i \in DOMAIN s
    BY <1>1, <1>4
  <2>2. CASE j \in DOMAIN s
    BY <1>1, <1>4, <2>1, <2>2
  <2>3. CASE j = Len(s) + 1
    BY <1>1, <1>2, <2>1, <2>3
  <2> QED
    BY <1>1, <2>2, <2>3
<1> QED
  BY <1>1, <1>3, <1>4 DEF u

(* _dispatch: the line just read is the only one of those passed by that was  *)
(* not dispatched, if it is for the pattern.                                 *)
LEMMA ListenKeeps ==
  ASSUME ReadInv, NEW t \in Scanners, ListenReads(t)
  PROVE  ReadInv'
<1> USE DEF ReadInv
<1> DEFINE line == LineAt(scanner[t].at)
           at == scanner[t].at
           p == Patterns[1]
           goOn == ~(Parsed(line) /\ stop)
<1>1. /\ mode = "listen" /\ Reading(t) /\ goOn \in BOOLEAN
      /\ Pass(t, line, goOn)
      /\ UNCHANGED <<file, mode, since, match, outcome>>
  BY DEF ListenReads, waitVars
<1>2. \/ line.kind = p /\ sent' = [sent EXCEPT ![t] = Append(@, line.start)]
      \/ line.kind # p /\ sent' = sent
  BY DEF ListenReads
<1>3. /\ sent \in [Scanners -> Seq(Nat)] /\ scanner \in [Scanners -> ScannerType]
      /\ Len(file) \in Nat /\ since \in 0..Len(file)
  BY DEF TypeOK
<1>4. at \in Nat /\ at < Len(file) /\ scanner[t].scan \in Nat
  BY <1>1, <1>3 DEF Reading, Tracks, ScannerType
<1>5. p \in Wanteds /\ 1 \in DOMAIN Patterns
  BY ReaderAssumption DEF Wanteds
<1>6. /\ line.start = at
      /\ line.kind \in Wanteds => at \in Matching(line.kind) /\ Parsed(line)
      /\ line.next \in Nat /\ at < line.next
  BY <1>4, LineFacts
<1>a. line = LineAt(scanner[t].at)
  OBVIOUS
<1> HIDE DEF line, goOn, p
<1>7. /\ scanner' \in [Scanners -> ScannerType]
      /\ halves' \in [Scanners -> SUBSET Nat]
      /\ Tracks'
      /\ \A u \in Scanners \ {t} :
           scanner'[u] = scanner[u] /\ halves'[u] = halves[u]
      /\ scanner[t].alive /\ scanner'[t].alive
      /\ scanner[t].scan <= scanner'[t].scan
      /\ Parsed(line) => at < scanner'[t].scan
      /\ \A i \in halves[t] : i \in halves'[t]
      /\ \A i \in halves'[t] : i \in halves[t] \/ scanner[t].scan <= i
      /\ line.kind \in Wanteds => at \notin halves'[t]
      /\ \A i \in Begun(p) :
           scanner[t].scan <= i /\ i < scanner'[t].scan =>
             i \in halves'[t] \/ (i = at /\ line.kind = p)
  BY <1>1, <1>5, <1>a, PassKeeps
<1>8. scanner[t].open /\ scanner[t].scan <= at /\ since <= scanner[t].scan
  BY <1>1 DEF Reading, Tracks
<1>9. scanner'[t].scan \in Nat
  BY <1>7 DEF ScannerType
<1>10. /\ \A i, j \in DOMAIN sent[t] : i < j => sent[t][i] < sent[t][j]
       /\ ToSet(sent[t]) \subseteq Lines
       /\ ToSet(sent[t]) =
            {i \in Begun(p) : since <= i /\ i < scanner[t].scan} \ halves[t]
  BY <1>1, <1>7 DEF Dispatched, p
<1>11. \A i \in Begun(p) : i \in Nat
  BY <1>3 DEF Begun
<1> DEFINE due == {i \in Begun(p) : since <= i /\ i < scanner'[t].scan}
                    \ halves'[t]
<1>12. line.kind = p => at \in Begun(p) /\ at \in Lines
  BY <1>5, <1>6 DEF Matching, Begun, Lines
<1>13. due = ToSet(sent[t]) \cup (IF line.kind = p THEN {at} ELSE {})
  <2>1. ASSUME NEW i \in due
        PROVE  i \in ToSet(sent[t]) \/ (line.kind = p /\ i = at)
    BY <1>4, <1>7, <1>9, <1>10, <1>11, <2>1
  <2>2. ASSUME NEW i \in ToSet(sent[t]) PROVE i \in due
    BY <1>4, <1>7, <1>9, <1>10, <1>11, <2>2
  <2>3. line.kind = p => at \in due
    BY <1>3, <1>4, <1>5, <1>6, <1>7, <1>8, <1>12
  <2> QED
    BY <2>1, <2>2, <2>3
<1> HIDE DEF due
<1>14. /\ sent' \in [Scanners -> Seq(Nat)]
       /\ \A u \in Scanners \ {t} : sent'[u] = sent[u]
       /\ ToSet(sent'[t]) = due
       /\ \A i, j \in DOMAIN sent'[t] : i < j => sent'[t][i] < sent'[t][j]
  <2>1. CASE line.kind = p
    <3>1. \A i \in ToSet(sent[t]) : i < at
      BY <1>4, <1>8, <1>10, <1>11
    <3>2. sent[t] \in Seq(Nat)
      BY <1>3
    <3>3. /\ Append(sent[t], at) \in Seq(Nat)
          /\ ToSet(Append(sent[t], at)) = ToSet(sent[t]) \cup {at}
          /\ \A i, j \in DOMAIN Append(sent[t], at) :
               i < j => Append(sent[t], at)[i] < Append(sent[t], at)[j]
      BY <1>4, <1>10, <3>1, <3>2, AppendIncreasing
    <3>4. sent' = [sent EXCEPT ![t] = Append(sent[t], at)]
      BY <1>2, <1>6, <2>1
    <3> DEFINE more == Append(sent[t], at)
    <3> HIDE DEF more
    <3>5. /\ sent' \in [Scanners -> Seq(Nat)] /\ sent'[t] = more
          /\ \A u \in Scanners \ {t} : sent'[u] = sent[u]
      BY <1>3, <3>3, <3>4 DEF more
    <3> QED
      BY <1>13, <2>1, <3>3, <3>5 DEF more
  <2>2. CASE line.kind # p
    BY <1>2, <1>3, <1>10, <1>13, <2>2
  <2> QED
    BY <2>1, <2>2
<1>15. TypeOK' /\ Shape'
  BY <1>1, <1>7, <1>14 DEF TypeOK, Shape
<1>16. Users'
  <2>1. Missing' = Missing
    BY <1>1 DEF Missing
  <2> QED
    BY <1>1, <2>1 DEF Users, WaitModes
<1>17. Dispatched'
  <2> SUFFICES ASSUME NEW u \in Scanners
               PROVE  /\ \A i, j \in DOMAIN sent'[u] :
                           i < j => sent'[u][i] < sent'[u][j]
                      /\ ToSet(sent'[u]) \subseteq Lines
                      /\ scanner'[u].alive =>
                           ToSet(sent'[u]) =
                             {i \in Begun(p) :
                                since <= i /\ i < scanner'[u].scan}
                               \ halves'[u]
    BY <1>1 DEF Dispatched, Lines, Begun, p
  <2>1. CASE u # t
    BY <1>1, <1>7, <1>14, <2>1 DEF Dispatched, p
  <2>2. CASE u = t
    <3>1. due \subseteq Lines
      BY <1>10, <1>12, <1>13
    <3> QED
      BY <1>14, <2>2, <3>1 DEF due
  <2> QED
    BY <2>1, <2>2
<1>18. Found'
  BY <1>1 DEF Found, Users, WaitModes
<1>19. Looked'
  BY <1>1 DEF Looked, WaitModes
<1> QED
  BY <1>7, <1>15, <1>16, <1>17, <1>18, <1>19

(* wait_for: a pattern is matched by the first line for it that is not before  *)
(* where it is looked for.                                                   *)
LEMMA WaitKeeps ==
  ASSUME ReadInv, NEW t \in Scanners, WaitReads(t)
  PROVE  ReadInv'
<1> USE DEF ReadInv
<1> DEFINE line == LineAt(scanner[t].at)
           at == scanner[t].at
           scan == scanner[t].scan
           found == Wanted(line)
           goOn == mode = "any_order" \/ found = {}
<1>1. /\ mode \in WaitModes /\ outcome = "none" /\ Reading(t)
      /\ goOn \in BOOLEAN /\ Pass(t, line, goOn)
      /\ match' = [k \in DOMAIN Patterns |->
                     IF k \in found THEN {line.start} ELSE match[k]]
      /\ outcome' = IF Missing = found THEN "found" ELSE "none"
      /\ UNCHANGED <<file, mode, since, sent, context>>
  BY DEF WaitReads, listenVars, WaitModes
<1>2. /\ scanner \in [Scanners -> ScannerType] /\ Len(file) \in Nat
      /\ match \in [DOMAIN Patterns -> SUBSET Nat]
  BY DEF TypeOK
<1>3. at \in Nat /\ at < Len(file) /\ scan \in Nat
  BY <1>1, <1>2 DEF Reading, Tracks, ScannerType
<1>4. scanner[t].open /\ scanner[t].alive /\ scan <= at
  BY <1>1 DEF Reading, Tracks
<1>5. t = Caller
  BY <1>1, <1>4 DEF Users
<1>6. /\ line.start = at
      /\ line.kind \in Wanteds =>
           /\ at \in Matching(line.kind) /\ Parsed(line)
           /\ line.next = IF file[at + 1].part = "head" THEN at + 2 ELSE at + 1
      /\ line.next \in Nat /\ line.next <= Len(file)
  BY <1>3, LineFacts
<1>7. \A k \in DOMAIN Patterns : Patterns[k] \in Wanteds /\ k \in Nat
  BY ReaderAssumption DEF Wanteds
<1>8. Missing # {} /\ Missing \subseteq DOMAIN Patterns
  BY <1>1 DEF Users, Missing
<1> DEFINE m == NextMissing
<1>9. m \in Missing /\ \A j \in Missing : m <= j
  BY <1>8, NextMissingFirst, ReaderAssumption
<1> HIDE DEF m
<1>10. /\ found \subseteq Missing
       /\ \A k \in found : line.kind = Patterns[k]
       /\ mode = "any_order" =>
            \A k \in Missing : line.kind = Patterns[k] => k \in found
       /\ mode = "in_order" => found \subseteq {m}
       /\ mode = "in_order" /\ line.kind = Patterns[m] => m \in found
  BY <1>1, <1>9 DEF Wanted, m, WaitModes
<1>a. line = LineAt(scanner[t].at)
  OBVIOUS
<1> HIDE DEF line, goOn, found
<1>11. /\ scanner' \in [Scanners -> ScannerType]
       /\ halves' \in [Scanners -> SUBSET Nat]
       /\ Tracks'
       /\ \A u \in Scanners \ {t} : scanner'[u] = scanner[u]
       /\ scan <= scanner'[t].scan
       /\ Parsed(line) =>
            at < scanner'[t].scan /\ scanner'[t].scan = line.next
       /\ \A i \in halves[t] : i \in halves'[t]
       /\ \A p \in Wanteds : \A i \in Begun(p) :
            scan <= i /\ i < scanner'[t].scan =>
              i \in halves'[t] \/ (i = at /\ line.kind = p)
       /\ line.kind \in Wanteds => \A p \in Wanteds : \A i \in Begun(p) :
            scan <= i /\ i < at => i \in halves'[t]
  BY <1>1, <1>a, PassKeeps
<1>12. PICK to \in Nat : to = scanner'[t].scan
  BY <1>11 DEF ScannerType
<1>13. \A p : \A i \in Begun(p) : i \in Nat
  BY <1>2 DEF Begun
<1>14. /\ match' \in [DOMAIN Patterns -> SUBSET Nat]
       /\ \A k \in found : match'[k] = {at}
       /\ \A k \in DOMAIN Patterns \ found : match'[k] = match[k]
       /\ Missing' = Missing \ found
  <2>1. \A k \in DOMAIN Patterns :
          match'[k] = IF k \in found THEN {at} ELSE match[k]
    BY <1>1, <1>6
  <2>2. match' \in [DOMAIN Patterns -> SUBSET Nat]
    BY <1>1, <1>2, <1>3, <1>6
  <2> QED
    BY <1>8, <1>10, <2>1, <2>2 DEF Missing
<1>15. ASSUME NEW k \in DOMAIN Patterns, mode = "any_order" \/ k - 1 \notin found
       PROVE  From(k)' = From(k)
  <2>1. CASE mode = "any_order"
    BY <1>1, <2>1 DEF From
  <2>2. CASE k - 1 \notin found
    <3>1. k > 1 => match'[k - 1] = match[k - 1]
      <4>1. k > 1 => k - 1 \in DOMAIN Patterns
        BY ReaderAssumption
      <4> QED
        BY <1>14, <2>2, <4>1
    <3> QED
      BY <1>1, <3>1, FromStays
  <2> QED
    BY <1>15, <2>1, <2>2
<1>16. ASSUME NEW k \in DOMAIN Patterns, mode = "in_order", k - 1 \in found
       PROVE  From(k)' = to
  <2>1. /\ line.kind = Patterns[k - 1] /\ k - 1 \in DOMAIN Patterns
        /\ k > 1 /\ match'[k - 1] = {at}
    <3>1. k - 1 \in DOMAIN Patterns /\ line.kind = Patterns[k - 1]
      BY <1>8, <1>10, <1>16
    <3> QED
      BY <1>7, <1>14, <1>16, <3>1, ReaderAssumption
  <2>2. to = line.next /\ to = IF file[at + 1].part = "head" THEN at + 2 ELSE at + 1
    BY <1>6, <1>7, <1>11, <1>12, <2>1
  <2>3. to \in Offsets
    BY <1>6, <1>12, <2>2, ReaderAssumption DEF Offsets, TypeOK
  <2>4. From(k)' = CHOOSE n \in Offsets : \E j \in match'[k - 1] :
                     n = IF file'[j + 1].part = "head" THEN j + 2 ELSE j + 1
    BY <1>1, <1>16, <2>1 DEF From
  <2>5. \A n : (\E j \in match'[k - 1] :
                  n = IF file'[j + 1].part = "head" THEN j + 2 ELSE j + 1)
               <=> n = to
    BY <1>1, <2>1, <2>2
  <2> QED
    BY <2>3, <2>4, <2>5
<1>17. ASSUME NEW k \in DOMAIN Patterns, NEW offset, NoneBefore(k, offset),
              From(k)' = From(k)
       PROVE  NoneBefore(k, offset)'
  BY <1>1, <1>5, <1>11, <1>17 DEF NoneBefore, Begun
<1>18. ASSUME NEW k \in Missing, mode = "any_order" \/ k = m
       PROVE  /\ From(k) <= scan
              /\ \A j \in Begun(Patterns[k]) :
                   From(k) <= j /\ j < scan => j \in halves[t]
  BY <1>1, <1>5, <1>9, <1>18 DEF Looked, NoneBefore
<1>19. TypeOK' /\ Shape'
  BY <1>1, <1>11, <1>14 DEF TypeOK, Shape
<1>20. Users'
  <2>1. outcome' # "found" => Missing' # {}
    BY <1>1, <1>10, <1>14
  <2>2. \A u \in Scanners \ {Caller} : scanner'[u] = scanner[u]
    BY <1>5, <1>11
  <2> QED
    BY <1>1, <2>1, <2>2 DEF Users, WaitModes
<1>21. Dispatched'
  <2>1. mode # "listen"
    BY <1>1 DEF WaitModes
  <2> QED
    BY <1>1, <2>1 DEF Dispatched, Lines
<1>22. \A p : Matching(p)' = Matching(p)
  BY <1>1 DEF Matching, Lines
<1>23. Found'
  <2> SUFFICES ASSUME NEW k \in DOMAIN Patterns, NEW i \in match'[k]
               PROVE  /\ i \in Matching(Patterns[k]) /\ From(k)' <= i
                      /\ i < to
                      /\ NoneBefore(k, i)'
                      /\ match'[k] = {i}
    BY <1>5, <1>12, <1>22 DEF Found
  <2>1. CASE k \in found
    <3>1. i = at /\ match'[k] = {i}
      BY <1>14, <2>1
    <3>2. /\ line.kind = Patterns[k] /\ k \in Missing
          /\ mode = "any_order" \/ k = m
      BY <1>1, <1>10, <2>1 DEF WaitModes
    <3>3. mode = "any_order" \/ k - 1 \notin found
      BY <1>1, <1>7, <1>10, <3>2 DEF WaitModes
    <3>4. From(k)' = From(k)
      BY <1>15, <3>3
    <3>5. /\ From(k) <= scan
          /\ \A j \in Begun(Patterns[k]) :
               From(k) <= j /\ j < scan => j \in halves[t]
      BY <1>18, <3>2
    <3>6. From(k) \in Nat
      BY <1>2, FromType
    <3>7. at \in Matching(Patterns[k]) /\ Parsed(line) /\ at < to
      BY <1>6, <1>7, <1>11, <1>12, <3>2
    <3>8. \A j \in Begun(Patterns[k]) :
            From(k) <= j /\ j < at => j \in halves'[t]
      <4> SUFFICES ASSUME NEW j \in Begun(Patterns[k]), From(k) <= j, j < at
                   PROVE  j \in halves'[t]
        OBVIOUS
      <4>1. CASE j < scan
        BY <1>11, <3>5, <4>1
      <4>2. CASE scan <= j
        BY <1>7, <1>11, <3>2, <4>2
      <4> QED
        BY <1>3, <1>13, <4>1, <4>2
    <3>9. NoneBefore(k, i)'
      BY <1>1, <1>5, <3>1, <3>4, <3>8 DEF NoneBefore, Begun
    <3> QED
      BY <1>3, <1>4, <3>1, <3>4, <3>5, <3>6, <3>7, <3>9
  <2>2. CASE k \notin found
    <3>1. i \in match[k] /\ match'[k] = match[k]
      BY <1>14, <2>2
    <3>2. /\ i \in Matching(Patterns[k]) /\ From(k) <= i /\ i < scan
          /\ NoneBefore(k, i) /\ match[k] = {i}
      BY <1>5, <3>1 DEF Found
    <3>3. mode = "any_order" \/ k - 1 \notin found
      <4> SUFFICES ASSUME mode = "in_order", k - 1 \in found PROVE FALSE
        BY <1>1 DEF WaitModes
      <4>1. k - 1 \in Missing /\ k - 1 \in DOMAIN Patterns
        BY <1>8, <1>10
      <4>2. k \in Missing
        BY <1>1, <1>7, <4>1 DEF Looked
      <4> QED
        BY <3>1, <4>2 DEF Missing
    <3>4. From(k)' = From(k)
      BY <1>15, <3>3
    <3>5. NoneBefore(k, i)'
      BY <1>17, <3>2, <3>4
    <3>6. i < to
      <4>1. i \in Nat
        BY <1>2, <3>1
      <4> QED
        BY <1>3, <1>11, <1>12, <3>2, <4>1
    <3> QED
      BY <3>1, <3>2, <3>4, <3>5, <3>6
  <2> QED
    BY <2>1, <2>2
<1>24. ASSUME NEW k \in Missing', mode = "in_order", NEW j \in DOMAIN Patterns,
              k < j
       PROVE  j \in Missing'
  <2>1. k \in Missing /\ j \in Missing
    BY <1>1, <1>14, <1>24 DEF Looked
  <2>2. j # m
    <3>1. m <= k /\ m \in Nat /\ k \in Nat /\ j \in Nat
      BY <1>7, <1>8, <1>9, <2>1
    <3> QED
      BY <1>24, <3>1
  <2> QED
    BY <1>10, <1>14, <1>24, <2>1, <2>2
<1>25. ASSUME NEW k \in Missing',
              mode = "any_order" \/ (\A j \in Missing' : k <= j)
       PROVE  From(k)' <= to /\ NoneBefore(k, to)'
  <2>1. /\ k \in Missing /\ k \notin found /\ k \in DOMAIN Patterns
        /\ k \in Nat
    BY <1>7, <1>8, <1>14
  <2>2. CASE mode = "in_order" /\ m \in found
    <3>1. m \in Nat /\ m <= k /\ k # m
      BY <1>7, <1>8, <1>9, <2>1, <2>2
    <3>2. m + 1 \in DOMAIN Patterns
      BY <1>8, <1>9, <2>1, <3>1, ReaderAssumption
    <3>3. m + 1 \in Missing'
      <4>1. m < m + 1 /\ m + 1 # m
        BY <3>1
      <4>2. m + 1 \in Missing
        BY <1>1, <1>9, <2>2, <3>2, <4>1 DEF Looked
      <4> QED
        BY <1>10, <1>14, <2>2, <4>1, <4>2
    <3>4. k <= m + 1
      BY <1>25, <2>2, <3>3
    <3>5. k - 1 = m
      BY <2>1, <3>1, <3>4
    <3>6. From(k)' = to
      BY <1>16, <2>1, <2>2, <3>5
    <3> QED
      BY <1>1, <1>12, <1>13, <3>6 DEF NoneBefore, Begun
  <2>3. CASE mode = "any_order" \/ m \notin found
    <3>1. mode = "any_order" \/ (k = m /\ found = {})
      <4> SUFFICES ASSUME mode = "in_order", m \notin found
                   PROVE  k = m /\ found = {}
        BY <1>1, <2>3 DEF WaitModes
      <4>1. found = {} /\ Missing' = Missing
        BY <1>10, <1>14
      <4>2. k <= m /\ m <= k /\ m \in Nat
        BY <1>7, <1>8, <1>9, <1>25, <2>1, <4>1
      <4> QED
        BY <2>1, <4>1, <4>2
    <3>2. From(k)' = From(k)
      BY <1>15, <2>1, <3>1
    <3>3. /\ From(k) <= scan
          /\ \A j \in Begun(Patterns[k]) :
               From(k) <= j /\ j < scan => j \in halves[t]
      BY <1>18, <2>1, <3>1
    <3>4. From(k) \in Nat
      BY <1>2, <2>1, FromType
    <3>5. line.kind # Patterns[k]
      BY <1>1, <1>10, <2>1, <3>1 DEF WaitModes
    <3>6. \A j \in Begun(Patterns[k]) :
            From(k) <= j /\ j < to => j \in halves'[t]
      <4> SUFFICES ASSUME NEW j \in Begun(Patterns[k]), From(k) <= j, j < to
                   PROVE  j \in halves'[t]
        OBVIOUS
      <4>1. CASE j < scan
        BY <1>11, <3>3, <4>1
      <4>2. CASE scan <= j
        BY <1>7, <1>11, <1>12, <2>1, <3>5, <4>2
      <4> QED
        BY <1>3, <1>13, <4>1, <4>2
    <3>7. NoneBefore(k, to)'
      BY <1>1, <1>5, <3>2, <3>6 DEF NoneBefore, Begun
    <3>8. scan <= to
      BY <1>11, <1>12
    <3> QED
      BY <1>3, <1>12, <3>2, <3>3, <3>4, <3>7, <3>8
  <2> QED
    BY <1>1, <2>2, <2>3 DEF WaitModes
<1>26. Looked'
  <2>1. scanner'[Caller].scan = to
    BY <1>5, <1>12
  <2> QED
    BY <1>1, <1>24, <1>25, <2>1 DEF Looked, NoneBefore
<1> QED
  BY <1>11, <1>19, <1>20, <1>21, <1>23, <1>26

-----------------------------------------------------------------------------
(* The reader *)

LEMMA InitReadInv ==
  ASSUME Init
  PROVE  ReadInv
<1>1. /\ file = <<>> /\ mode = "idle" /\ since = 0
      /\ scanner = [t \in Scanners |-> Off]
      /\ outcome = "none" /\ match = [k \in DOMAIN Patterns |-> {}]
      /\ context = "out"
      /\ sent = [t \in Scanners |-> <<>>] /\ halves = [t \in Scanners |-> {}]
  BY DEF Init
<1>2. /\ Off \in ScannerType
      /\ ~Off.alive /\ ~Off.open /\ Off.at = 0 /\ Off.scan = 0 /\ Off.half = {}
  BY StartedType
<1>3. \A t \in Scanners :
        /\ scanner[t] = Off /\ sent[t] = <<>> /\ halves[t] = {}
  BY <1>1
<1>4. \A k \in DOMAIN Patterns : match[k] = {}
  BY <1>1
<1>5. Len(file) = 0 /\ file \in Seq(Pieces)
  BY <1>1
<1>6. TypeOK
  <2>1. <<>> \in Seq(Nat) /\ {} \in SUBSET Nat
    OBVIOUS
  <2> QED
    BY <1>1, <1>2, <1>5, <2>1, ReaderAssumption DEF TypeOK
<1>7. Shape
  BY <1>5 DEF Shape
<1>8. Tracks
  BY <1>2, <1>3, <1>5 DEF Tracks
<1>9. Users
  <2>1. 1 \in DOMAIN Patterns
    BY ReaderAssumption
  <2>2. 1 \in Missing
    BY <1>4, <2>1 DEF Missing
  <2> QED
    BY <1>1, <1>3, <1>4, <2>2 DEF Users, WaitModes
<1>10. Dispatched
  BY <1>1, <1>3 DEF Dispatched, ToSet
<1>11. Found
  BY <1>4 DEF Found
<1>12. Looked
  BY <1>1 DEF Looked, WaitModes
<1> QED
  BY <1>6, <1>7, <1>8, <1>9, <1>10, <1>11, <1>12 DEF ReadInv

(* Every step keeps the invariant. *)
LEMMA NextReadInv ==
  ASSUME ReadInv, [Next]_vars
  PROVE  ReadInv'
<1>1. ASSUME NEW t \in Scanners, ScannerStep(t) PROVE ReadInv'
  BY <1>1, QuietKeeps, TimeoutKeeps, WaitKeeps, ListenKeeps DEF ScannerStep
<1> QED
  BY <1>1, WriteKeeps, CallKeeps, EnterKeeps, OtherKeeps DEF Next, WaitModes

(* ReadInv holds throughout. *)
THEOREM ReadInvariance == Spec => []ReadInv
<1>1. Init => ReadInv
  BY InitReadInv
<1>2. ReadInv /\ [Next]_vars => ReadInv'
  BY NextReadInv
<1> QED
  BY <1>1, <1>2, PTL DEF Spec

(* wait_for: each pattern is matched by the first line for it that its reader  *)
(* did not see in part only, after the previous match when in order; on a     *)
(* timeout the reader passed by no line for the pattern it was looking for.  *)
THEOREM WaitsSoundly == Spec => []WaitSound
<1>1. ASSUME ReadInv PROVE WaitSound
  <2> USE <1>1 DEF ReadInv
  <2>1. \A p : Matching(p) \subseteq Begun(p) /\ Begun(p) \subseteq Nat
    <3>1. Len(file) \in Nat
      BY DEF TypeOK
    <3> QED
      BY <3>1 DEF Matching, Lines, Begun
  <2>2. ASSUME NEW k \in DOMAIN Patterns \ Missing, NEW i \in match[k]
        PROVE  /\ i \in Matching(Patterns[k]) /\ i >= From(k)
               /\ \A j \in Visible(Caller, k) : j >= i
    <3>1. /\ i \in Matching(Patterns[k]) /\ From(k) <= i
          /\ NoneBefore(k, i)
      BY <2>2 DEF Found
    <3>2. From(k) \in Nat /\ i \in Nat
      BY <2>1, <2>2, <3>1, FromType DEF TypeOK
    <3>3. ASSUME NEW j \in Visible(Caller, k) PROVE j >= i
      <4>1. /\ j \in Begun(Patterns[k]) /\ j \in Nat /\ From(k) <= j
            /\ j \notin halves[Caller]
        BY <2>1, <3>2 DEF Visible
      <4> QED
        BY <3>1, <3>2, <4>1 DEF NoneBefore
    <3> QED
      BY <3>1, <3>2, <3>3
  <2>3. ASSUME outcome = "timeout"
        PROVE  /\ Missing # {}
               /\ \A j \in Visible(Caller, NextMissing) :
                    j >= scanner[Caller].scan
    <3> DEFINE m == NextMissing
    <3>1. mode \in WaitModes /\ Missing # {}
      BY <2>3 DEF Users
    <3>2. /\ m \in Missing /\ \A j \in Missing : m <= j
          /\ m \in DOMAIN Patterns
      BY <3>1, NextMissingFirst, ReaderAssumption DEF Missing
    <3> HIDE DEF m
    <3>3. NoneBefore(m, scanner[Caller].scan)
      BY <3>1, <3>2 DEF Looked
    <3>4. From(m) \in Nat /\ scanner[Caller].scan \in Nat
      <4>1. Caller \in Scanners
        BY ReaderAssumption DEF Caller
      <4>2. scanner[Caller] \in ScannerType
        BY <4>1 DEF TypeOK
      <4> QED
        BY <3>2, <4>2, FromType DEF TypeOK, ScannerType
    <3>5. ASSUME NEW j \in Visible(Caller, m) PROVE j >= scanner[Caller].scan
      <4>1. /\ j \in Begun(Patterns[m]) /\ j \in Nat /\ From(m) <= j
            /\ j \notin halves[Caller]
        BY <2>1, <3>4 DEF Visible
      <4> QED
        BY <3>3, <3>4, <4>1 DEF NoneBefore
    <3> QED
      BY <3>1, <3>5 DEF m
  <2> QED
    BY <2>2, <2>3 DEF WaitSound
<1> QED
  BY <1>1, ReadInvariance, PTL

(* listen: a thread that runs has dispatched each line for the pattern before  *)
(* its scan once, in the order of the file, but for lines of which it read the *)
(* head alone.                                                               *)
THEOREM DispatchesOnce == Spec => []DispatchedOnce
<1>1. ASSUME ReadInv PROVE DispatchedOnce
  <2> USE <1>1 DEF ReadInv
  <2> SUFFICES ASSUME mode = "listen", NEW t \in Scanners
               PROVE  LET due == {i \in Visible(t, 1) : i < scanner[t].scan}
                      IN /\ \A i, j \in DOMAIN sent[t] :
                              i < j => sent[t][i] < sent[t][j]
                         /\ scanner[t].alive => ToSet(sent[t]) = due
    BY DEF DispatchedOnce
  <2>1. From(1) = since
    BY DEF From
  <2>2. Matching(Patterns[1]) = Begun(Patterns[1]) \cap Lines
    <3>1. Len(file) \in Nat
      BY DEF TypeOK
    <3> QED
      BY <3>1 DEF Matching, Lines, Begun
  <2>3. /\ \A i, j \in DOMAIN sent[t] : i < j => sent[t][i] < sent[t][j]
        /\ ToSet(sent[t]) \subseteq Lines
        /\ scanner[t].alive =>
             ToSet(sent[t]) =
               {i \in Begun(Patterns[1]) : since <= i /\ i < scanner[t].scan}
                 \ halves[t]
    BY DEF Dispatched
  <2>4. \A i \in Begun(Patterns[1]) : i >= since <=> since <= i
    BY DEF Begun, TypeOK
  <2> DEFINE due == {i \in Visible(t, 1) : i < scanner[t].scan}
  <2>5. ASSUME scanner[t].alive PROVE ToSet(sent[t]) = due
    <3>1. \A i : i \in due <=>
            /\ i \in Begun(Patterns[1]) /\ i \in Lines /\ since <= i
            /\ i < scanner[t].scan /\ i \notin halves[t]
      BY <2>1, <2>2, <2>4 DEF Visible
    <3> HIDE DEF due
    <3>2. ASSUME NEW i \in due PROVE i \in ToSet(sent[t])
      BY <2>3, <2>5, <3>1, <3>2
    <3>3. ASSUME NEW i \in ToSet(sent[t]) PROVE i \in due
      BY <2>3, <2>5, <3>1, <3>3
    <3> QED
      BY <3>2, <3>3
  <2> QED
    BY <2>3, <2>5
<1> QED
  BY <1>1, ReadInvariance, PTL

-----------------------------------------------------------------------------
(* The queue *)

(* Concatenation is associative. *)
LEMMA NatConcat ==
  \A s, t, u \in Seq(Nat) : s \o (t \o u) = (s \o t) \o u
<1>1. \A S : \A s, t, u \in Seq(S) : (s \o t) \o u = s \o (t \o u)
  BY ConcatAssociative
<1>2. \A s, t, u \in Seq(Nat) : (s \o t) \o u = s \o (t \o u)
  BY <1>1
<1> QED
  BY <1>2

(* To append to the second of two sequences is to append to both. *)
LEMMA ConcatAppend ==
  ASSUME NEW s \in Seq(Nat), NEW t \in Seq(Nat), NEW x \in Nat
  PROVE  s \o Append(t, x) = Append(s \o t, x)
<1>1. <<x>> \in Seq(Nat) /\ s \o t \in Seq(Nat)
  BY ConcatProperties
<1>2. Append(t, x) = t \o <<x>>
  BY AppendIsConcat
<1>3. Append(s \o t, x) = (s \o t) \o <<x>>
  BY <1>1, AppendIsConcat
<1> QED
  BY <1>1, <1>2, <1>3, ConcatAssociative

(* What moves from the head of one to the end of the other keeps both. *)
LEMMA ConcatMove ==
  ASSUME NEW s \in Seq(Nat), NEW t \in Seq(Nat), t # <<>>
  PROVE  /\ Head(t) \in Nat /\ Tail(t) \in Seq(Nat) /\ Len(Tail(t)) = Len(t) - 1
         /\ Append(s, Head(t)) \o Tail(t) = s \o t
<1>1. PICK h \in Nat : h = Head(t) /\ h = t[1]
  BY HeadTailProperties
<1>2. PICK r \in Seq(Nat) :
        /\ r = Tail(t) /\ Len(r) = Len(t) - 1
        /\ \A i \in 1..Len(r) : r[i] = t[i + 1]
  BY HeadTailProperties
<1>3. /\ Len(t) \in Nat /\ Len(t) = 1 + Len(r) /\ Len(r) \in Nat
  BY <1>2
<1>4. <<h>> \in Seq(Nat)
  OBVIOUS
<1>4a. Len(<<h>>) = 1 /\ <<h>>[1] = h
  OBVIOUS
<1>4b. /\ <<h>> \o r \in Seq(Nat)
       /\ Len(<<h>> \o r) = Len(<<h>>) + Len(r)
       /\ \A i \in 1..Len(<<h>>) + Len(r) :
            (<<h>> \o r)[i] = IF i <= Len(<<h>>) THEN <<h>>[i] ELSE r[i - Len(<<h>>)]
  BY <1>4, ConcatProperties
<1>5. PICK w \in Seq(Nat) :
        /\ w = <<h>> \o r /\ Len(w) = 1 + Len(r)
        /\ \A i \in 1..1 + Len(r) :
             w[i] = IF i <= 1 THEN <<h>>[i] ELSE r[i - 1]
  <2> DEFINE v == <<h>> \o r
             one == <<h>>
  <2>1. /\ v \in Seq(Nat) /\ Len(v) = 1 + Len(r)
        /\ \A i \in 1..1 + Len(r) :
             v[i] = IF i <= 1 THEN one[i] ELSE r[i - 1]
    BY <1>4a, <1>4b
  <2>2. v = <<h>> \o r /\ one = <<h>>
    OBVIOUS
  <2> HIDE DEF v, one
  <2> QED
    BY <2>1, <2>2
<1>6. ASSUME NEW i \in 1..Len(t) PROVE t[i] = w[i]
  <2>1. CASE i = 1
    BY <1>1, <1>3, <1>4, <1>5, <2>1
  <2>2. CASE i > 1
    <3>1. i - 1 \in 1..Len(r) /\ (i - 1) + 1 = i
      BY <1>3, <2>2
    <3>2. r[i - 1] = t[i]
      BY <1>2, <3>1
    <3> QED
      BY <1>3, <1>5, <2>2, <3>2
  <2> QED
    BY <2>1, <2>2
<1>7. t = w
  BY <1>3, <1>5, <1>6, SeqEqual
<1>8. Append(s, h) = s \o <<h>>
  BY AppendIsConcat
<1>9. s \o (<<h>> \o r) = (s \o <<h>>) \o r
  <2> DEFINE one == <<h>>
  <2>1. one \in Seq(Nat)
    BY <1>4
  <2> HIDE DEF one
  <2>2. s \o (one \o r) = (s \o one) \o r
    BY <2>1, NatConcat
  <2> QED
    BY <2>2 DEF one
<1> QED
  BY <1>1, <1>2, <1>5, <1>7, <1>8, <1>9

(* How the sequences compare: a is b up to n; b, of length n, begins with what *)
(* a, of length m, begins with, as far as size; a is the end of b.           *)
SameTo(a, b, n) == \A k \in 1..n : a[k] = b[k]

FirstOf(a, m, b, n, size) ==
  \A k \in 1..n : k <= size => k <= m /\ a[k] = b[k]

EndOf(a, l, b, n) == \A k \in 1..l : a[k] = b[n - l + k]

(* Two sequences that agree up to a size agree after one more element, which  *)
(* the shorter takes if it has room.                                         *)
LEMMA FirstStay ==
  ASSUME NEW n \in Nat, NEW m \in Nat, NEW m2 \in Nat, NEW size \in Nat, NEW i,
         NEW o, NEW o2, NEW got, NEW got2,
         m <= n,
         SameTo(o2, o, n), o2[n + 1] = i,
         SameTo(got2, got, m),
         \/ m2 = m /\ size <= m
         \/ m2 = m + 1 /\ got2[m + 1] = i,
         FirstOf(got, m, o, n, size)
  PROVE  FirstOf(got2, m2, o2, n + 1, size)
<1> USE DEF SameTo, FirstOf
<1>1. ASSUME NEW k \in 1..n + 1, k <= size PROVE k <= m2 /\ got2[k] = o2[k]
  <2>1. CASE k \in 1..n
    BY <1>1, <2>1
  <2>2. CASE k = n + 1
    <3>1. n <= m
      <4>1. CASE n = 0
        BY <4>1
      <4>2. CASE n # 0
        <5>1. n \in 1..n /\ n <= size
          BY <1>1, <2>2, <4>2
        <5> QED
          BY <5>1
      <4> QED
        BY <4>1, <4>2
    <3>2. m = n
      BY <3>1
    <3> QED
      BY <1>1, <2>2, <3>2
  <2> QED
    BY <2>1, <2>2
<1> QED
  BY <1>1

(* The end of a sequence without its first element is an end still. *)
LEMMA LastLess ==
  ASSUME NEW n \in Nat, NEW l \in Nat, NEW o, NEW e, NEW r,
         \A k \in 1..l : r[k] = e[k + 1],
         EndOf(e, l + 1, o, n)
  PROVE  EndOf(r, l, o, n)
<1> USE DEF EndOf
<1>1. ASSUME NEW k \in 1..l PROVE r[k] = o[n - l + k]
  <2>1. /\ k + 1 \in 1..l + 1
        /\ n - (l + 1) + (k + 1) = n - l + k
    OBVIOUS
  <2>2. e[k + 1] = o[n - (l + 1) + (k + 1)]
    BY <2>1
  <2> QED
    BY <2>1, <2>2
<1> QED
  BY <1>1

(* The end of a sequence is one still if both get the same element. *)
LEMMA LastMore ==
  ASSUME NEW n \in Nat, NEW l \in Nat, l <= n, NEW i,
         NEW o, NEW o2, NEW g, NEW f,
         SameTo(o2, o, n), o2[n + 1] = i,
         SameTo(f, g, l), f[l + 1] = i,
         EndOf(g, l, o, n)
  PROVE  EndOf(f, l + 1, o2, n + 1)
<1> USE DEF SameTo, EndOf
<1>1. ASSUME NEW k \in 1..l + 1 PROVE f[k] = o2[(n + 1) - (l + 1) + k]
  <2>1. (n + 1) - (l + 1) + k = n - l + k
    OBVIOUS
  <2>2. CASE k \in 1..l
    <3>1. n - l + k \in 1..n
      BY <2>2
    <3> QED
      BY <2>1, <2>2, <3>1
  <2>3. CASE k = l + 1
    <3>1. n - l + k = n + 1
      BY <2>3
    <3> QED
      BY <2>1, <2>3, <3>1
  <2> QED
    BY <2>2, <2>3
<1> QED
  BY <1>1

FifoInv == Fifo /\ QueueFifo

(* A line goes to the queue, unless it is full, and to the deque. *)
LEMMA DispatchFifo ==
  ASSUME FifoInv, NEW i \in Nat,
         events' = Kept(events, i), queue' = Queued(queue, i),
         overflow' = (overflow \/ Len(queue) = QueueSize),
         order' = Append(order, i), given' = given
  PROVE  FifoInv'
<1>1. /\ order \in Seq(Nat) /\ given \in Seq(Nat)
      /\ queue \in Seq(Nat) /\ events \in Seq(Nat)
      /\ Len(queue) <= QueueSize /\ Len(events) <= QueueSize
      /\ Len(events) <= Len(order)
      /\ Len(given) + Len(queue) <= Len(order)
      /\ QueueSize \in Nat \ {0}
  BY ReaderAssumption DEF FifoInv, Fifo
<1>2. PICK n \in Nat : n = Len(order)
  BY <1>1
<1>3. PICK o2 \in Seq(Nat) :
        /\ o2 = order' /\ Len(o2) = n + 1
        /\ SameTo(o2, order, n)
        /\ o2[n + 1] = i
  BY <1>1, <1>2, AppendProperties DEF SameTo
<1>4. /\ queue' \in Seq(Nat) /\ Len(queue') <= QueueSize
      /\ Len(given') + Len(queue') <= Len(order')
      /\ given' \o queue' = order' \/ overflow'
      /\ FirstOf(given' \o queue', Len(given' \o queue'), o2, n + 1, QueueSize)
      /\ given' \o queue' \in Seq(Nat)
  <2>1. PICK got \in Seq(Nat) :
          /\ got = given \o queue /\ Len(got) = Len(given) + Len(queue)
          /\ DOMAIN got = 1..Len(got)
    <3>1. /\ given \o queue \in Seq(Nat)
          /\ Len(given \o queue) = Len(given) + Len(queue)
      BY <1>1, ConcatProperties
    <3>2. PICK got \in Seq(Nat) : got = given \o queue
      BY <3>1
    <3>3. DOMAIN got = 1..Len(got)
      OBVIOUS
    <3> QED
      BY <3>1, <3>2, <3>3
  <2>2. PICK m \in Nat : m = Len(got) /\ m <= n
    BY <1>1, <1>2, <2>1
  <2>3. /\ got = order \/ overflow
        /\ FirstOf(got, m, order, n, QueueSize)
    <3>1. /\ got = order \/ overflow
          /\ \A k \in 1..QueueSize \cap DOMAIN order :
               k \in DOMAIN got /\ got[k] = order[k]
      BY <2>1 DEF FifoInv, QueueFifo
    <3>2. ASSUME NEW k \in 1..n, k <= QueueSize
          PROVE  k \in 1..QueueSize \cap DOMAIN order
      BY <1>1, <1>2, <3>2
    <3> QED
      BY <2>1, <2>2, <3>1, <3>2 DEF FirstOf
  <2>4. CASE Len(queue) = QueueSize
    <3>1. queue' = queue /\ overflow'
      BY <2>4 DEF Queued
    <3>2. given' \o queue' = got /\ QueueSize <= m
      BY <1>1, <2>1, <2>2, <2>4, <3>1
    <3>3. SameTo(got, got, m)
      BY DEF SameTo
    <3>4. FirstOf(got, m, o2, n + 1, QueueSize)
      <4>1. QueueSize \in Nat /\ (m = m /\ QueueSize <= m)
        BY <1>1, <3>2
      <4> QED
        BY <1>3, <2>2, <2>3, <3>3, <4>1, FirstStay
    <3>5. Len(given') + Len(queue') <= Len(order')
      BY <1>1, <1>2, <1>3, <3>1
    <3> QED
      BY <1>1, <2>2, <3>1, <3>2, <3>4, <3>5
  <2>5. CASE Len(queue) # QueueSize
    <3>1. queue' = Append(queue, i) /\ (overflow' <=> overflow)
      BY <2>5 DEF Queued
    <3>2. PICK got2 \in Seq(Nat) :
            /\ got2 = Append(got, i)
            /\ Len(got2) = m + 1
            /\ SameTo(got2, got, m)
            /\ got2[m + 1] = i
      <4>1. Append(got, i) \in Seq(Nat)
        BY AppendProperties
      <4>2. PICK got2 \in Seq(Nat) : got2 = Append(got, i)
        BY <4>1
      <4>3. Len(got2) = m + 1 /\ SameTo(got2, got, m) /\ got2[m + 1] = i
        BY <2>2, <4>2, AppendProperties DEF SameTo
      <4> QED
        BY <4>2, <4>3
    <3>3. given' \o queue' = got2
      <4>1. given \o Append(queue, i) = Append(given \o queue, i)
        BY <1>1, ConcatAppend
      <4>2. given' \o queue' = given \o Append(queue, i)
        BY <3>1
      <4>3. Append(given \o queue, i) = got2
        BY <2>1, <3>2
      <4> QED
        BY <4>1, <4>2, <4>3
    <3>4. FirstOf(got2, m + 1, o2, n + 1, QueueSize)
      <4>1. QueueSize \in Nat
        BY <1>1
      <4>2. PICK m2 \in Nat : m2 = m + 1
        BY <2>2
      <4>3. FirstOf(got2, m2, o2, n + 1, QueueSize)
        BY <1>3, <2>2, <2>3, <3>2, <4>1, <4>2, FirstStay
      <4> QED
        BY <4>2, <4>3
    <3>5. queue' \in Seq(Nat) /\ Len(queue') = Len(queue) + 1
      BY <1>1, <3>1, AppendProperties
    <3>6. Len(queue') <= QueueSize /\ Len(given') + Len(queue') <= Len(order')
      BY <1>1, <1>2, <1>3, <2>5, <3>5
    <3>7. given' \o queue' = order' \/ overflow'
      <4>1. CASE got = order
        BY <3>2, <3>3, <4>1
      <4>2. CASE overflow
        BY <3>1, <4>2
      <4> QED
        BY <2>3, <4>1, <4>2
    <3>8. /\ given' \o queue' \in Seq(Nat)
          /\ FirstOf(given' \o queue', Len(given' \o queue'), o2, n + 1, QueueSize)
      BY <3>2, <3>3, <3>4
    <3> QED
      BY <3>5, <3>6, <3>7, <3>8
  <2> QED
    BY <2>4, <2>5
<1>5. /\ events' \in Seq(Nat) /\ Len(events') <= QueueSize
      /\ Len(events') <= n + 1
      /\ \A k \in DOMAIN events' : events'[k] = o2[(n + 1) - Len(events') + k]
  <2>1. \A k \in DOMAIN events : events[k] = order[n - Len(events) + k]
    BY <1>2 DEF FifoInv, QueueFifo
  <2>2. DOMAIN events = 1..Len(events) /\ Len(events) \in Nat
    BY <1>1
  <2>3. PICK g \in Seq(Nat), l \in Nat :
          /\ events' = Append(g, i) /\ l = Len(g) /\ l < QueueSize /\ l <= n
          /\ EndOf(g, l, order, n)
    <3>1. CASE Len(events) = QueueSize
      <4>1. events # <<>>
        BY <1>1, <3>1
      <4>2. /\ Tail(events) \in Seq(Nat) /\ Len(Tail(events)) = Len(events) - 1
            /\ \A k \in 1..Len(Tail(events)) : Tail(events)[k] = events[k + 1]
        BY <1>1, <4>1, HeadTailProperties
      <4>3. PICK r \in Seq(Nat) : r = Tail(events)
        BY <4>2
      <4>3a. PICK l \in Nat :
               /\ l = Len(r) /\ l + 1 = Len(events)
               /\ \A k \in 1..l : r[k] = events[k + 1]
        <5>1. Len(r) \in Nat /\ Len(r) + 1 = Len(events)
          BY <2>2, <4>2, <4>3
        <5> QED
          BY <4>2, <4>3, <5>1
      <4>4. EndOf(events, l + 1, order, n)
        BY <2>1, <2>2, <4>3a DEF EndOf
      <4>5. EndOf(r, l, order, n)
        BY <4>3a, <4>4, LastLess DEF EndOf
      <4>6. events' = Append(r, i)
        BY <3>1, <4>3 DEF Kept
      <4>7. l < QueueSize /\ l <= n
        BY <1>1, <1>2, <4>3a
      <4> QED
        BY <4>3a, <4>5, <4>6, <4>7
    <3>2. CASE Len(events) # QueueSize
      <4>1. events' = Append(events, i)
        BY <3>2 DEF Kept
      <4>2. Len(events) < QueueSize
        <5>1. PICK l \in Nat : l = Len(events)
          BY <2>2
        <5>2. l <= QueueSize /\ l # QueueSize /\ QueueSize \in Nat
          BY <1>1, <3>2, <5>1
        <5>3. l < QueueSize
          BY <5>2
        <5> QED
          BY <5>1, <5>3
      <4>2a. Len(events) <= n
        BY <1>1, <1>2
      <4>3. EndOf(events, Len(events), order, n)
        BY <2>1, <2>2 DEF EndOf
      <4> QED
        BY <1>1, <2>2, <4>1, <4>2, <4>2a, <4>3
    <3> QED
      BY <3>1, <3>2
  <2>4. PICK f \in Seq(Nat) :
          /\ f = events' /\ Len(f) = l + 1 /\ DOMAIN f = 1..l + 1
          /\ SameTo(f, g, l)
          /\ f[l + 1] = i
    <3>1. Append(g, i) \in Seq(Nat)
      BY AppendProperties
    <3>2. PICK f \in Seq(Nat) : f = Append(g, i)
      BY <3>1
    <3>3. Len(f) = l + 1 /\ SameTo(f, g, l) /\ f[l + 1] = i
      BY <2>3, <3>2, AppendProperties DEF SameTo
    <3>4. DOMAIN f = 1..l + 1
      BY <3>3
    <3> QED
      BY <2>3, <3>2, <3>3, <3>4
  <2>5. EndOf(f, l + 1, o2, n + 1)
    BY <1>3, <2>3, <2>4, LastMore
  <2>6. Len(f) <= QueueSize /\ Len(f) <= n + 1
    BY <1>1, <2>3, <2>4
  <2> QED
    BY <2>4, <2>5, <2>6 DEF EndOf
<1>6. Fifo'
  BY <1>1, <1>3, <1>4, <1>5 DEF Fifo
<1>7. QueueFifo'
  <2>1. /\ \A k \in 1..QueueSize \cap DOMAIN o2 :
             /\ k \in DOMAIN (given' \o queue')
             /\ (given' \o queue')[k] = o2[k]
        /\ \A k \in DOMAIN events' :
             events'[k] = o2[Len(o2) - Len(events') + k]
    <3>1. DOMAIN o2 = 1..n + 1
      BY <1>3
    <3>2. \A k \in 1..QueueSize \cap DOMAIN o2 : k \in 1..n + 1 /\ k <= QueueSize
      BY <1>1, <3>1
    <3>3. DOMAIN (given' \o queue') = 1..Len(given' \o queue')
      BY <1>4
    <3>4. ASSUME NEW k \in 1..QueueSize \cap DOMAIN o2
          PROVE  /\ k \in DOMAIN (given' \o queue')
                 /\ (given' \o queue')[k] = o2[k]
      <4>1. k \in 1..n + 1 /\ k \in Nat /\ 1 <= k
        BY <3>1
      <4>2. /\ k <= Len(given' \o queue')
            /\ (given' \o queue')[k] = o2[k]
        BY <1>4, <3>2, <4>1 DEF FirstOf
      <4> QED
        BY <1>4, <3>3, <4>1, <4>2
    <3> QED
      BY <1>3, <1>5, <3>4
  <2> QED
    BY <1>3, <1>4, <2>1 DEF QueueFifo
<1> QED
  BY <1>6, <1>7 DEF FifoInv

(* get_next_event gives the head of the queue. *)
LEMMA GetFifo ==
  ASSUME FifoInv, GetNextEvent
  PROVE  FifoInv'
<1>1. /\ queue # <<>> /\ given' = Append(given, Head(queue))
      /\ queue' = Tail(queue) /\ UNCHANGED <<events, order, overflow>>
  BY DEF GetNextEvent
<1>2. /\ given \in Seq(Nat) /\ queue \in Seq(Nat) /\ order \in Seq(Nat)
  BY DEF FifoInv, Fifo
<1>3. /\ Head(queue) \in Nat /\ queue' \in Seq(Nat)
      /\ Len(queue') = Len(queue) - 1
      /\ given' \o queue' = given \o queue
  BY <1>1, <1>2, ConcatMove
<1>4. given' \in Seq(Nat) /\ Len(given') = Len(given) + 1
      /\ Len(given) \in Nat /\ Len(queue) \in Nat /\ Len(order) \in Nat
  BY <1>1, <1>2, <1>3
<1>5. Fifo'
  BY <1>1, <1>2, <1>3, <1>4, ReaderAssumption DEF FifoInv, Fifo
<1>6. QueueFifo'
  BY <1>1, <1>3 DEF FifoInv, QueueFifo
<1> QED
  BY <1>5, <1>6 DEF FifoInv

(* Every step keeps the queue in order. *)
LEMMA FifoStep ==
  ASSUME ReadInv, FifoInv, [Next]_vars
  PROVE  FifoInv'
<1>1. CASE UNCHANGED <<events, queue, given, order, overflow>>
  BY <1>1 DEF FifoInv, Fifo, QueueFifo
<1>2. ASSUME NEW t \in Scanners, ListenReads(t) PROVE FifoInv'
  <2> DEFINE line == LineAt(scanner[t].at)
  <2>1. line.start \in Nat
    <3>1. scanner[t].at \in Nat /\ scanner[t].at < Len(file)
      BY <1>2 DEF ListenReads, Reading, ReadInv, TypeOK, ScannerType, Tracks
    <3> QED
      BY <3>1, LineFacts DEF ReadInv
  <2>2. given' = given
    BY <1>2 DEF ListenReads
  <2>3. CASE line.kind = Patterns[1]
    <3>1. /\ events' = Kept(events, line.start)
          /\ queue' = Queued(queue, line.start)
          /\ overflow' = (overflow \/ Len(queue) = QueueSize)
          /\ order' = Append(order, line.start)
      BY <1>2, <2>3 DEF ListenReads
    <3> HIDE DEF line
    <3> QED
      BY <2>1, <2>2, <3>1, DispatchFifo
  <2>4. CASE line.kind # Patterns[1]
    BY <1>1, <1>2, <2>2, <2>4 DEF ListenReads
  <2> QED
    BY <2>3, <2>4
<1>3. ASSUME NEW t \in Scanners, ScannerStep(t), ~ListenReads(t)
      PROVE  FifoInv'
  BY <1>1, <1>3 DEF ScannerStep, Open, EndOfFile, WaitReads, WaitTimesOut,
                    ThreadEnds, listenVars
<1>4. CASE GetNextEvent
  BY <1>4, GetFifo
<1>5. ASSUME \/ Write \/ Expire \/ Enter \/ Exit \/ Exited \/ JoinTimesOut
             \/ UNCHANGED vars
             \/ \E m \in WaitModes, offset \in Offsets : WaitFor(m, offset)
             \/ \E offset \in Offsets : Listen(offset)
      PROVE  FifoInv'
  BY <1>1, <1>5 DEF Write, Expire, Enter, Exit, Exited, JoinTimesOut, WaitFor,
                    Listen, listenVars, vars
<1> QED
  BY <1>2, <1>3, <1>4, <1>5 DEF Next, WaitModes

(* get_next_event: the lines come in the order they were dispatched, all of    *)
(* them unless the queue was full, and the first max_events anyway; the deque *)
(* holds the last.                                                           *)
THEOREM QueueInOrder == Spec => []QueueFifo
<1>1. ASSUME Init PROVE FifoInv
  <2>1. /\ order = <<>> /\ given = <<>> /\ queue = <<>> /\ events = <<>>
        /\ ~overflow
    BY <1>1 DEF Init
  <2>2. <<>> \in Seq(Nat) /\ given \o queue = order
    BY <2>1
  <2> QED
    BY <2>1, <2>2, ReaderAssumption DEF FifoInv, Fifo, QueueFifo
<1>2. ReadInv /\ FifoInv /\ [Next]_vars => FifoInv'
  BY FifoStep
<1>3. FifoInv => QueueFifo
  BY DEF FifoInv
<1> QED
  BY <1>1, <1>2, <1>3, ReadInvariance, PTL DEF Spec

-----------------------------------------------------------------------------
(* The context *)

(* Every step keeps Joins. *)
LEMMA JoinsStep ==
  ASSUME ReadInv, Joins, [Next]_vars
  PROVE  Joins'
<1>1. scanner \in [Scanners -> ScannerType]
  BY DEF ReadInv, TypeOK
<1>2. \A t \in Scanners : scanner[t] \in ScannerType
  BY <1>1
<1>3. ASSUME UNCHANGED <<mode, thread, context, abandoned>>,
             \A t \in Scanners :
               /\ scanner'[t].alive => scanner[t].alive
               /\ scanner'[t].open => scanner'[t].alive
      PROVE  Joins'
  BY <1>3 DEF Joins
<1>4. ASSUME NEW t \in Scanners, ScannerStep(t) PROVE Joins'
  <2>1. UNCHANGED <<mode, thread, context, abandoned>>
    BY <1>4 DEF ScannerStep, Open, EndOfFile, WaitReads, WaitTimesOut,
                ListenReads, ThreadEnds, listenVars
  <2>2. \A u \in Scanners : u # t => scanner'[u] = scanner[u]
    BY <1>1, <1>4 DEF ScannerStep, Open, EndOfFile, WaitReads, WaitTimesOut,
                      ListenReads, ThreadEnds, Pass
  <2>3. /\ scanner'[t].alive => scanner[t].alive
        /\ scanner'[t].open => scanner'[t].alive
    <3>1. CASE Open(t)
      BY <1>1, <1>2, <3>1 DEF Open, ScannerType
    <3>2. CASE EndOfFile(t) \/ ThreadEnds(t)
      BY <1>1, <1>2, <3>2 DEF EndOfFile, ThreadEnds, ScannerType
    <3>3. CASE WaitTimesOut(t)
      BY <3>3 DEF WaitTimesOut, Joins
    <3>4. ASSUME NEW line, NEW goOn, Reading(t), Pass(t, line, goOn)
          PROVE  scanner[t].alive /\ scanner'[t].alive
      BY <1>1, <1>2, <3>4 DEF Pass, Reading, ScannerType, Joins
    <3>5. CASE WaitReads(t) \/ ListenReads(t)
      BY <3>4, <3>5 DEF WaitReads, ListenReads
    <3> QED
      BY <1>4, <3>1, <3>2, <3>3, <3>5 DEF ScannerStep
  <2> QED
    BY <1>3, <2>1, <2>2, <2>3 DEF Joins
<1>5. CASE Write \/ Expire \/ GetNextEvent \/ UNCHANGED vars
  BY <1>3, <1>5 DEF Write, Expire, GetNextEvent, vars, waitVars, listenVars,
                    Joins
<1>6. ASSUME NEW m \in WaitModes, NEW offset \in Offsets, WaitFor(m, offset)
      PROVE  Joins'
  <2>1. mode = "idle" /\ mode' \in WaitModes
    BY <1>6 DEF WaitFor
  <2>2. \A t \in Scanners : ~scanner[t].open
    BY <2>1 DEF Joins
  <2>3. scanner' = [scanner EXCEPT ![Caller] = [Off EXCEPT !.alive = TRUE,
                                                           !.scan = offset]]
    BY <1>6 DEF WaitFor
  <2>4. ~[Off EXCEPT !.alive = TRUE, !.scan = offset].open
    BY DEF Off
  <2>5. \A t \in Scanners : ~scanner'[t].open
    BY <1>1, <2>2, <2>3, <2>4
  <2> QED
    BY <2>1, <2>5 DEF Joins, WaitModes
<1>7. ASSUME NEW offset \in Offsets, Listen(offset) PROVE Joins'
  BY <1>7 DEF Listen, Joins
<1>8. CASE Enter
  <2>1. PICK t \in Scanners :
          /\ mode = "listen" /\ context = "out" /\ context' = "in"
          /\ thread' = {t}
          /\ scanner' = [scanner EXCEPT ![t] = [Off EXCEPT !.alive = TRUE,
                                                           !.scan = since]]
          /\ UNCHANGED <<mode, abandoned>>
    BY <1>8 DEF Enter
  <2> DEFINE begun == [Off EXCEPT !.alive = TRUE, !.scan = since]
  <2>2. begun.alive /\ ~begun.open
    BY DEF Off
  <2> HIDE DEF begun
  <2>3. /\ scanner'[t] = begun
        /\ \A u \in Scanners : u # t => scanner'[u] = scanner[u]
    <3>1. scanner' = [scanner EXCEPT ![t] = begun]
      BY <2>1 DEF begun
    <3> QED
      BY <1>1, <3>1
  <2> QED
    BY <2>1, <2>2, <2>3 DEF Joins
<1>9. CASE Exit
  BY <1>9 DEF Exit, Joins
<1>10. CASE Exited
  BY <1>10 DEF Exited, Joined, Joins
<1>11. CASE JoinTimesOut
  BY <1>11 DEF JoinTimesOut, Joins
<1> QED
  BY <1>4, <1>5, <1>6, <1>7, <1>8, <1>9, <1>10, <1>11 DEF Next, WaitModes

(* __exit__: once the context was left no line is dispatched, unless the       *)
(* thread did not end in time.                                               *)
THEOREM ExitQuiets == Spec => QuietAfterExit
<1>1. Init => Joins
  BY DEF Init, Off, Joins
<1>2. ReadInv /\ Joins /\ [Next]_vars => Joins'
  BY JoinsStep
<1>3. ASSUME Joins, [Next]_vars, context = "out", ~abandoned
      PROVE  order' = order
  <2>1. \A t \in Scanners : ~ListenReads(t)
    BY <1>3 DEF Joins, ListenReads, Reading
  <2>2. ASSUME NEW t \in Scanners, ScannerStep(t) PROVE order' = order
    BY <2>1, <2>2 DEF ScannerStep, Open, EndOfFile, WaitReads, WaitTimesOut,
                      ThreadEnds, listenVars
  <2> QED
    BY <1>3, <2>2 DEF Next, Write, Expire, Enter, Exit, Exited, JoinTimesOut,
                      GetNextEvent, WaitFor, Listen, listenVars, vars
<1> QED
  BY <1>1, <1>2, <1>3, ReadInvariance, PTL DEF Spec, QuietAfterExit

-----------------------------------------------------------------------------
(* Lines one after the other *)

LineType == [start : Nat, next : Nat, half : BOOLEAN, kind : Kinds]

(* A line read between two offsets ends there.                               *)
LEMMA LineBounds ==
  ASSUME TypeOK, NEW to \in 0..Len(file), NEW at \in Nat, at < to
  PROVE  /\ LineIn(at, to) \in LineType
         /\ LineIn(at, to).next \in at + 1..to
<1> DEFINE x == file[at + 1]
           joined == x.part = "head" /\ at + 2 <= to
           kind == CASE x.part = "whole" \/ joined -> x.kind
                     [] x.part = "head" /\ ~joined /\ x.parses -> "other"
                     [] OTHER -> "unparsed"
           next == IF joined THEN at + 2 ELSE at + 1
           half == x.part = "head" /\ ~joined
<1>1. x \in Pieces /\ Len(file) \in Nat
  BY DEF TypeOK
<1>2. kind \in Kinds
  BY <1>1 DEF Pieces, Kinds
<1>3. next \in Nat /\ next \in at + 1..to /\ half \in BOOLEAN
  BY <1>1
<1>4. LineIn(at, to) = [start |-> at, next |-> next, half |-> half, kind |-> kind]
  BY DEF LineIn
<1> HIDE DEF kind, next, half
<1> QED
  BY <1>2, <1>3, <1>4 DEF LineType

(* What Matches is at an offset, given what it is at the others.              *)
MatchesAt(p, to, g, at) ==
  IF at = to THEN <<>>
  ELSE Match(p, LineIn(at, to)) \o g[LineIn(at, to).next]

(* The recursion of Matches has a solution.                                  *)
LEMMA MatchesExists ==
  ASSUME TypeOK, NEW p, NEW to \in 0..Len(file)
  PROVE  \E g : g = [at \in 0..to |-> MatchesAt(p, to, g, at)]
<1> DEFINE Solved(i) == \E g : g = [at \in i..to |-> MatchesAt(p, to, g, at)]
           S == {i \in 0..to : Solved(i)}
<1>1. to \in Nat
  BY DEF TypeOK
<1>2. Solved(to)
  <2>1. [at \in to..to |-> <<>>] =
          [at \in to..to |-> MatchesAt(p, to, [b \in to..to |-> <<>>], at)]
    BY <1>1 DEF MatchesAt
  <2> QED
    BY <2>1
<1>3. ASSUME NEW i \in 0..to, i # to, Solved(i + 1) PROVE Solved(i)
  <2>1. PICK g : g = [at \in i + 1..to |-> MatchesAt(p, to, g, at)]
    BY <1>3
  <2> DEFINE h == [at \in i..to |->
                    IF at = i THEN MatchesAt(p, to, g, at) ELSE g[at]]
  <2>2. ASSUME NEW at \in i..to PROVE h[at] = MatchesAt(p, to, h, at)
    <3>1. at \in Nat /\ (at = i \/ at \in i + 1..to) /\ to # i
      BY <1>1, <1>3, <2>2
    <3>2. h[at] = MatchesAt(p, to, g, at)
      BY <2>1, <3>1
    <3>3. MatchesAt(p, to, h, at) = MatchesAt(p, to, g, at)
      <4>1. CASE at = to
        BY <4>1 DEF MatchesAt
      <4>2. CASE at # to
        <5>1. LineIn(at, to).next \in at + 1..to
          BY <1>1, <2>2, <3>1, <4>2, LineBounds
        <5>2. LineIn(at, to).next \in i..to /\ LineIn(at, to).next # i
          BY <1>1, <2>2, <3>1, <5>1
        <5> QED
          BY <5>2 DEF MatchesAt
      <4> QED
        BY <4>1, <4>2
    <3> QED
      BY <3>2, <3>3
  <2> HIDE DEF h
  <2>3. h = [at \in i..to |-> h[at]]
    BY DEF h
  <2>4. h = [at \in i..to |-> MatchesAt(p, to, h, at)]
    BY <2>2, <2>3
  <2> QED
    BY <2>4
<1> HIDE DEF Solved
<1>4. ASSUME NEW i \in 0..to, \A j \in i + 1..to : j \in S PROVE i \in S
  <2>1. i # to => i + 1 \in i + 1..to
    BY <1>1
  <2> QED
    BY <1>2, <1>3, <1>4, <2>1
<1> HIDE DEF S
<1>5. 0 \in S
  <2>1. 0 \in 0..to
    BY <1>1
  <2> QED
    BY <1>1, <1>4, <2>1, Backwards
<1> QED
  BY <1>5 DEF S, Solved

(* So Matches is that solution.                                              *)
LEMMA MatchesIs ==
  ASSUME TypeOK, NEW p, NEW to \in 0..Len(file), NEW at \in 0..to
  PROVE  Matches(p, at, to) =
           IF at = to THEN <<>>
           ELSE Match(p, LineIn(at, to)) \o Matches(p, LineIn(at, to).next, to)
<1>0. PICK g : g = [i \in 0..to |-> MatchesAt(p, to, g, i)]
  BY MatchesExists
<1> DEFINE lines[i \in 0..to] ==
             IF i = to THEN <<>>
             ELSE Match(p, LineIn(i, to)) \o lines[LineIn(i, to).next]
<1>1. \A i \in 0..to : Matches(p, i, to) = lines[i]
  BY DEF Matches
<1>2. lines = CHOOSE h : h = [i \in 0..to |->
                IF i = to THEN <<>>
                ELSE Match(p, LineIn(i, to)) \o h[LineIn(i, to).next]]
  BY DEF lines
<1>3. g = [i \in 0..to |->
                IF i = to THEN <<>>
                ELSE Match(p, LineIn(i, to)) \o g[LineIn(i, to).next]]
  BY <1>0 DEF MatchesAt
<1>4. lines = [i \in 0..to |->
                IF i = to THEN <<>>
                ELSE Match(p, LineIn(i, to)) \o lines[LineIn(i, to).next]]
  BY <1>2, <1>3
<1>5. at # to => LineIn(at, to).next \in 0..to
  BY LineBounds DEF TypeOK
<1> HIDE DEF lines
<1>6. lines[at] = IF at = to THEN <<>>
                  ELSE Match(p, LineIn(at, to)) \o lines[LineIn(at, to).next]
  BY <1>4
<1> QED
  BY <1>1, <1>5, <1>6

(* The lines found are lines, at most one for each piece.                    *)
LEMMA MatchesType ==
  ASSUME TypeOK, NEW p, NEW to \in 0..Len(file), NEW at \in 0..to
  PROVE  /\ Matches(p, at, to) \in Seq(LineType)
         /\ Len(Matches(p, at, to)) <= to - at
<1> DEFINE Good(i) == /\ Matches(p, i, to) \in Seq(LineType)
                      /\ Len(Matches(p, i, to)) <= to - i
<1>1. to \in Nat
  BY DEF TypeOK
<1>2. ASSUME NEW i \in 0..to, i < to => Good(LineIn(i, to).next) PROVE Good(i)
  <2> DEFINE line == LineIn(i, to)
             rest == Matches(p, line.next, to)
  <2>1. CASE i = to
    <3>1. Matches(p, i, to) = <<>>
      BY <2>1, MatchesIs
    <3> QED
      BY <1>1, <2>1, <3>1
  <2>2. CASE i # to
    <3>1. line \in LineType /\ line.next \in i + 1..to /\ i \in Nat
      BY <1>1, <2>2, LineBounds
    <3>2. rest \in Seq(LineType) /\ Len(rest) <= to - line.next
      BY <1>1, <1>2, <2>2
    <3>3. Match(p, line) \in Seq(LineType) /\ Len(Match(p, line)) <= 1
      BY <3>1 DEF Match
    <3>4. Matches(p, i, to) = Match(p, line) \o rest
      BY <2>2, MatchesIs
    <3> HIDE DEF line, rest
    <3>5. /\ Match(p, line) \o rest \in Seq(LineType)
          /\ Len(Match(p, line) \o rest) = Len(Match(p, line)) + Len(rest)
      BY <3>2, <3>3, ConcatProperties
    <3>6. Len(Match(p, line)) \in Nat /\ Len(rest) \in Nat
      BY <3>2, <3>3
    <3>7. Len(Match(p, line)) + Len(rest) <= to - i
      BY <1>1, <3>1, <3>2, <3>3, <3>6
    <3> QED
      BY <3>4, <3>5, <3>7
  <2> QED
    BY <2>1, <2>2
<1> HIDE DEF Good
<1> DEFINE S == {i \in 0..to : Good(i)}
<1>3. ASSUME NEW i \in 0..to, \A j \in i + 1..to : j \in S PROVE i \in S
  <2>1. i < to => LineIn(i, to).next \in i + 1..to
    BY <1>1, LineBounds
  <2> QED
    BY <1>2, <1>3, <2>1
<1> HIDE DEF S
<1>4. \A i \in 0..to : i \in S
  BY <1>1, <1>3, Backwards
<1> QED
  BY <1>4 DEF Good, S

(* Where a line may end, or where what is read ends.                         *)
Parts(b, to) == b \in 0..to /\ (b = to \/ b = 0 \/ file[b].part # "head")

LineConcat ==
  \A s, t, u \in Seq(LineType) : s \o (t \o u) = (s \o t) \o u

LEMMA LineConcats == LineConcat
<1>1. \A S : \A s, t, u \in Seq(S) : (s \o t) \o u = s \o (t \o u)
  BY ConcatAssociative
<1>2. \A s, t, u \in Seq(LineType) : (s \o t) \o u = s \o (t \o u)
  BY <1>1
<1> QED
  BY <1>2 DEF LineConcat

(* What is read up to there and what is read from there make up the whole.    *)
LEMMA MatchesSplit ==
  ASSUME TypeOK, NEW p, NEW to \in 0..Len(file), NEW b, Parts(b, to),
         NEW at \in 0..b
  PROVE  Matches(p, at, to) = Matches(p, at, b) \o Matches(p, b, to)
<1> DEFINE Good(i) == Matches(p, i, to) = Matches(p, i, b) \o Matches(p, b, to)
<1>1. to \in Nat /\ b \in Nat /\ b <= to /\ b \in 0..Len(file)
  BY DEF TypeOK, Parts
<1>2. ASSUME NEW i \in 0..b, i < b => Good(LineIn(i, b).next) PROVE Good(i)
  <2>1. Matches(p, b, to) \in Seq(LineType)
    BY <1>1, MatchesType
  <2>2. CASE i = b
    <3>1. Matches(p, i, b) = <<>>
      BY <1>1, <2>2, MatchesIs
    <3> QED
      BY <2>1, <2>2, <3>1, ConcatEmptySeq
  <2>3. CASE i # b
    <3> DEFINE line == LineIn(i, b)
    <3>1. i \in Nat /\ i < b /\ i < to /\ i \in 0..to /\ i # to
      BY <1>1, <2>3
    <3>2. line \in LineType /\ line.next \in i + 1..b
      BY <1>1, <3>1, LineBounds
    <3>3. LineIn(i, to) = line
      <4>1. file[i + 1].part = "head" => (i + 2 <= to <=> i + 2 <= b)
        <5>1. i + 1 = b /\ b # 0 => b = to \/ file[i + 1].part # "head"
          BY DEF Parts
        <5> QED
          BY <1>1, <3>1, <5>1
      <4> QED
        BY <4>1 DEF LineIn
    <3>4. Matches(p, i, to) = Match(p, line) \o Matches(p, line.next, to)
      BY <3>1, <3>3, MatchesIs
    <3>5. Matches(p, i, b) = Match(p, line) \o Matches(p, line.next, b)
      BY <1>1, <2>3, MatchesIs
    <3>6. Good(line.next)
      BY <1>2, <3>1
    <3>7. Matches(p, line.next, b) \in Seq(LineType)
      BY <1>1, <3>1, <3>2, MatchesType
    <3>8. Match(p, line) \in Seq(LineType)
      BY <3>2 DEF Match
    <3> HIDE DEF line
    <3> QED
      BY <2>1, <3>4, <3>5, <3>6, <3>7, <3>8, LineConcats DEF LineConcat
  <2> QED
    BY <2>2, <2>3
<1> HIDE DEF Good
<1> DEFINE S == {i \in 0..b : Good(i)}
<1>3. ASSUME NEW i \in 0..b, \A j \in i + 1..b : j \in S PROVE i \in S
  <2>1. i < b => LineIn(i, b).next \in i + 1..b
    BY <1>1, LineBounds
  <2> QED
    BY <1>2, <1>3, <2>1
<1> HIDE DEF S
<1>4. \A i \in 0..b : i \in S
  BY <1>1, <1>3, Backwards
<1> QED
  BY <1>4 DEF Good, S

-----------------------------------------------------------------------------
(* The kept lines *)

(* The end of a sequence, of a length or all of it.                          *)
LEMMA LastOfIs ==
  ASSUME NEW S, NEW s \in Seq(S), NEW k \in Nat
  PROVE  LET d == IF Len(s) > k THEN Len(s) - k ELSE 0
             kept == LastOf(s, k)
         IN /\ kept \in Seq(S)
            /\ Len(kept) = Len(s) - d
            /\ \A i \in 1..Len(s) - d : kept[i] = s[i + d]
<1> DEFINE m == Len(s)
           d == IF m > k THEN m - k ELSE 0
           kept == LastOf(s, k)
<1>1. m \in Nat /\ DOMAIN s = 1..m
  OBVIOUS
<1>2. kept = SubSeq(s, IF m > k THEN m - k + 1 ELSE 1, m)
  BY DEF LastOf
<1>3. \A i \in 1..m : s[i] \in S
  BY ElementOfSeq
<1> HIDE DEF m, kept
<1>4. /\ d \in 0..m /\ d + 1 \in Int
      /\ (IF m > k THEN m - k + 1 ELSE 1) = d + 1
      /\ \A i \in d + 1..m : i \in 1..m
  BY <1>1
<1> HIDE DEF d
<1>5. /\ kept \in Seq(S)
      /\ Len(kept) = IF d + 1 <= m THEN m - (d + 1) + 1 ELSE 0
      /\ \A i \in 1..m - (d + 1) + 1 : kept[i] = s[d + 1 + i - 1]
  BY <1>1, <1>2, <1>3, <1>4, SubSeqProperties
<1>6. /\ (IF d + 1 <= m THEN m - (d + 1) + 1 ELSE 0) = m - d
      /\ m - (d + 1) + 1 = m - d
      /\ \A i \in 1..m - d : d + 1 + i - 1 = i + d
  BY <1>1, <1>4
<1>7. /\ kept \in Seq(S)
      /\ Len(kept) = m - d
      /\ \A i \in 1..m - d : kept[i] = s[i + d]
  BY <1>5, <1>6
<1> QED
  BY <1>7 DEF d, m, kept

(* The end of two sequences, one after the other: that of the second, and     *)
(* what that leaves of the first.                                            *)
LEMMA LastConcat ==
  ASSUME NEW S, NEW s \in Seq(S), NEW t \in Seq(S), NEW k \in Nat
  PROVE  LastOf(s \o t, k) = LastOf(s, k - Len(LastOf(t, k))) \o LastOf(t, k)
<1> DEFINE a == Len(s)
           b == Len(t)
           dt == IF b > k THEN b - k ELSE 0
           j == k - (b - dt)
           ds == IF a > j THEN a - j ELSE 0
           d == IF a + b > k THEN (a + b) - k ELSE 0
           u == LastOf(t, k)
           v == LastOf(s, j)
           c == s \o t
           w == LastOf(c, k)
<1>1. a \in Nat /\ b \in Nat
  OBVIOUS
<1>2. /\ c \in Seq(S) /\ Len(c) = a + b
      /\ \A i \in 1..a + b : c[i] = IF i <= a THEN s[i] ELSE t[i - a]
  BY ConcatProperties
<1>3. u \in Seq(S) /\ Len(u) = b - dt /\ \A i \in 1..b - dt : u[i] = t[i + dt]
  BY LastOfIs
<1> HIDE DEF a, b, c
<1>0. dt \in 0..b /\ j \in Nat /\ ds \in 0..a /\ d \in 0..a + b
  BY <1>1
<1>4. v \in Seq(S) /\ Len(v) = a - ds /\ \A i \in 1..a - ds : v[i] = s[i + ds]
  <2> HIDE DEF j
  <2> QED
    BY <1>0, LastOfIs DEF a
<1>5. /\ w \in Seq(S) /\ Len(w) = (a + b) - d
      /\ \A i \in 1..(a + b) - d : w[i] = c[i + d]
  <2>1. LET e == IF Len(c) > k THEN Len(c) - k ELSE 0
        IN /\ w \in Seq(S)
           /\ Len(w) = Len(c) - e
           /\ \A i \in 1..Len(c) - e : w[i] = c[i + e]
    BY <1>2, LastOfIs
  <2>2. (IF Len(c) > k THEN Len(c) - k ELSE 0) = d
    BY <1>2
  <2>3. Len(c) = a + b
    BY <1>2
  <2> HIDE DEF d, w
  <2> QED
    BY <2>1, <2>2, <2>3
<1>7. \/ dt = 0 /\ d = ds
      \/ dt > 0 /\ ds = a /\ d = a + dt
  BY <1>1
<1>8. (a + b) - d = (a - ds) + (b - dt)
  <2> HIDE DEF dt, d, ds
  <2> QED
    BY <1>0, <1>1, <1>7
<1>6. k - Len(u) = j
  BY <1>3
<1> HIDE DEF a, b, dt, j, ds, d, u, v, w
<1>9. /\ v \o u \in Seq(S) /\ Len(v \o u) = (a - ds) + (b - dt)
      /\ \A i \in 1..(a - ds) + (b - dt) :
           (v \o u)[i] = IF i <= a - ds THEN v[i] ELSE u[i - (a - ds)]
  <2>1. /\ v \o u \in Seq(S) /\ Len(v \o u) = Len(v) + Len(u)
        /\ \A i \in 1..Len(v) + Len(u) :
             (v \o u)[i] = IF i <= Len(v) THEN v[i] ELSE u[i - Len(v)]
    BY <1>3, <1>4, ConcatProperties
  <2> QED
    BY <1>3, <1>4, <2>1
<1>10. ASSUME NEW i \in 1..(a + b) - d PROVE w[i] = (v \o u)[i]
  <2>1. w[i] = IF i + d <= a THEN s[i + d] ELSE t[(i + d) - a]
    <3>1. i + d \in 1..a + b /\ i \in Nat
      BY <1>0, <1>1
    <3>2. w[i] = c[i + d]
      BY <1>5
    <3>3. c[i + d] = IF i + d <= a THEN s[i + d] ELSE t[(i + d) - a]
      BY <1>2, <3>1
    <3> QED
      BY <3>2, <3>3
  <2>2. CASE i <= a - ds
    <3>1. dt = 0 /\ d = ds /\ i + d <= a
      BY <1>0, <1>1, <1>7, <2>2
    <3>2. (v \o u)[i] = s[i + ds]
      BY <1>0, <1>1, <1>4, <1>8, <1>9, <2>2
    <3> QED
      BY <2>1, <3>1, <3>2
  <2>3. CASE ~(i <= a - ds)
    <3>1. ~(i + d <= a) /\ i - (a - ds) \in 1..b - dt /\ i \in Nat
          /\ (i + d) - a = (i - (a - ds)) + dt
      BY <1>0, <1>1, <1>7, <1>8, <2>3
    <3>2. (v \o u)[i] = t[(i - (a - ds)) + dt]
      BY <1>0, <1>1, <1>3, <1>8, <1>9, <2>3, <3>1
    <3> QED
      BY <2>1, <3>1, <3>2
  <2> QED
    BY <2>2, <2>3
<1>11. w = v \o u
  BY <1>5, <1>8, <1>9, <1>10, SeqEqual
<1> QED
  BY <1>6, <1>11 DEF u, v, w, c

-----------------------------------------------------------------------------
(* tail *)

(* The remainder ends at the end of a line, unless there is none.            *)
LEMMA RemainderIs ==
  ASSUME TypeOK, NEW to, Parts(to, Len(file)), NEW from \in Nat, from <= to
  PROVE  /\ Parts(Remainder(from, to), to)
         /\ Parts(Remainder(from, to), Len(file))
         /\ from <= Remainder(from, to)
         /\ from = 0 => Remainder(from, to) = 0
<1> DEFINE ends == {i \in from + 1..to : file[i].part # "head"}
           r == Remainder(from, to)
<1>1. to \in 0..Len(file) /\ Len(file) \in Nat
  BY DEF Parts, TypeOK
<1>2. CASE from = 0
  BY <1>1, <1>2 DEF Remainder, Parts
<1>3. CASE from # 0 /\ ends = {}
  <2>1. r = to
    BY <1>3 DEF Remainder
  <2> QED
    BY <1>1, <1>3, <2>1 DEF Parts
<1>4. CASE from # 0 /\ ends # {}
  <2>1. ends \in SUBSET Nat
    BY <1>1
  <2>2. r = CHOOSE i \in ends : \A j \in ends : i <= j
    BY <1>4 DEF Remainder
  <2> HIDE DEF ends, r
  <2>3. r \in ends
    BY <1>4, <2>1, <2>2, Smallest
  <2> QED
    BY <1>1, <1>4, <2>3 DEF Parts, ends, r
<1> QED
  BY <1>2, <1>3, <1>4

(* What tail has found, to the end of the last remainder.                    *)
Tailed(p, n, s) ==
  /\ s.remaining \in Nat /\ s.remaining <= s.to /\ Parts(s.to, Len(file))
  /\ s.remaining = 0 => s.to = 0
  /\ s.lines = LastOf(Matches(p, s.to, Len(file)), n)

(* A turn of the loop adds what is in a block, or is the last.               *)
LEMMA TailBlockIs ==
  ASSUME TypeOK, NEW p, NEW n \in Nat, NEW block \in Nat \ {0},
         NEW s, Tailed(p, n, s)
  PROVE  LET u == TailBlock(p, n, block, s)
         IN /\ Tailed(p, n, u)
            /\ \/ u.remaining = 0 \/ Len(u.lines) = n
               \/ u.remaining < s.remaining
<1> DEFINE from == IF s.remaining > block THEN s.remaining - block ELSE 0
           begin == Remainder(from, s.to)
           before == Matches(p, begin, s.to)
           after == Matches(p, s.to, Len(file))
           here == LastOf(before, n - Len(s.lines))
           u == TailBlock(p, n, block, s)
<1>1. CASE s.remaining = 0 \/ Len(s.lines) = n
  <2>1. u = s
    BY <1>1 DEF TailBlock
  <2> QED
    BY <1>1, <2>1
<1>2. CASE ~(s.remaining = 0 \/ Len(s.lines) = n)
  <2>1. u = [remaining |-> from, to |-> begin, lines |-> here \o s.lines]
    BY <1>2 DEF TailBlock
  <2>2. /\ s.remaining \in Nat /\ s.remaining <= s.to
        /\ Parts(s.to, Len(file)) /\ s.to \in 0..Len(file) /\ Len(file) \in Nat
        /\ s.lines = LastOf(after, n)
    BY DEF Tailed, Parts, TypeOK
  <2>3. from \in Nat /\ from < s.remaining /\ from <= s.to
    BY <1>2, <2>2
  <2> HIDE DEF from
  <2>4. /\ Parts(begin, s.to) /\ Parts(begin, Len(file)) /\ from <= begin
        /\ from = 0 => begin = 0
    BY <2>2, <2>3, RemainderIs
  <2> HIDE DEF begin
  <2>5. begin \in 0..s.to /\ s.to \in 0..Len(file) /\ Len(file) \in 0..Len(file)
    BY <2>2, <2>4 DEF Parts
  <2>6. before \in Seq(LineType) /\ after \in Seq(LineType)
    BY <2>5, MatchesType
  <2>7. Matches(p, begin, Len(file)) = before \o after
    BY <2>2, <2>5, MatchesSplit
  <2> HIDE DEF before, after
  <2>8. LastOf(before \o after, n) = here \o s.lines
    BY <2>2, <2>6, LastConcat
  <2> HIDE DEF here, u
  <2>9. /\ u.remaining = from /\ u.to = begin /\ u.lines = here \o s.lines
    BY <2>1
  <2>10. u.lines = LastOf(Matches(p, u.to, Len(file)), n)
    BY <2>7, <2>8, <2>9
  <2>11. Tailed(p, n, u) /\ u.remaining < s.remaining
    BY <2>3, <2>4, <2>9, <2>10 DEF Tailed
  <2> QED
    BY <2>11 DEF u
<1> QED
  BY <1>1, <1>2

(* tail returns the last lines, whatever the size of the blocks.             *)
LEMMA TailIs ==
  ASSUME TypeOK, NEW p, NEW n \in Nat, NEW block \in Nat \ {0}
  PROVE  TailLines(p, n, block) = LastOf(Matches(p, 0, Len(file)), n)
<1> DEFINE size == Len(file)
           end == [remaining |-> size, to |-> size, lines |-> <<>>]
           Turn(s) == TailBlock(p, n, block, s)
           Solved(k) ==
             \E g : g = [i \in 0..k |-> IF i = 0 THEN end ELSE Turn(g[i - 1])]
<1>1. size \in Nat
  BY DEF TypeOK
<1> HIDE DEF end, Turn
<1>2. Solved(0)
  <2>1. [i \in 0..0 |-> end] =
          [i \in 0..0 |->
            IF i = 0 THEN end ELSE Turn([j \in 0..0 |-> end][i - 1])]
    OBVIOUS
  <2> QED
    BY <2>1
<1>3. ASSUME NEW k \in 1..size, Solved(k - 1) PROVE Solved(k)
  <2>1. PICK g : g = [i \in 0..k - 1 |-> IF i = 0 THEN end ELSE Turn(g[i - 1])]
    BY <1>3
  <2> DEFINE h == [i \in 0..k |-> IF i = k THEN Turn(g[k - 1]) ELSE g[i]]
  <2>2. ASSUME NEW i \in 0..k
        PROVE  h[i] = IF i = 0 THEN end ELSE Turn(h[i - 1])
    <3>1. CASE i = k
      <4>1. k - 1 \in 0..k /\ k - 1 # k /\ k # 0 /\ k \in 0..k
        BY <1>1
      <4>2. h[k - 1] = g[k - 1]
        BY <4>1
      <4> QED
        BY <3>1, <4>1, <4>2
    <3>2. CASE i # k
      <4>1. i \in 0..k - 1
        BY <1>1, <2>2, <3>2
      <4>2. i # 0 => i - 1 \in 0..k /\ i - 1 # k
        BY <4>1
      <4>3. i # 0 => h[i - 1] = g[i - 1]
        BY <4>2
      <4>4. h[i] = g[i]
        BY <3>2
      <4> QED
        BY <2>1, <4>1, <4>3, <4>4
    <3> QED
      BY <3>1, <3>2
  <2> HIDE DEF h
  <2>3. h = [i \in 0..k |-> h[i]]
    BY DEF h
  <2>4. h = [i \in 0..k |-> IF i = 0 THEN end ELSE Turn(h[i - 1])]
    BY <2>2, <2>3
  <2> QED
    BY <2>4
<1>4. Solved(size)
  <2> DEFINE S == {k \in 0..size : Solved(k)}
  <2> HIDE DEF Solved
  <2>1. 0 \in S
    BY <1>1, <1>2
  <2>2. ASSUME NEW k \in 1..size, k - 1 \in S PROVE k \in S
    BY <1>1, <1>3, <2>2
  <2>3. size \in 0..size
    BY <1>1
  <2> HIDE DEF S
  <2>4. \A k \in 0..size : k \in S
    BY <1>1, <2>1, <2>2, Forwards
  <2> QED
    BY <2>3, <2>4 DEF S
<1> DEFINE after[i \in 0..size] == IF i = 0 THEN end ELSE Turn(after[i - 1])
<1>5. TailLines(p, n, block) = after[size].lines
  BY DEF TailLines, end, Turn
<1>6. after = CHOOSE g : g = [i \in 0..size |->
                IF i = 0 THEN end ELSE Turn(g[i - 1])]
  BY DEF after
<1>7. after = [i \in 0..size |-> IF i = 0 THEN end ELSE Turn(after[i - 1])]
  BY <1>4, <1>6
<1> HIDE DEF after
<1> DEFINE S == {i \in 0..size :
                   /\ Tailed(p, n, after[i])
                   /\ \/ after[i].remaining <= size - i
                      \/ Len(after[i].lines) = n}
<1>8. 0 \in S
  <2>1. after[0] = end
    BY <1>1, <1>7
  <2>2. Parts(size, size)
    BY <1>1 DEF Parts
  <2>3. Matches(p, size, size) = <<>>
    <3>1. size \in 0..size
      BY <1>1
    <3> QED
      BY <3>1, MatchesIs
  <2>4. LastOf(<<>>, n) = <<>>
    <3>1. LastOf(<<>>, n) = SubSeq(<<>>, 1, 0)
      BY DEF LastOf
    <3> QED
      BY <3>1, SubSeqEmpty
  <2> HIDE DEF size
  <2> QED
    BY <1>1, <2>1, <2>2, <2>3, <2>4 DEF Tailed, end, size
<1>9. ASSUME NEW i \in 1..size, i - 1 \in S PROVE i \in S
  <2>1. /\ Tailed(p, n, after[i - 1])
        /\ \/ after[i - 1].remaining <= size - (i - 1)
           \/ Len(after[i - 1].lines) = n
    BY <1>9
  <2>2. after[i] = TailBlock(p, n, block, after[i - 1])
    BY <1>1, <1>7 DEF Turn
  <2>3. /\ Tailed(p, n, after[i])
        /\ \/ after[i].remaining = 0 \/ Len(after[i].lines) = n
           \/ after[i].remaining < after[i - 1].remaining
    BY <2>1, <2>2, TailBlockIs
  <2>4. Len(after[i - 1].lines) = n => after[i] = after[i - 1]
    BY <2>2 DEF TailBlock
  <2>5. after[i].remaining \in Nat /\ after[i - 1].remaining \in Nat
    BY <2>1, <2>3 DEF Tailed
  <2> HIDE DEF size
  <2>6. after[i].remaining <= size - i \/ Len(after[i].lines) = n
    BY <1>1, <2>1, <2>3, <2>4, <2>5
  <2> QED
    BY <1>1, <2>3, <2>6
<1>10. size \in S
  <2> HIDE DEF S
  <2>1. \A i \in 0..size : i \in S
    BY <1>1, <1>8, <1>9, Forwards
  <2> QED
    BY <1>1, <2>1
<1> DEFINE s == after[size]
           all == Matches(p, 0, size)
<1>11. /\ Tailed(p, n, s)
       /\ s.remaining = 0 \/ Len(s.lines) = n
  <2>1. Tailed(p, n, s) /\ (s.remaining <= size - size \/ Len(s.lines) = n)
    BY <1>10
  <2>2. s.remaining \in Nat
    BY <2>1 DEF Tailed
  <2> QED
    BY <1>1, <2>1, <2>2
<1>12. CASE s.remaining = 0
  BY <1>5, <1>11, <1>12 DEF Tailed
<1>13. CASE Len(s.lines) = n
  <2> DEFINE x == Matches(p, 0, s.to)
             y == Matches(p, s.to, size)
  <2>1. /\ Parts(s.to, size) /\ s.to \in 0..size
        /\ s.lines = LastOf(y, n)
    BY <1>11 DEF Tailed, Parts
  <2>2. 0 \in 0..s.to /\ size \in 0..size /\ 0 \in 0..size
    BY <1>1, <2>1
  <2>3. x \in Seq(LineType) /\ y \in Seq(LineType)
    BY <2>1, <2>2, MatchesType
  <2>4. all = x \o y
    BY <2>1, <2>2, MatchesSplit
  <2> HIDE DEF x, y, all, s
  <2>5. LastOf(x \o y, n) = LastOf(x, n - n) \o s.lines
    <3>1. LastOf(x \o y, n) =
            LastOf(x, n - Len(LastOf(y, n))) \o LastOf(y, n)
      BY <2>3, LastConcat
    <3> QED
      BY <1>13, <2>1, <3>1
  <2>6. LastOf(x, n - n) = <<>>
    <3>1. n - n = 0 /\ 0 \in Nat
      OBVIOUS
    <3>2. LastOf(x, 0) \in Seq(LineType) /\ Len(LastOf(x, 0)) = 0
      BY <2>3, <3>1, LastOfIs
    <3> QED
      BY <3>1, <3>2, EmptySeq
  <2>7. s.lines \in Seq(LineType)
    BY <2>1, <2>3, LastOfIs
  <2> QED
    BY <1>5, <2>4, <2>5, <2>6, <2>7, ConcatEmptySeq DEF s, all
<1> QED
  BY <1>11, <1>12, <1>13

(* tail: in every state it returns the last of the lines that get_lines        *)
(* returns, for any number of lines, any size of the blocks and any pattern,  *)
(* wherever the blocks part the file.                                        *)
THEOREM TailCorrect ==
  Spec => [](/\ TailSound
             /\ \A p : \A n \in Nat, block \in Nat \ {0} :
                  TailLines(p, n, block) = LastOf(GetLines(p, 0, MaxPieces), n))
<1>1. ASSUME ReadInv, NEW p, NEW n \in Nat, NEW block \in Nat \ {0}
      PROVE  TailLines(p, n, block) = LastOf(GetLines(p, 0, MaxPieces), n)
  <2> DEFINE found == Matches(p, 0, Len(file))
  <2>1. TypeOK
    BY <1>1 DEF ReadInv
  <2>2. Len(file) \in Nat /\ Len(file) <= MaxPieces /\ MaxPieces \in Nat
    BY <2>1, ReaderAssumption DEF TypeOK
  <2>3. found \in Seq(LineType) /\ Len(found) <= Len(file) - 0
    BY <2>1, <2>2, MatchesType
  <2>4. TailLines(p, n, block) = LastOf(found, n)
    BY <2>1, TailIs
  <2>5. GetLines(p, 0, MaxPieces) =
          SubSeq(found, 1,
                 IF Len(found) < MaxPieces THEN Len(found) ELSE MaxPieces)
    BY DEF GetLines
  <2> HIDE DEF found
  <2>6. Len(found) \in Nat
    BY <2>3
  <2>7. (IF Len(found) < MaxPieces THEN Len(found) ELSE MaxPieces) = Len(found)
    BY <2>2, <2>3, <2>6
  <2>8. SubSeq(found, 1, Len(found)) = found
    BY <2>3, SubSeqFull
  <2> QED
    BY <2>4, <2>5, <2>7, <2>8
<1>2. ASSUME ReadInv PROVE TailSound
  <2>1. \A n \in 1..MaxPieces, block \in 1..2 :
          n \in Nat /\ block \in Nat \ {0}
    BY ReaderAssumption
  <2> QED
    BY <1>1, <1>2, <2>1 DEF TailSound
<1>3. ReadInv => /\ TailSound
                 /\ \A p : \A n \in Nat, block \in Nat \ {0} :
                      TailLines(p, n, block) =
                        LastOf(GetLines(p, 0, MaxPieces), n)
  BY <1>1, <1>2
<1> QED
  BY <1>3, ReadInvariance, PTL

-----------------------------------------------------------------------------
(* The service *)

Configs == [path : {None, "custom"}, clear : BOOLEAN]

Times == {NoTime, Recent} \cup Nat

ProcessType ==
  [state : {None, "starting", "attached", "ended"}, since : Times, next : Nat]
ObjType == [path : Paths \cup {None}, at : Nat]
ExcerptType == [on : BOOLEAN, from : Nat, taken : Seq(Nat)]

ServiceType ==
  /\ logged \in Nat /\ cleared \in Nat
  /\ pc \in {"idle", "opening", "dating"}
  /\ config \in Configs
  /\ path \in Paths \cup {None} /\ processor \in Paths \cup {None}
  /\ process \in ProcessType /\ obj \in ObjType
  /\ last \in Times
  /\ DOMAIN files \subseteq Paths /\ files \in [DOMAIN files -> Seq(Nat)]
  /\ written \in Seq(Nat) /\ owed \subseteq Nat
  /\ excerpt \in ExcerptType

(* What belongs together in the service and of its process. *)
Coherent ==
  /\ process.state = None => process = NoProcess
  /\ IsAlive => path # None /\ processor = path
  /\ process.state = "attached" => Exists(path)
  /\ pc = "dating" => ~IsAlive
  /\ last # Recent /\ process.since # NoTime
  /\ cleared <= logged
  /\ last <= logged /\ process.since <= logged

Written == ToSet(written)

(* Each line owed is written or still to come. *)
Owing ==
  /\ \A x \in owed : x <= logged /\ (x \in Written \/ cleared < x)
  /\ process.state = "attached" =>
       process.next <= logged + 1 /\ \A x \in owed : x \in Written \/ process.next <= x
  /\ process.state = "starting" =>
       \A x \in owed : x \in Written \/ (process.since # Recent /\ process.since < x)
  /\ process.state = "ended" => owed \subseteq Written
  /\ ~IsAlive =>
       \A x \in owed : x \in Written \/ (last # NoTime /\ last < x)

(* What was written does not come again. *)
Fresh ==
  /\ \A i, j \in DOMAIN written : i < j => written[i] < written[j]
  /\ \A x \in Written : x <= logged
  /\ process.state = "attached" => \A x \in Written : x < process.next
  /\ process.state = "starting" =>
       \A x \in Written : process.since # Recent /\ x <= process.since
  /\ ~IsAlive /\ last # NoTime => \A x \in Written : x <= last

(* The file object is at a place of the file the process writes. *)
Taken ==
  /\ excerpt.on <=> obj # NoFile
  /\ obj # NoFile =>
       /\ obj.path = path /\ Exists(path)
       /\ excerpt.from <= obj.at /\ obj.at <= Len(files[path])
       /\ excerpt.taken = SubSeq(files[path], excerpt.from + 1, obj.at)

Inv == ServiceType /\ Coherent /\ Owing /\ Fresh /\ Taken

-----------------------------------------------------------------------------
(* Records and sequences *)

(* The records that stand for nothing have their types. *)
LEMMA NothingTypes ==
  /\ NoProcess \in ProcessType /\ NoProcess.state = None
  /\ NoProcess.since = 0 /\ NoProcess.next = 1
  /\ NoFile \in ObjType /\ NoFile.path = None
  /\ NoExcerpt \in ExcerptType /\ ~NoExcerpt.on
  /\ NoTime = 0 - 2 /\ Recent = 0 - 1
BY DEF NoProcess, NoFile, NoExcerpt, ProcessType, ObjType, ExcerptType, Times,
       NoTime, Recent, Paths, None

(* A process that is alive is in one of three states. *)
LEMMA AliveState ==
  ASSUME ServiceType, Coherent
  PROVE  /\ IsAlive <=> process.state # None
         /\ process.state \in {None, "starting", "attached", "ended"}
         /\ process.since \in Times /\ process.next \in Nat
         /\ IsAlive => path \in Paths
<1>1. process.state = None <=> process = NoProcess
  BY NothingTypes DEF Coherent
<1> QED
  BY <1>1 DEF ServiceType, Coherent, ProcessType, IsAlive

(* A process in another state. *)
Moved(p, state, next) == [p EXCEPT !.state = state, !.next = next]

LEMMA ProcessMoved ==
  ASSUME NEW p \in ProcessType, NEW state \in {"starting", "attached", "ended"},
         NEW next \in Nat
  PROVE  /\ Moved(p, state, next) \in ProcessType
         /\ Moved(p, state, next).state = state
         /\ Moved(p, state, next).since = p.since
         /\ Moved(p, state, next).next = next
         /\ Moved(p, state, next) # NoProcess
<1> DEFINE q == Moved(p, state, next)
<1>1. /\ q \in ProcessType
      /\ q.state = state /\ q.since = p.since /\ q.next = next
  BY DEF ProcessType, Moved
<1>2. q.state # NoProcess.state
  BY <1>1, NothingTypes DEF None
<1> QED
  BY <1>1, <1>2

(* What is written once more is all that was and that line. *)
LEMMA WrittenMore ==
  ASSUME NEW s \in Seq(Nat), NEW x \in Nat
  PROVE  /\ Append(s, x) \in Seq(Nat)
         /\ ToSet(Append(s, x)) = ToSet(s) \cup {x}
         /\ (\A i, j \in DOMAIN s : i < j => s[i] < s[j])
              /\ (\A y \in ToSet(s) : y < x) =>
              \A i, j \in DOMAIN Append(s, x) :
                i < j => Append(s, x)[i] < Append(s, x)[j]
<1>1. PICK t \in Seq(Nat) :
        /\ t = Append(s, x) /\ Len(t) = Len(s) + 1
        /\ \A i \in 1..Len(s) : t[i] = s[i]
        /\ t[Len(s) + 1] = x
  <2>1. PICK t \in Seq(Nat) : t = Append(s, x)
    BY AppendProperties
  <2> QED
    BY <2>1, AppendProperties
<1>2. DOMAIN t = 1..Len(s) + 1 /\ DOMAIN s = 1..Len(s) /\ Len(s) \in Nat
  BY <1>1
<1>3. ToSet(t) = ToSet(s) \cup {x}
  <2>1. ASSUME NEW y \in ToSet(t) PROVE y \in ToSet(s) \cup {x}
    <3>1. PICK i \in 1..Len(s) + 1 : y = t[i]
      BY <1>2, <2>1 DEF ToSet
    <3>2. i \in 1..Len(s) \/ i = Len(s) + 1
      BY <1>2
    <3> QED
      BY <1>1, <1>2, <3>1, <3>2 DEF ToSet
  <2>2. ASSUME NEW y \in ToSet(s) PROVE y \in ToSet(t)
    <3>1. PICK i \in 1..Len(s) : y = s[i]
      BY <1>2, <2>2 DEF ToSet
    <3>2. i \in DOMAIN t /\ t[i] = y
      BY <1>1, <1>2, <3>1
    <3> QED
      BY <3>2 DEF ToSet
  <2>3. x \in ToSet(t)
    <3>1. Len(s) + 1 \in DOMAIN t
      BY <1>2
    <3> QED
      BY <1>1, <3>1 DEF ToSet
  <2> QED
    BY <2>1, <2>2, <2>3
<1>4. ASSUME \A i, j \in DOMAIN s : i < j => s[i] < s[j],
             \A y \in ToSet(s) : y < x,
             NEW i \in DOMAIN t, NEW j \in DOMAIN t, i < j
      PROVE  t[i] < t[j]
  <2>1. i \in 1..Len(s)
    BY <1>2, <1>4
  <2>2. t[i] = s[i] /\ s[i] \in ToSet(s) /\ i \in DOMAIN s
    BY <1>1, <1>2, <2>1 DEF ToSet
  <2>3. CASE j = Len(s) + 1
    BY <1>1, <1>4, <2>2, <2>3
  <2>4. CASE j \in 1..Len(s)
    BY <1>1, <1>2, <1>4, <2>2, <2>4
  <2> QED
    BY <1>2, <2>3, <2>4
<1> QED
  BY <1>1, <1>3, <1>4

(* A part of a sequence is the same when the sequence grows. *)
LEMMA PartStays ==
  ASSUME NEW s \in Seq(Nat), NEW x \in Nat, NEW m \in Nat, NEW n \in Nat,
         n <= Len(s)
  PROVE  SubSeq(Append(s, x), m + 1, n) = SubSeq(s, m + 1, n)
<1>1. PICK k \in Nat : k = m + 1
  OBVIOUS
<1>2. CASE n < k
  BY <1>1, <1>2, SubSeqEmpty
<1>3. CASE k <= n
  <2>1. Append(s, x) = s \o <<x>> /\ <<x>> \in Seq(Nat)
    BY AppendIsConcat
  <2>2. k \in 1..Len(s) /\ n \in 1..Len(s)
    BY <1>1, <1>3
  <2>3. \A t \in Seq(Nat) : SubSeq(s \o t, k, n) = SubSeq(s, k, n)
    BY <2>2, SubSeqOfConcat1
  <2> QED
    BY <1>1, <2>1, <2>3
<1> QED
  BY <1>1, <1>2, <1>3

-----------------------------------------------------------------------------
(* The device, adb and the process *)

(* A line that is logged is owed only if someone will ask for it. *)
LEMMA LogsKeep ==
  ASSUME Inv, DeviceLogs
  PROVE  Inv'
<1> USE DEF Inv
<1>1. /\ logged' = logged + 1 /\ logged \in Nat
      /\ owed' = IF Followed THEN owed \cup {logged + 1} ELSE owed
      /\ UNCHANGED <<cleared, pc, config, path, processor, process, obj, last,
                     files, written, excerpt>>
  BY DEF DeviceLogs, ServiceType
<1>2. ServiceType'
  BY <1>1 DEF ServiceType, Exists
<1>3. Coherent'
  <2>1. process.since \in Int /\ last \in Int /\ cleared \in Nat
    BY AliveState, NothingTypes DEF ServiceType, Times
  <2> QED
    BY <1>1, <2>1 DEF Coherent, IsAlive, Exists
<1>4. Owing'
  <2>1. /\ process.since \in Int /\ last \in Int /\ cleared \in Nat
        /\ process.next \in Nat
        /\ \A x \in owed : x \in Nat
    BY AliveState, NothingTypes DEF ServiceType, Times
  <2>2. process.since <= logged /\ last <= logged /\ cleared <= logged
    BY DEF Coherent
  <2>3. Written' = Written /\ (IsAlive' <=> IsAlive)
    BY <1>1 DEF Written, IsAlive
  <2>4. \A x \in owed' : x \in owed \/ (x = logged + 1 /\ Followed)
    BY <1>1
  <2>5. \A x \in owed' : x <= logged' /\ (x \in Written' \/ cleared' < x)
    BY <1>1, <2>1, <2>2, <2>3, <2>4 DEF Owing
  <2>6. process.state = "attached" =>
          /\ process.next <= logged + 2
          /\ \A x \in owed' : x \in Written \/ process.next <= x
    BY <1>1, <2>1, <2>4 DEF Owing
  <2>7. process.state = "starting" =>
          \A x \in owed' : x \in Written \/ (process.since # Recent /\ process.since < x)
    BY <1>1, <2>1, <2>2, <2>4, AliveState DEF Owing, Followed, None
  <2>8. process.state = "ended" => owed' \subseteq Written
    BY <2>4, AliveState DEF Owing, Followed, None
  <2>9. ~IsAlive =>
          \A x \in owed' : x \in Written \/ (last # NoTime /\ last < x)
    BY <1>1, <2>1, <2>2, <2>4, AliveState DEF Owing, Followed, None
  <2> QED
    BY <1>1, <2>1, <2>3, <2>5, <2>6, <2>7, <2>8, <2>9 DEF Owing
<1>5. Fresh'
  <2>1. \A x \in Written : x \in Nat
    BY DEF ServiceType, Written, ToSet
  <2> QED
    BY <1>1, <2>1 DEF Fresh, IsAlive, Written
<1>6. Taken'
  BY <1>1 DEF Taken, Exists
<1> QED
  BY <1>2, <1>3, <1>4, <1>5, <1>6

(* The shell makes the file of the process, which no file object has open. *)
LEMMA OpensKeeps ==
  ASSUME Inv, ShellOpens
  PROVE  Inv'
<1> USE DEF Inv
<1>1. /\ IsAlive /\ ~Exists(path) /\ path \in Paths
      /\ files' = [p \in DOMAIN files \cup {path} |->
                     IF p = path THEN <<>> ELSE files[p]]
      /\ UNCHANGED <<logged, cleared, pc, config, path, processor, process, obj,
                     last, written, owed, excerpt>>
  BY AliveState DEF ShellOpens, device, history
<1>2. DOMAIN files' = DOMAIN files \cup {path}
  BY <1>1
<1>3. ServiceType'
  <2>1. files' \in [DOMAIN files' -> Seq(Nat)]
    BY <1>1, <1>2 DEF ServiceType
  <2> QED
    BY <1>1, <1>2, <2>1 DEF ServiceType
<1>4. Coherent'
  BY <1>1, <1>2 DEF Coherent, IsAlive, Exists
<1>5. Owing' /\ Fresh'
  BY <1>1 DEF Owing, Fresh, IsAlive, Written
<1>6. Taken'
  BY <1>1 DEF Taken
<1> QED
  BY <1>3, <1>4, <1>5, <1>6

(* The process begins after what was written and before what is owed. *)
LEMMA AttachKeeps ==
  ASSUME Inv, Attach
  PROVE  Inv'
<1> USE DEF Inv
<1> DEFINE first == FirstLine(process.since)
<1>1. /\ process.state = "starting" /\ Exists(path)
      /\ process' = [process EXCEPT !.state = "attached", !.next = first]
      /\ owed' = owed \cup first..logged
      /\ UNCHANGED <<logged, cleared, pc, config, path, processor, obj, last,
                     files, written, excerpt>>
  BY DEF Attach, device
<1>2. /\ process.since \in Int /\ process.since <= logged /\ logged \in Nat
      /\ cleared \in Nat /\ cleared <= logged
      /\ process.since = Recent \/ process.since \in Nat
      /\ IsAlive
  <2>1. /\ process.since \in Times /\ process.since # NoTime
        /\ process.since <= logged /\ cleared <= logged
        /\ logged \in Nat /\ cleared \in Nat
    BY AliveState DEF ServiceType, Coherent
  <2>2. IsAlive
    BY <1>1, AliveState DEF None
  <2> QED
    BY <2>1, <2>2, NothingTypes DEF Times
<1>3. /\ first \in Nat /\ first <= logged + 1 /\ cleared < first
      /\ process.since # Recent =>
           /\ process.since < first
           /\ \A x \in Nat : process.since < x /\ cleared < x => first <= x
  BY <1>2 DEF FirstLine
<1> HIDE DEF first
<1>4. /\ process' \in ProcessType /\ process'.state = "attached"
      /\ process'.since = process.since /\ process'.next = first
      /\ process' # NoProcess
  <2>1. process' = Moved(process, "attached", first) /\ process \in ProcessType
    BY <1>1 DEF Moved, ServiceType
  <2>2. first \in Nat
    BY <1>3
  <2> QED
    BY <2>1, <2>2, ProcessMoved
<1>5. ServiceType'
  BY <1>1, <1>3, <1>4 DEF ServiceType
<1>6. Coherent'
  BY <1>1, <1>2, <1>4 DEF Coherent, IsAlive, Exists, None
<1>7. Owing'
  <2>1. ASSUME NEW x \in owed'
        PROVE  /\ x <= logged /\ (x \in Written \/ cleared < x)
               /\ x \in Written \/ first <= x
    <3>1. CASE x \in owed
      <4>1. /\ x \in Nat /\ x <= logged /\ (x \in Written \/ cleared < x)
            /\ x \in Written \/ (process.since # Recent /\ process.since < x)
        BY <1>1, <3>1 DEF Owing, ServiceType
      <4> QED
        BY <1>3, <4>1
    <3>2. CASE x \in first..logged
      BY <1>2, <1>3, <3>2
    <3> QED
      BY <1>1, <2>1, <3>1, <3>2
  <2> QED
    BY <1>1, <1>3, <1>4, <2>1 DEF Owing, IsAlive, Written, None
<1>8. Fresh'
  <2>1. \A x \in Written : x \in Nat
    BY DEF ServiceType, Written, ToSet
  <2>2. \A x \in Written : x < first
    BY <1>1, <1>2, <1>3, <2>1 DEF Fresh
  <2> QED
    BY <1>1, <1>4, <2>2 DEF Fresh, IsAlive, Written, None
<1>9. Taken'
  BY <1>1 DEF Taken, Exists
<1> QED
  BY <1>5, <1>6, <1>7, <1>8, <1>9

(* The process writes the next line, which was not written. *)
LEMMA WritesKeep ==
  ASSUME Inv, ProcessWrites
  PROVE  Inv'
<1> USE DEF Inv
<1> DEFINE n == process.next
<1>1. /\ process.state = "attached" /\ n <= logged
      /\ files' = [files EXCEPT ![path] = Append(@, n)]
      /\ written' = Append(written, n)
      /\ process' = [process EXCEPT !.next = @ + 1]
      /\ UNCHANGED <<logged, cleared, pc, config, path, processor, obj, last,
                     owed, excerpt>>
  BY DEF ProcessWrites, device
<1>2. /\ n \in Nat /\ process \in ProcessType /\ path \in DOMAIN files
      /\ files[path] \in Seq(Nat) /\ IsAlive /\ logged \in Nat
  BY <1>1, AliveState DEF ServiceType, Coherent, Exists, None
<1> HIDE DEF n
<1>3. /\ process' \in ProcessType /\ process'.state = "attached"
      /\ process'.since = process.since /\ process'.next = n + 1
      /\ process' # NoProcess
  <2>1. process' = [process EXCEPT !.next = n + 1] /\ n + 1 \in Nat
    BY <1>1, <1>2 DEF n
  <2>2. /\ process' \in ProcessType /\ process'.state = "attached"
        /\ process'.since = process.since /\ process'.next = n + 1
    BY <1>1, <1>2, <2>1 DEF ProcessType
  <2>3. process'.state # NoProcess.state
    BY <2>2, NothingTypes DEF None
  <2> QED
    BY <2>2, <2>3
<1>4. /\ written' \in Seq(Nat) /\ Written' = Written \cup {n}
      /\ \A y \in Written : y < n
      /\ \A i, j \in DOMAIN written' : i < j => written'[i] < written'[j]
  <2>1. /\ \A i, j \in DOMAIN written : i < j => written[i] < written[j]
        /\ \A y \in Written : y < n
    BY <1>1 DEF Fresh, n
  <2> QED
    BY <1>1, <1>2, <2>1, WrittenMore DEF ServiceType, Written
<1>5. /\ DOMAIN files' = DOMAIN files
      /\ files'[path] = Append(files[path], n)
      /\ \A p \in DOMAIN files : p # path => files'[p] = files[p]
      /\ files' \in [DOMAIN files -> Seq(Nat)]
  BY <1>1, <1>2, WrittenMore DEF ServiceType
<1>6. ServiceType'
  BY <1>1, <1>3, <1>4, <1>5 DEF ServiceType
<1>7. Coherent'
  BY <1>1, <1>2, <1>3, <1>5 DEF Coherent, IsAlive, Exists, None
<1>8. Owing'
  <2>1. ASSUME NEW x \in owed
        PROVE  /\ x <= logged /\ (x \in Written' \/ cleared < x)
               /\ x \in Written' \/ n + 1 <= x
    <3>1. /\ x \in Nat /\ x <= logged /\ (x \in Written \/ cleared < x)
          /\ x \in Written \/ n <= x
      BY <1>1 DEF Owing, ServiceType, n
    <3> QED
      BY <1>2, <1>4, <3>1
  <2> QED
    BY <1>1, <1>2, <1>3, <2>1 DEF Owing, IsAlive, None
<1>9. Fresh'
  <2>1. \A x \in Written' : x < n + 1 /\ x <= logged
    <3>1. \A x \in Written : x \in Nat
      BY DEF ServiceType, Written, ToSet
    <3> QED
      BY <1>1, <1>2, <1>4, <3>1
  <2> QED
    BY <1>1, <1>3, <1>4, <2>1 DEF Fresh, IsAlive, None
<1>10. Taken'
  <2>1. CASE obj = NoFile
    BY <1>1, <2>1 DEF Taken
  <2>2. CASE obj # NoFile
    <3>1. /\ excerpt.from \in Nat /\ obj.at \in Nat
          /\ obj.path = path /\ excerpt.from <= obj.at
          /\ obj.at <= Len(files[path])
          /\ excerpt.taken = SubSeq(files[path], excerpt.from + 1, obj.at)
      BY <2>2 DEF Taken, ServiceType, ObjType, ExcerptType
    <3>2. SubSeq(files'[path], excerpt.from + 1, obj.at) = excerpt.taken
      <4>1. PICK f \in Seq(Nat) : f = files[path]
        BY <1>2
      <4>2. SubSeq(Append(f, n), excerpt.from + 1, obj.at)
              = SubSeq(f, excerpt.from + 1, obj.at)
        BY <1>2, <3>1, <4>1, PartStays
      <4> QED
        BY <1>5, <3>1, <4>1, <4>2
    <3>3. obj.at <= Len(files'[path])
      <4>1. Len(files'[path]) = Len(files[path]) + 1
        BY <1>2, <1>5, AppendProperties
      <4> QED
        BY <1>2, <3>1, <4>1
    <3> QED
      BY <1>1, <1>5, <2>2, <3>1, <3>2, <3>3 DEF Taken, Exists
  <2> QED
    BY <2>1, <2>2
<1> QED
  BY <1>6, <1>7, <1>8, <1>9, <1>10

(* What a process that ends has not written is owed no more. *)
LEMMA DiesKeeps ==
  ASSUME Inv, AdbDies
  PROVE  Inv'
<1> USE DEF Inv
<1>1. /\ process.state \in {"starting", "attached"}
      /\ process' = [process EXCEPT !.state = "ended"]
      /\ owed' = owed \cap Written
      /\ UNCHANGED <<logged, cleared, pc, config, path, processor, obj, last,
                     files, written, excerpt>>
  BY DEF AdbDies, device, Written
<1>2. /\ process \in ProcessType /\ IsAlive /\ process.next \in Nat
  BY <1>1, AliveState DEF ServiceType, None
<1>3. /\ process' \in ProcessType /\ process'.state = "ended"
      /\ process'.since = process.since /\ process' # NoProcess
  <2>1. process' = Moved(process, "ended", process.next)
    BY <1>1, <1>2 DEF ProcessType, Moved
  <2> QED
    BY <1>2, <2>1, ProcessMoved
<1>4. ServiceType'
  BY <1>1, <1>3 DEF ServiceType
<1>5. Coherent'
  BY <1>1, <1>2, <1>3 DEF Coherent, IsAlive, Exists, None
<1>6. Owing' /\ Fresh'
  BY <1>1, <1>3 DEF Owing, Fresh, IsAlive, Written, None
<1>7. Taken'
  BY <1>1 DEF Taken, Exists
<1> QED
  BY <1>4, <1>5, <1>6, <1>7

-----------------------------------------------------------------------------
(* The methods *)

(* A process is started, by start or by resume, and nothing else is done. *)
LEMMA StartKeeps ==
  ASSUME Inv, ~IsAlive, pc = "idle", NEW op \in {"start", "resume"},
         StartProcess(op), pc' \in {"idle", "opening"}
  PROVE  Inv'
<1> USE DEF Inv
<1> DEFINE begin == TimeArgument
           begun == [state |-> "starting", since |-> begin, next |-> 1]
<1>1. /\ path' = LogPath /\ processor' = LogPath
      /\ process' = begun /\ last' = NoTime
      /\ cleared' = (IF op = "start" /\ config.clear THEN logged ELSE cleared)
      /\ UNCHANGED <<logged, config, files>>
  BY DEF StartProcess, Locate, Cleared
<1>2. /\ config.path # None => obj' = NoFile /\ excerpt' = NoExcerpt
      /\ config.path = None => UNCHANGED <<obj, excerpt>>
  BY DEF StartProcess, Locate, Close
<1>3. \/ written' = <<>> /\ owed' = {}
      \/ op # "start" /\ begin # Recent /\ UNCHANGED <<written, owed>>
  BY DEF StartProcess
<1>4. /\ LogPath \in Paths
      /\ config.path = None /\ path # None => LogPath = path
  BY DEF LogPath, Paths, ServiceType, Configs, None
<1>5. /\ begin \in Times /\ begin # NoTime /\ begin <= logged
      /\ begin # Recent => last = begin
      /\ logged \in Nat /\ cleared \in Nat /\ cleared <= logged
  <2>1. last \in Times /\ last # Recent /\ last <= logged
    BY DEF ServiceType, Coherent
  <2>2. logged \in Nat /\ cleared \in Nat /\ cleared <= logged
    BY DEF ServiceType, Coherent
  <2> QED
    BY <2>1, <2>2, NothingTypes DEF TimeArgument, Times
<1> HIDE DEF begin
<1>6. /\ begun \in ProcessType /\ begun.state = "starting"
      /\ begun.since = begin
  BY <1>5 DEF ProcessType
<1> HIDE DEF begun
<1>7. begun # NoProcess
  BY <1>6, NothingTypes DEF None
<1>8. ServiceType'
  <2>1. obj' \in ObjType /\ excerpt' \in ExcerptType
    BY <1>2, NothingTypes DEF ServiceType
  <2>2. written' \in Seq(Nat) /\ owed' \subseteq Nat
    <3>1. <<>> \in Seq(Nat) /\ written \in Seq(Nat) /\ owed \subseteq Nat
      BY DEF ServiceType
    <3> QED
      BY <1>3, <3>1
  <2>3. cleared' \in Nat /\ last' \in Times
    BY <1>1, <1>5 DEF Times
  <2> QED
    BY <1>1, <1>4, <1>6, <2>1, <2>2, <2>3 DEF ServiceType
<1>9. Coherent'
  <2>1. process'.state = "starting" /\ process'.since = begin
    BY <1>1, <1>6
  <2>2. cleared' <= logged' /\ last' <= logged'
    BY <1>1, <1>5, NothingTypes
  <2> QED
    BY <1>1, <1>4, <1>5, <2>1, <2>2, NothingTypes DEF Coherent, Paths, None
<1>10. Owing'
  <2>1. process'.state = "starting" /\ process'.since = begin /\ IsAlive'
    BY <1>1, <1>6, <1>7 DEF IsAlive
  <2>2. CASE written' = <<>> /\ owed' = {}
    BY <2>1, <2>2 DEF Owing
  <2>3. CASE op # "start" /\ begin # Recent /\ UNCHANGED <<written, owed>>
    <3>1. cleared' = cleared /\ logged' = logged /\ Written' = Written
      BY <1>1, <2>3 DEF Written
    <3>2. \A x \in owed : /\ x <= logged /\ (x \in Written \/ cleared < x)
                          /\ x \in Written \/ begin < x
      BY <1>5, <2>3 DEF Owing
    <3> QED
      BY <2>1, <2>3, <3>1, <3>2 DEF Owing
  <2> QED
    BY <1>3, <2>2, <2>3
<1>11. Fresh'
  <2>1. process'.state = "starting" /\ process'.since = begin /\ IsAlive'
    BY <1>1, <1>6, <1>7 DEF IsAlive
  <2>2. CASE written' = <<>> /\ owed' = {}
    <3>1. Written' = {} /\ DOMAIN written' = {}
      BY <2>2 DEF Written, ToSet
    <3> QED
      BY <2>1, <3>1 DEF Fresh
  <2>3. CASE op # "start" /\ begin # Recent /\ UNCHANGED <<written, owed>>
    <3>1. logged' = logged /\ Written' = Written
      BY <1>1, <2>3 DEF Written
    <3>2. \A x \in Written : x <= begin
      BY <1>5, <2>3 DEF Fresh
    <3> QED
      BY <2>1, <2>3, <3>1, <3>2 DEF Fresh
  <2> QED
    BY <1>3, <2>2, <2>3
<1>12. Taken'
  <2>1. CASE config.path # None
    BY <1>2, <2>1, NothingTypes DEF Taken
  <2>2. CASE config.path = None
    <3>1. CASE obj = NoFile
      BY <1>2, <2>2, <3>1 DEF Taken
    <3>2. CASE obj # NoFile
      <4>1. path # None
        BY <3>2 DEF Taken, ServiceType, Exists, Paths, None
      <4> QED
        BY <1>1, <1>2, <1>4, <2>2, <3>2, <4>1 DEF Taken, Exists
    <3> QED
      BY <3>1, <3>2
  <2> QED
    BY <2>1, <2>2
<1> QED
  BY <1>8, <1>9, <1>10, <1>11, <1>12

(* A start that fails leaves the service without a process; what start cleared *)
(* is owed no more, nor anything once the time noted by pause is gone.        *)
LEMMA FailKeeps ==
  ASSUME Inv, NEW op \in {"start", "resume"},
         NEW at \in {"logpersist", "directory", "process"}, StartRaises(op, at)
  PROVE  Inv'
<1> USE DEF Inv
<1>1. /\ ~IsAlive /\ UNCHANGED <<logged, pc, config, process, files, written>>
      /\ last' = (IF at = "process" THEN NoTime ELSE last)
      /\ cleared' = (IF op = "start" /\ config.clear THEN logged ELSE cleared)
      /\ owed' = {n \in owed : n \in Written \/ (last' # NoTime /\ cleared' < n)}
  BY DEF StartRaises, Cleared, Written
<1>2. \/ UNCHANGED <<path, processor, obj, excerpt>>
      \/ path' = LogPath /\ config.path # None /\ obj' = NoFile /\ excerpt' = NoExcerpt
      \/ path' = LogPath /\ config.path = None /\ UNCHANGED <<obj, excerpt>>
  BY DEF StartRaises, Locate, Close
<1>3. processor' \in {processor, LogPath}
  BY DEF StartRaises, Locate
<1>4. /\ LogPath \in Paths
      /\ config.path = None /\ path # None => LogPath = path
  BY DEF LogPath, Paths, ServiceType, Configs, None
<1>5. /\ ~IsAlive' /\ process.state = None /\ process' = process
      /\ Written' = Written
  BY <1>1, AliveState DEF IsAlive, Written
<1>6. /\ last' \in Times /\ last' # Recent /\ last' <= logged
      /\ last' # NoTime => last' = last
      /\ logged \in Nat /\ cleared' \in Nat /\ cleared' <= logged
  <2>1. last \in Times /\ last # Recent /\ last <= logged
    BY DEF ServiceType, Coherent
  <2>2. logged \in Nat /\ cleared \in Nat /\ cleared <= logged
    BY DEF ServiceType, Coherent
  <2> QED
    BY <1>1, <2>1, <2>2, NothingTypes DEF Times
<1>7. ServiceType'
  <2>1. obj' \in ObjType /\ excerpt' \in ExcerptType
    BY <1>2, NothingTypes DEF ServiceType
  <2>2. path' \in Paths \cup {None} /\ processor' \in Paths \cup {None}
    BY <1>2, <1>3, <1>4 DEF ServiceType
  <2>3. owed' \subseteq Nat
    BY <1>1 DEF ServiceType
  <2> QED
    BY <1>1, <1>6, <2>1, <2>2, <2>3 DEF ServiceType
<1>8. Coherent'
  BY <1>1, <1>5, <1>6 DEF Coherent, None
<1>9. Owing'
  <2>1. \A x \in owed' : x <= logged /\ (x \in Written \/ cleared' < x)
    BY <1>1 DEF Owing
  <2>2. \A x \in owed' : x \in Written \/ (last' # NoTime /\ last' < x)
    BY <1>1, <1>6 DEF Owing
  <2> QED
    BY <1>1, <1>5, <2>1, <2>2 DEF Owing, None
<1>10. Fresh'
  BY <1>1, <1>5, <1>6 DEF Fresh, None
<1>11. Taken'
  <2>1. CASE UNCHANGED <<path, processor, obj, excerpt>>
    BY <1>1, <2>1 DEF Taken, Exists
  <2>2. CASE obj' = NoFile /\ excerpt' = NoExcerpt
    BY <2>2, NothingTypes DEF Taken
  <2>3. CASE path' = LogPath /\ config.path = None /\ UNCHANGED <<obj, excerpt>>
    <3>1. obj # NoFile => path # None
      BY DEF Taken, ServiceType, Exists, Paths, None
    <3> QED
      BY <1>1, <1>4, <2>3, <3>1 DEF Taken, Exists
  <2> QED
    BY <1>2, <2>1, <2>2, <2>3
<1> QED
  BY <1>7, <1>8, <1>9, <1>10, <1>11

(* The process is gone, the file object may be, and pause is to ask the time. *)
LEMMA StopKeeps ==
  ASSUME Inv, pc = "idle", StopProcess, pc' \in {"idle", "dating"},
         Close \/ UNCHANGED <<obj, excerpt>>
  PROVE  Inv'
<1> USE DEF Inv
<1>1. /\ process' = NoProcess
      /\ last' = IF IsAlive THEN NoTime ELSE last
      /\ owed' = IF IsAlive THEN owed \cap Written ELSE owed
      /\ UNCHANGED <<logged, cleared, config, path, processor, files, written>>
  BY DEF StopProcess, device, Written
<1>2. ~IsAlive' /\ process'.state = None /\ process'.since = 0
  BY <1>1, NothingTypes DEF IsAlive
<1>3. ServiceType'
  <2>1. obj' \in ObjType /\ excerpt' \in ExcerptType
    BY NothingTypes DEF ServiceType, Close
  <2>2. last' \in Times
    BY <1>1 DEF ServiceType, Times
  <2> QED
    BY <1>1, <2>1, <2>2, NothingTypes DEF ServiceType
<1>4. Coherent'
  <2>1. last' # Recent /\ last' <= logged /\ 0 <= logged /\ logged \in Nat
    BY <1>1, NothingTypes DEF Coherent, ServiceType
  <2> QED
    BY <1>1, <1>2, <2>1, NothingTypes DEF Coherent, None
<1>5. Owing'
  <2>1. Written' = Written
    BY <1>1 DEF Written
  <2>2. \A x \in owed' : x \in owed
    BY <1>1
  <2>3. \A x \in owed' : x \in Written \/ (last' # NoTime /\ last' < x)
    <3>1. CASE IsAlive
      BY <1>1, <3>1
    <3>2. CASE ~IsAlive
      BY <1>1, <3>2 DEF Owing
    <3> QED
      BY <3>1, <3>2
  <2> QED
    BY <1>1, <1>2, <2>1, <2>2, <2>3 DEF Owing, None
<1>6. Fresh'
  <2>1. Written' = Written
    BY <1>1 DEF Written
  <2> QED
    BY <1>1, <1>2, <2>1 DEF Fresh, None
<1>7. Taken'
  <2>1. CASE Close
    BY <2>1, NothingTypes DEF Close, Taken
  <2>2. CASE UNCHANGED <<obj, excerpt>>
    BY <1>1, <2>2 DEF Taken, Exists
  <2> QED
    BY <2>1, <2>2
<1> QED
  BY <1>3, <1>4, <1>5, <1>6, <1>7

(* The time that is noted is after what was written.  What the process left   *)
(* unwritten is owed no more, unless the time could not be had.              *)
LEMMA NotesKeep ==
  ASSUME Inv, NEW fails \in BOOLEAN, NoteTime(fails)
  PROVE  Inv'
<1> USE DEF Inv
<1>1. /\ pc = "dating" /\ pc' = "idle"
      /\ last' = IF fails THEN last ELSE logged
      /\ owed' = IF fails THEN owed ELSE owed \cap Written
      /\ UNCHANGED <<logged, cleared, config, path, processor, process, obj,
                     files, written, excerpt>>
  BY DEF NoteTime, device, Written
<1>2. /\ ~IsAlive /\ process.state = None /\ ~IsAlive'
      /\ logged \in Nat /\ Written' = Written
  BY <1>1, AliveState DEF Coherent, ServiceType, IsAlive, Written
<1>3. ServiceType'
  <2>1. last' \in Times
    BY <1>1 DEF ServiceType, Times
  <2> QED
    BY <1>1, <2>1 DEF ServiceType
<1>4. Coherent'
  <2>1. last' # Recent /\ last' <= logged
    BY <1>1, <1>2, NothingTypes DEF Coherent
  <2> QED
    BY <1>1, <1>2, <2>1 DEF Coherent, IsAlive, Exists
<1>5. Owing'
  <2>1. \A x \in owed' : x \in Written \/ (last' # NoTime /\ last' < x)
    BY <1>1, <1>2 DEF Owing
  <2> QED
    BY <1>1, <1>2, <2>1 DEF Owing, None
<1>6. Fresh'
  BY <1>1, <1>2 DEF Fresh, None
<1>7. Taken'
  BY <1>1 DEF Taken, Exists
<1> QED
  BY <1>3, <1>4, <1>5, <1>6, <1>7

(* The file object is opened at the end of the file, unless there is one. *)
LEMMA OpenKeeps ==
  ASSUME Inv, OpenFile
  PROVE  Inv'
<1> USE DEF Inv
<1>1. /\ pc' = "idle" /\ (obj # NoFile \/ Exists(path))
      /\ obj' = IF obj = NoFile THEN [path |-> path, at |-> Len(files[path])] ELSE obj
      /\ excerpt' = IF excerpt.on THEN excerpt
                    ELSE [on |-> TRUE, from |-> Len(files[path]), taken |-> <<>>]
      /\ UNCHANGED <<logged, cleared, config, path, processor, process, last,
                     files, written, owed>>
  BY DEF OpenFile, Opened, device
<1>2. CASE obj # NoFile
  <2>1. UNCHANGED <<obj, excerpt>>
    BY <1>1, <1>2 DEF Taken
  <2>2. Taken'
    BY <1>1, <2>1 DEF Taken, Exists
  <2>3. ServiceType'
    BY <1>1, <2>1 DEF ServiceType
  <2> QED
    BY <1>1, <2>2, <2>3 DEF Coherent, Owing, Fresh, IsAlive, Exists, Written
<1>3. CASE obj = NoFile
  <2>1. /\ Exists(path) /\ path \in Paths /\ files[path] \in Seq(Nat)
    BY <1>1, <1>3 DEF ServiceType, Exists
  <2>2. PICK n \in Nat : n = Len(files[path])
    BY <2>1
  <2>3. /\ obj' = [path |-> path, at |-> n]
        /\ excerpt' = [on |-> TRUE, from |-> n, taken |-> <<>>]
    BY <1>1, <1>3, <2>2 DEF Taken
  <2>4. /\ obj' \in ObjType /\ obj'.path = path /\ obj'.at = n
        /\ excerpt' \in ExcerptType /\ excerpt'.on /\ excerpt'.from = n
        /\ excerpt'.taken = <<>>
    BY <2>1, <2>3 DEF ObjType, ExcerptType
  <2>5. SubSeq(files[path], n + 1, n) = <<>>
    BY SubSeqEmpty
  <2>6. obj' # NoFile
    BY <2>1, <2>4, NothingTypes DEF Paths, None
  <2>7. Taken'
    BY <1>1, <2>1, <2>2, <2>4, <2>5, <2>6 DEF Taken, Exists
  <2>8. ServiceType'
    BY <1>1, <2>4 DEF ServiceType
  <2> QED
    BY <1>1, <2>7, <2>8 DEF Coherent, Owing, Fresh, IsAlive, Exists, Written
<1> QED
  BY <1>2, <1>3

(* An excerpt takes what the file got since the last. *)
LEMMA ExcerptKeeps ==
  ASSUME Inv, CreateOutputExcerpts
  PROVE  Inv'
<1> USE DEF Inv
<1> DEFINE end == Len(files[obj.path])
<1>1. /\ obj # NoFile /\ obj' = [obj EXCEPT !.at = end]
      /\ excerpt' = [excerpt EXCEPT
           !.taken = @ \o SubSeq(files[obj.path], obj.at + 1, end)]
      /\ UNCHANGED <<logged, cleared, pc, config, path, processor, process, last,
                     files, written, owed>>
  BY DEF CreateOutputExcerpts, device
<1>2. /\ obj.path = path /\ Exists(path) /\ excerpt.on
      /\ excerpt.from <= obj.at /\ obj.at <= end
      /\ excerpt.taken = SubSeq(files[path], excerpt.from + 1, obj.at)
      /\ excerpt.from \in Nat /\ obj.at \in Nat /\ path \in Paths
      /\ obj \in ObjType /\ excerpt \in ExcerptType
  BY <1>1 DEF Taken, ServiceType, ObjType, ExcerptType, Exists
<1>3. PICK f \in Seq(Nat) : f = files[path]
  BY <1>2 DEF ServiceType, Exists
<1>4. end = Len(f) /\ end \in Nat
  BY <1>2, <1>3
<1> HIDE DEF end
<1>5. PICK m \in Nat : m = excerpt.from + 1
  BY <1>2
<1>6. SubSeq(f, m, obj.at) \o SubSeq(f, obj.at + 1, end) = SubSeq(f, m, end)
  <2>1. m \in 1..Len(f) + 1 /\ obj.at \in m - 1..Len(f) /\ end \in obj.at..Len(f)
    BY <1>2, <1>4, <1>5
  <2> QED
    BY <2>1, ConcatAdjacentSubSeq
<1>7. PICK all \in Seq(Nat) : all = SubSeq(f, m, end)
  <2>1. \A i \in m..end : f[i] \in Nat
    BY <1>4, <1>5, <1>2
  <2>2. SubSeq(f, m, end) \in Seq(Nat)
    BY <1>4, <2>1, SubSeqProperties
  <2> QED
    BY <2>2
<1>8. excerpt' = [excerpt EXCEPT !.taken = all]
  BY <1>1, <1>2, <1>3, <1>5, <1>6, <1>7
<1>9. /\ obj' \in ObjType /\ obj'.path = path /\ obj'.at = end
      /\ excerpt' \in ExcerptType /\ excerpt'.on
      /\ excerpt'.from = excerpt.from /\ excerpt'.taken = all
  BY <1>1, <1>2, <1>4, <1>8 DEF ObjType, ExcerptType
<1>10. obj' # NoFile
  BY <1>2, <1>9, NothingTypes DEF Paths, None
<1>11. Taken'
  <2>1. excerpt'.taken = SubSeq(files'[path'], excerpt'.from + 1, obj'.at)
    BY <1>1, <1>3, <1>5, <1>7, <1>9
  <2>2. obj'.at <= Len(files'[path']) /\ excerpt'.from <= obj'.at
    BY <1>1, <1>2, <1>3, <1>4, <1>9
  <2> QED
    BY <1>1, <1>2, <1>9, <1>10, <2>1, <2>2 DEF Taken, Exists
<1>12. ServiceType'
  BY <1>1, <1>9 DEF ServiceType
<1> QED
  BY <1>1, <1>11, <1>12 DEF Coherent, Owing, Fresh, IsAlive, Exists, Written

(* The rest changes the configuration or the processor, or nothing. *)
LEMMA RestKeeps ==
  ASSUME Inv,
         \/ OpenTimesOut \/ Query \/ UNCHANGED serviceVars
         \/ \E new \in Configs : UpdateConfig(new)
  PROVE  Inv'
<1> USE DEF Inv
<1>1. /\ UNCHANGED <<logged, cleared, path, process, obj, last, files, written,
                     owed, excerpt>>
      /\ pc' \in {pc, "idle"} /\ config' \in Configs
      /\ \/ processor' = processor
         \/ processor' = path
         \/ ~IsAlive /\ processor' = None
  BY DEF OpenTimesOut, Query, UpdateConfig, serviceVars, device, history, ServiceType
<1>2. ServiceType'
  BY <1>1 DEF ServiceType
<1> QED
  BY <1>1, <1>2 DEF Coherent, Owing, Fresh, Taken, IsAlive, Exists, Written

-----------------------------------------------------------------------------
(* Nothing is owed or written before the service is started. *)
LEMMA InitInv ==
  ASSUME ServiceInit
  PROVE  Inv
<1>1. /\ logged = 0 /\ cleared = 0 /\ pc = "idle" /\ config \in Configs
      /\ path = None /\ processor = None /\ process = NoProcess /\ obj = NoFile
      /\ last = NoTime /\ files = <<>> /\ written = <<>> /\ owed = {}
      /\ excerpt = NoExcerpt
  BY DEF ServiceInit, Configs
<1>2. DOMAIN files = {} /\ files \in [DOMAIN files -> Seq(Nat)]
  BY <1>1
<1>3. ToSet(written) = {} /\ DOMAIN written = {} /\ written \in Seq(Nat)
  BY <1>1 DEF ToSet
<1>4. ServiceType
  BY <1>1, <1>2, <1>3, NothingTypes DEF ServiceType, Times
<1>5. Coherent
  BY <1>1, NothingTypes DEF Coherent, IsAlive, None
<1>6. Owing /\ Fresh
  BY <1>1, <1>3, NothingTypes DEF Owing, Fresh, Written, None
<1>7. Taken
  BY <1>1, NothingTypes DEF Taken
<1> QED
  BY <1>4, <1>5, <1>6, <1>7 DEF Inv

(* Every step keeps the invariant. *)
LEMMA NextInv ==
  ASSUME Inv, [ServiceNext]_serviceVars
  PROVE  Inv'
<1>1. CASE Start
  BY <1>1, StartKeeps DEF Start
<1>2. CASE Resume
  BY <1>2, StartKeeps DEF Resume
<1>3. CASE Stop
  BY <1>3, StopKeeps DEF Stop
<1>4. CASE Pause
  BY <1>4, StopKeeps DEF Pause
<1> QED
  BY <1>1, <1>2, <1>3, <1>4, LogsKeep, OpensKeeps, AttachKeeps, WritesKeep,
     DiesKeeps, FailKeeps, OpenKeeps, NotesKeep, ExcerptKeeps, RestKeeps DEF ServiceNext, Configs

(* The invariant holds throughout. *)
THEOREM Invariance == ServiceSpec => []Inv
<1>1. ServiceInit => Inv
  BY InitInv
<1>2. Inv /\ [ServiceNext]_serviceVars => Inv'
  BY NextInv
<1> QED
  BY <1>1, <1>2, PTL DEF ServiceSpec

(* pause and resume: a process that has caught up has written every line that  *)
(* it, one before it or the time noted by pause accounts for, and each line    *)
(* once and in order.                                                        *)
THEOREM PauseLosesNothing == ServiceSpec => []PauseKeepsLines
<1>1. ASSUME Inv PROVE PauseKeepsLines
  <2> USE <1>1 DEF Inv
  <2>1. ASSUME process.state = "attached", process.next > logged, NEW x \in owed
        PROVE  x \in ToSet(written)
    <3>1. /\ x \in Nat /\ x <= logged /\ logged \in Nat
          /\ x \in Written \/ process.next <= x
      BY <2>1 DEF Owing, ServiceType
    <3>2. process.next \in Nat
      BY AliveState
    <3> QED
      BY <2>1, <3>1, <3>2 DEF Written
  <2> QED
    BY <2>1 DEF PauseKeepsLines, Fresh
<1> QED
  BY <1>1, Invariance, PTL

(* create_output_excerpts: the excerpts are what the file got since start      *)
(* opened it, each line once, and that file is the one the process writes and *)
(* queries read.                                                             *)
THEOREM ExcerptsPart == ServiceSpec => []ExcerptsPartition
<1>1. Inv => ExcerptsPartition
  BY DEF Inv, Taken, Coherent, ExcerptsPartition
<1> QED
  BY <1>1, Invariance, PTL
=============================================================================

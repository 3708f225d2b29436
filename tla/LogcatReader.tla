---------------------------- MODULE LogcatReader ----------------------------
(***************************************************************************)
(* Reading a logcat file while adb writes it: wait_for and listen of       *)
(* LogcatProcessor, and LogcatListenerContext, in mobly/controllers/       *)
(* android_device_lib/logcat_processor.py.                                 *)
(*                                                                         *)
(* The file is a sequence of pieces, since adb may write a line in two:    *)
(* a whole line, or its head and then the rest, in which the text that a   *)
(* pattern asks for is.  Offsets count pieces.  A behaviour has one user   *)
(* of the file, a call of wait_for or a listener: users share nothing else. *)
(***************************************************************************)
EXTENDS Integers, Sequences, SequencesExt

CONSTANTS
  Scanners,   \* threads: that of wait_for, or those a listener starts
  Patterns,   \* what wait_for waits for; a listener filters by the first
  MaxPieces,  \* bound: pieces written
  QueueSize   \* max_events

ASSUME ReaderAssumption ==
  /\ Scanners # {}
  /\ MaxPieces \in Nat /\ QueueSize \in Nat \ {0}
  /\ Patterns \in Seq({"p", "q"}) /\ Patterns # <<>>

VARIABLES
  file,
  mode,       \* "idle", or what the user does: "in_order", "any_order", "listen"
  since,      \* the offset from which it reads
  scanner,    \* per thread: alive, file open, position in the file, the offset
              \* after the last line it parsed; half (history): heads read
              \* alone since the file was opened
  expired,    \* wait_for: the deadline has passed
  outcome,    \* wait_for: "none", "found" or "timeout"
  match,      \* wait_for: per pattern the lines found for it, one at most
  context,    \* listener: "out", "in", or "exit" while it joins the thread
  stop,       \* listener: _stop_event
  thread,     \* listener: _thread, or no thread
  abandoned,  \* history: did joining a thread time out
  events,     \* listener: _events, the last QueueSize lines
  queue,      \* listener: _queue
  given,      \* history: what get_next_event returned
  sent,       \* history: per thread the lines it dispatched
  order,      \* history: the lines in the order they were dispatched
  overflow,   \* history: was the queue full
  halves      \* history: per thread the lines it passed by after it read the
              \* head alone

waitVars == <<expired, outcome, match>>
listenVars == <<context, stop, thread, abandoned, events, queue, given, sent, order, overflow>>
vars == <<file, mode, since, scanner, waitVars, listenVars, halves>>

Offsets == 0..MaxPieces

Kinds == {"p", "q", "other", "unparsed"}

(* parses: LogLine.from_string accepts the head of the line alone.           *)
Pieces == [kind : Kinds, part : {"whole", "head", "rest"}, parses : BOOLEAN]

Off == [alive |-> FALSE, open |-> FALSE, at |-> 0, scan |-> 0, half |-> {}]

-----------------------------------------------------------------------------
(* What readline and from_string make of the first pieces, up to `to`, at a   *)
(* position: the line, which starts there, its kind and the next position.   *)
LineIn(at, to) ==
  LET x == file[at + 1]
      joined == x.part = "head" /\ at + 2 <= to
  IN [start |-> at,
      next  |-> IF joined THEN at + 2 ELSE at + 1,
      half  |-> x.part = "head" /\ ~joined,
      kind  |-> CASE x.part = "whole" \/ joined -> x.kind
                  [] x.part = "head" /\ ~joined /\ x.parses -> "other"
                  [] OTHER -> "unparsed"]

LineAt(at) == LineIn(at, Len(file))

Parsed(line) == line.kind # "unparsed"

(* The offsets of the complete lines of the file, whoever reads them. *)
Lines == {i \in 0..Len(file) - 1 :
            \/ file[i + 1].part = "whole"
            \/ file[i + 1].part = "head" /\ i + 2 <= Len(file)}

Matching(p) == {i \in Lines : file[i + 1].kind = p}

-----------------------------------------------------------------------------
Init ==
  /\ file = <<>> /\ mode = "idle" /\ since = 0
  /\ scanner = [t \in Scanners |-> Off]
  /\ expired = FALSE /\ outcome = "none"
  /\ match = [k \in DOMAIN Patterns |-> {}]
  /\ context = "out" /\ stop = FALSE /\ thread = {} /\ abandoned = FALSE
  /\ events = <<>> /\ queue = <<>> /\ given = <<>>
  /\ sent = [t \in Scanners |-> <<>>] /\ order = <<>> /\ overflow = FALSE
  /\ halves = [t \in Scanners |-> {}]

(* adb writes a line, or a part of one.                                      *)
Write ==
  /\ Len(file) < MaxPieces
  /\ \E x \in Pieces :
       /\ x.part # "head" => ~x.parses
       /\ IF file # <<>> /\ Last(file).part = "head"
          THEN x.part = "rest" /\ x.kind = Last(file).kind
          ELSE x.part # "rest"
       /\ x.part = "head" => Len(file) + 1 < MaxPieces
       /\ file' = Append(file, x)
  /\ UNCHANGED <<mode, since, scanner, waitVars, listenVars, halves>>

(* The thread that calls wait_for. *)
Caller == CHOOSE t \in Scanners : TRUE

(* now(): reading begins there, or at the beginning. *)
Positions == {0, Len(file)}

WaitFor(m, offset) ==
  /\ mode = "idle" /\ offset \in Positions
  /\ mode' = m /\ since' = offset
  /\ scanner' = [scanner EXCEPT ![Caller] = [Off EXCEPT !.alive = TRUE, !.scan = offset]]
  /\ UNCHANGED <<file, waitVars, listenVars, halves>>

Listen(offset) ==
  /\ mode = "idle" /\ offset \in Positions
  /\ mode' = "listen" /\ since' = offset
  /\ UNCHANGED <<file, scanner, waitVars, listenVars, halves>>

-----------------------------------------------------------------------------
(* _iter_lines *)

(* Mutant: the line that was matched last is read again. *)
OpensBefore(t) == since

OpensAt(t) == scanner[t].scan

(* The loop opens the file again, unless it is to end.                       *)
Open(t) ==
  /\ scanner[t].alive /\ ~scanner[t].open
  /\ IF mode = "listen" THEN ~stop ELSE ~expired
  /\ scanner' = [scanner EXCEPT ![t].open = TRUE, ![t].at = OpensAt(t),
                                ![t].half = {}]
  /\ UNCHANGED <<file, mode, since, waitVars, listenVars, halves>>

(* Mutant: what cannot be parsed is passed by for good. *)
ScanAlways(t, line) == line.next

(* scan_offset: a line is done when it was parsed, else it is read again.    *)
Scan(t, line) == IF Parsed(line) THEN line.next ELSE scanner[t].scan

Reading(t) == scanner[t].open /\ scanner[t].at < Len(file)

(* After a line the loop goes on, or is left for the next pattern or for      *)
(* good.                                                                     *)
Pass(t, line, goOn) ==
  LET half == scanner[t].half \cup (IF line.half THEN {line.start} ELSE {}) IN
  /\ scanner' = [scanner EXCEPT ![t].at = line.next, ![t].scan = Scan(t, line),
                                ![t].open = goOn, ![t].half = half]
  /\ halves' = IF Parsed(line) THEN [halves EXCEPT ![t] = @ \cup half] ELSE halves

EndOfFile(t) ==
  /\ scanner[t].open /\ scanner[t].at = Len(file)
  /\ scanner' = [scanner EXCEPT ![t].open = FALSE]
  /\ UNCHANGED <<file, mode, since, waitVars, listenVars, halves>>

-----------------------------------------------------------------------------
(* get_lines and tail, which only read *)

(* A line for p is one of those that match.                                   *)
Match(p, line) == IF line.kind = p THEN <<line>> ELSE <<>>

(* The lines for p between two offsets, one after the other. *)
Matches(p, offset, to) ==
  LET lines[at \in 0..to] ==
        IF at = to THEN <<>>
        ELSE Match(p, LineIn(at, to)) \o lines[LineIn(at, to).next]
  IN lines[offset]

GetLines(p, offset, max) ==
  LET found == Matches(p, offset, Len(file))
  IN SubSeq(found, 1, IF Len(found) < max THEN Len(found) ELSE max)

LastOf(lines, n) == SubSeq(lines, IF Len(lines) > n THEN Len(lines) - n + 1 ELSE 1, Len(lines))

(* Mutant: what precedes the first end of line is not kept. *)
RemainderLost(from, to) == from

(* The end of what is kept of a block, since its beginning may be in a line   *)
(* of the block before: the first end of line, if any.                       *)
Remainder(from, to) ==
  LET ends == {i \in from + 1..to : file[i].part # "head"}
  IN IF from = 0 THEN 0
     ELSE IF ends = {} THEN to ELSE CHOOSE i \in ends : \A j \in ends : i <= j

(* Blocks are read from the end backwards, until there are n lines; to: the   *)
(* end of the last remainder.                                                *)
TailBlock(p, n, block, s) ==
  LET from == IF s.remaining > block THEN s.remaining - block ELSE 0
      begin == Remainder(from, s.to)
      here == LastOf(Matches(p, begin, s.to), n - Len(s.lines))
  IN IF s.remaining = 0 \/ Len(s.lines) = n THEN s
     ELSE [remaining |-> from, to |-> begin, lines |-> here \o s.lines]

TailLines(p, n, block) ==
  LET end == [remaining |-> Len(file), to |-> Len(file), lines |-> <<>>]
      after[i \in 0..Len(file)] ==
        IF i = 0 THEN end ELSE TailBlock(p, n, block, after[i - 1])
  IN after[Len(file)].lines

-----------------------------------------------------------------------------
(* wait_for *)

Missing == {k \in DOMAIN Patterns : match[k] = {}}

NextMissing == CHOOSE k \in Missing : \A j \in Missing : k <= j

(* The patterns for which a line is taken. *)
Wanted(line) ==
  {k \in IF mode = "in_order" THEN {NextMissing} ELSE Missing :
     line.kind = Patterns[k]}

WaitReads(t) ==
  /\ mode \in {"in_order", "any_order"} /\ outcome = "none" /\ Reading(t)
  /\ LET line == LineAt(scanner[t].at)
         found == Wanted(line)
     IN /\ match' = [k \in DOMAIN Patterns |->
                       IF k \in found THEN {line.start} ELSE match[k]]
        /\ outcome' = IF Missing = found THEN "found" ELSE "none"
        /\ Pass(t, line, mode = "any_order" \/ found = {})
  /\ UNCHANGED <<file, mode, since, expired, listenVars>>

(* The deadline is looked at between two scans. *)
WaitTimesOut(t) ==
  /\ mode \in {"in_order", "any_order"} /\ outcome = "none"
  /\ ~scanner[t].open /\ scanner[t].alive /\ expired
  /\ outcome' = "timeout"
  /\ UNCHANGED <<file, mode, since, scanner, expired, match, listenVars, halves>>

Expire ==
  /\ mode \in {"in_order", "any_order"} /\ ~expired
  /\ expired' = TRUE
  /\ UNCHANGED <<file, mode, since, scanner, outcome, match, listenVars, halves>>

-----------------------------------------------------------------------------
(* LogcatListenerContext *)

(* __enter__ starts another thread, from the same position. *)
Enter ==
  /\ mode = "listen" /\ context = "out"
  /\ \E t \in Scanners :
       /\ ~scanner[t].alive /\ sent[t] = <<>> /\ scanner[t].at = 0
       /\ scanner' = [scanner EXCEPT ![t] = [Off EXCEPT !.alive = TRUE, !.scan = since]]
       /\ thread' = {t}
  /\ stop' = FALSE /\ context' = "in"
  /\ UNCHANGED <<file, mode, since, waitVars, abandoned, events, queue, given, sent,
                 order, overflow, halves>>

Exit ==
  /\ context = "in"
  /\ stop' = TRUE /\ context' = "exit"
  /\ UNCHANGED <<file, mode, since, scanner, waitVars, thread, abandoned, events, queue, given,
                 sent, order, overflow, halves>>

(* Mutant: the thread is not joined. *)
JoinNone == TRUE

Joined == \A t \in thread : ~scanner[t].alive

(* The thread ended within two seconds, or is dropped all the same.          *)
Exited ==
  /\ context = "exit" /\ Joined
  /\ context' = "out" /\ thread' = {}
  /\ UNCHANGED <<file, mode, since, scanner, waitVars, stop, abandoned, events, queue,
                 given, sent, order, overflow, halves>>

JoinTimesOut ==
  /\ context = "exit" /\ ~Joined
  /\ context' = "out" /\ thread' = {}
  /\ abandoned' = TRUE
  /\ UNCHANGED <<file, mode, since, scanner, waitVars, stop, events, queue, given,
                 sent, order, overflow, halves>>

(* Mutant: a full queue drops its oldest line. *)
QueuedNewest(q, i) == Append(IF Len(q) = QueueSize THEN Tail(q) ELSE q, i)

(* A full queue drops the line. *)
Queued(q, i) == IF Len(q) = QueueSize THEN q ELSE Append(q, i)

(* A full deque drops its oldest line. *)
Kept(q, i) == Append(IF Len(q) = QueueSize THEN Tail(q) ELSE q, i)

(* _dispatch, and the look at _stop_event after it. *)
ListenReads(t) ==
  /\ mode = "listen" /\ Reading(t)
  /\ LET line == LineAt(scanner[t].at)
         i == line.start
     IN /\ IF line.kind = Patterns[1]
           THEN /\ events' = Kept(events, i)
                /\ queue' = Queued(queue, i)
                /\ overflow' = (overflow \/ Len(queue) = QueueSize)
                /\ sent' = [sent EXCEPT ![t] = Append(@, i)]
                /\ order' = Append(order, i)
           ELSE UNCHANGED <<events, queue, overflow, sent, order>>
        /\ Pass(t, line, ~(Parsed(line) /\ stop))
  /\ UNCHANGED <<file, mode, since, waitVars, context, stop, thread, abandoned, given>>

ThreadEnds(t) ==
  /\ mode = "listen" /\ scanner[t].alive /\ ~scanner[t].open /\ stop
  /\ scanner' = [scanner EXCEPT ![t].alive = FALSE]
  /\ UNCHANGED <<file, mode, since, waitVars, listenVars, halves>>

GetNextEvent ==
  /\ queue # <<>>
  /\ given' = Append(given, Head(queue))
  /\ queue' = Tail(queue)
  /\ UNCHANGED <<file, mode, since, scanner, waitVars, context, stop, thread, abandoned, events,
                 sent, order, overflow, halves>>

-----------------------------------------------------------------------------
ScannerStep(t) ==
  \/ Open(t)
  \/ EndOfFile(t)
  \/ WaitReads(t)
  \/ WaitTimesOut(t)
  \/ ListenReads(t)
  \/ ThreadEnds(t)

Next ==
  \/ Write
  \/ \E m \in {"in_order", "any_order"}, offset \in Offsets : WaitFor(m, offset)
  \/ \E offset \in Offsets : Listen(offset)
  \/ \E t \in Scanners : ScannerStep(t)
  \/ Expire
  \/ Enter
  \/ Exit
  \/ Exited
  \/ JoinTimesOut
  \/ GetNextEvent

Spec == Init /\ [][Next]_vars

(* The threads run.  Nothing is assumed of adb, of the user or of time.      *)
FairSpec == Spec /\ \A t \in Scanners : WF_vars(ScannerStep(t))

-----------------------------------------------------------------------------
(* Properties *)

(* The offset from which pattern k is looked for. *)
From(k) ==
  IF mode = "in_order" /\ k > 1 /\ match[k - 1] # {}
  THEN CHOOSE n \in Offsets :
         \E i \in match[k - 1] : n = IF file[i + 1].part = "head" THEN i + 2 ELSE i + 1
  ELSE since

(* The complete lines for pattern k that a reader may not pass by: all but   *)
(* those of which it read the head alone.                                    *)
Visible(t, k) == {i \in Matching(Patterns[k]) : i >= From(k)} \ halves[t]

(* wait_for: each pattern is matched by the first line for it, after the      *)
(* previous match when in order; on a timeout no line was passed by for some *)
(* pattern.  A line of which the head was read alone may be missed.          *)
WaitSound ==
  /\ \A k \in DOMAIN Patterns \ Missing : \A i \in match[k] :
       /\ i \in Matching(Patterns[k]) /\ i >= From(k)
       /\ \A j \in Visible(Caller, k) : j >= i
  /\ outcome = "timeout" =>
       /\ Missing # {}
       /\ \A j \in Visible(Caller, NextMissing) : j >= scanner[Caller].scan

(* wait_for, in any order: when there is a line for every pattern it finds    *)
(* them, unless time runs out or it read the head of one of them alone.      *)
WaitFinds ==
  (mode = "any_order" /\ \A k \in DOMAIN Patterns : Visible(Caller, k) # {})
    ~> \/ outcome # "none" \/ expired
       \/ \E k \in DOMAIN Patterns : Visible(Caller, k) = {}

(* listen: a thread dispatches each line for the pattern that it has come by  *)
(* once, in the order of the file, whatever it found when it looked.         *)
DispatchedOnce ==
  mode = "listen" =>
    \A t \in Scanners :
      LET due == {i \in Visible(t, 1) : i < scanner[t].scan}
      IN /\ \A i, j \in DOMAIN sent[t] : i < j => sent[t][i] < sent[t][j]
         /\ scanner[t].alive => ToSet(sent[t]) = due

(* get_next_event gives the lines in the order they were dispatched: all of   *)
(* them unless the queue was full, and the first max_events anyway, so that a *)
(* flood of lines does not take from the user what was there before it.       *)
(* events holds the last of them.                                            *)
QueueFifo ==
  LET got == given \o queue IN
  /\ got = order \/ overflow
  /\ \A k \in 1..QueueSize \cap DOMAIN order : k \in DOMAIN got /\ got[k] = order[k]
  /\ \A k \in DOMAIN events : events[k] = order[Len(order) - Len(events) + k]

(* tail: whatever the size of the blocks and wherever they part the lines, it *)
(* returns the last of the lines that get_lines returns, half a line at the   *)
(* end of the file included.                                                 *)
TailSound ==
  mode = "idle" =>
    \A p \in {"p", "other"}, n \in 1..MaxPieces, block \in 1..2 :
      TailLines(p, n, block) = LastOf(GetLines(p, 0, MaxPieces), n)

(* __exit__: no line is dispatched after the context was left, unless the     *)
(* thread did not end within two seconds.                                    *)
QuietAfterExit ==
  [][context = "out" /\ ~abandoned => order' = order]_vars
=============================================================================

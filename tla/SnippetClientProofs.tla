------------------------ MODULE SnippetClientProofs ------------------------
(***************************************************************************)
(* Theorems about SnippetClient, for any clients, ports and threads and    *)
(* any number of calls and faults: no forwarded port is forgotten, stop    *)
(* gives back what the client acquired, and callback handlers survive a    *)
(* disconnect.                                                             *)
(*                                                                         *)
(* What a method has done of its work is told by the number of calls that  *)
(* are left of it (Stages).  An event client belongs to one client         *)
(* (Owners), and that of a connected client is connected too, unless the   *)
(* method that runs or a thread is about to do it (Handlers).              *)
(***************************************************************************)
EXTENDS SnippetClient, SequenceTheorems, TLAPS

Conns == {"none", "open", "live", "dead"}

ClientType ==
  [conn : Conns, port : Ports \cup {None}, proc : BOOLEAN, event : EventClients \cup {None}]

EventType == [conn : Conns, port : Ports \cup {None}]

AsyncType ==
  [pc : {"idle", "create", "connect", "handshake", "handler"}, n : Names \cup {None},
   on : EventClients \cup {None}, handler : EventClients \cup {None}]

StepNames ==
  {"precheck", "launch", "check", "forward", "connect", "handshake", "close", "list",
   "remove", "kill", "command", "destroy", "adopt", "connect_event", "handshake_event"}

JobType ==
  [op : Ops \cup {"none"}, n : Names \cup {None}, todo : Seq(Names),
   steps : Seq(StepNames), failed : BOOLEAN]

TypeOK ==
  /\ managed \in Seq(Names)
  /\ client \in [Names -> ClientType]
  /\ eventOf \in [EventClients -> EventType]
  /\ forward \in [Ports -> Names \cup {None, Other}]
  /\ server \subseteq Names /\ broken \subseteq Names
  /\ dropped \subseteq Names \X Ports /\ lost \subseteq Names \X Ports
  /\ job \in JobType
  /\ async \in [Threads -> AsyncType]

(* What the job does with its client. *)
Starting == job.op \in {"add", "start"} /\ ~job.failed
Stopping == job.op \in {"remove", "stop"} \/ job.failed
Pausing == job.op = "pause"
Restoring == job.op \in {"resume", "reconnect"}

Program == IF job.failed THEN Stop ELSE Method(job.op)

Left == Len(job.steps)

(* s is the end of t. *)
Ends(s, t) ==
  Len(s) <= Len(t) /\ \A i \in DOMAIN s : s[i] = t[Len(t) - Len(s) + i]

Jobs ==
  /\ job.op = "none" => job = NoJob
  /\ job.n = None => job.steps = <<>> /\ ~job.failed
  /\ job.n # None => Ends(job.steps, Program)
  /\ job.failed => job.op \in {"add", "start"}
  /\ job.op # "none" => \A t \in Threads : async[t].pc = "idle"

(* What was done when so many calls of a method are left. *)
Stages ==
  job.n # None =>
    /\ Stopping =>
         /\ Left < 6 => Me.conn = "none"
         /\ Left < 4 => Me.port = None
         /\ Left < 3 => ~Me.proc
         /\ Left < 2 => job.n \notin server
    /\ Pausing /\ Left < 3 => Me.conn = "none"
    /\ Starting /\ Left <= 4 => Me.event = None \/ job.n \in broken
    /\ Restoring /\ Left \in {1, 2} => Me.event # None
    /\ Restoring /\ Left = 1 => eventOf[Me.event].port = Me.port

(* Whose event clients there are. *)
Owners ==
  /\ \A n \in Names : n \in ToSet(managed) \/ n = job.n \/ client[n].event = None
  /\ job.op \in {"start", "stop", "pause", "resume", "reconnect"} =>
       /\ ToSet(job.todo) \subseteq ToSet(managed)
       /\ job.n # None => job.n \in ToSet(managed)
  /\ \A t \in Threads : async[t].pc # "idle" => async[t].n \in ToSet(managed)
  /\ \A t \in Threads : async[t].handler # None => async[t].n \in Names
  /\ \A n, m \in Names :
       n # m /\ client[n].event = client[m].event => client[n].event = None

(* Thread t is connecting the event client that its client has now. *)
Connecting(t) ==
  \/ async[t].pc = "connect"
  \/ async[t].pc = "handshake" /\ async[t].on = client[async[t].n].event

Served(n) ==
  LET e == client[n].event
  IN  eventOf[e].conn = "live" /\ eventOf[e].port = client[n].port

HandlerOf(n) ==
  client[n].event # None /\ client[n].conn = "live" /\ n \notin broken =>
    \/ Served(n)
    \/ job.n = n /\ job.steps # <<>>
    \/ \E t \in Threads : async[t].n = n /\ Connecting(t)

HandshakePorts ==
  \A t \in Threads :
    /\ async[t].pc = "handshake" /\ async[t].on # None
    /\ async[t].on = client[async[t].n].event
    => eventOf[async[t].on].port = client[async[t].n].port

Handlers == (\A n \in Names : HandlerOf(n)) /\ HandshakePorts

Inv == TypeOK /\ Jobs /\ Stages /\ Owners /\ Handlers /\ ForwardsKnown

-----------------------------------------------------------------------------
(* Sequences *)

LEMMA TailSet ==
  ASSUME NEW S, NEW s \in Seq(S), s # <<>>
  PROVE  /\ Head(s) \in S /\ Tail(s) \in Seq(S) /\ Head(s) \in ToSet(s)
         /\ ToSet(Tail(s)) \subseteq ToSet(s)
<1>1. /\ Head(s) \in S /\ Tail(s) \in Seq(S) /\ Head(s) = s[1]
      /\ Len(s) \in Nat /\ Len(s) >= 1 /\ DOMAIN s = 1..Len(s)
      /\ DOMAIN Tail(s) = 1..(Len(s) - 1)
      /\ \A i \in 1..(Len(s) - 1) : Tail(s)[i] = s[i + 1]
  OBVIOUS
<1> QED  BY <1>1 DEF ToSet

LEMMA AppendSet ==
  ASSUME NEW S, NEW s \in Seq(S), NEW e \in S
  PROVE  Append(s, e) \in Seq(S) /\ ToSet(Append(s, e)) = ToSet(s) \cup {e}
<1>1. /\ Append(s, e) \in Seq(S) /\ Append(s, e)[Len(s) + 1] = e
      /\ DOMAIN Append(s, e) = DOMAIN s \cup {Len(s) + 1}
      /\ \A i \in DOMAIN s : Append(s, e)[i] = s[i]
  OBVIOUS
<1> QED  BY <1>1 DEF ToSet

(* The tail of an end. *)
LEMMA EndsTail ==
  ASSUME NEW s \in Seq(StepNames), NEW t \in Seq(StepNames), Ends(s, t), s # <<>>
  PROVE  /\ Tail(s) \in Seq(StepNames) /\ Ends(Tail(s), t)
         /\ Len(Tail(s)) = Len(s) - 1 /\ Len(s) \in 1..Len(t)
         /\ Head(s) = t[Len(t) - Len(s) + 1]
<1>1. /\ Tail(s) \in Seq(StepNames) /\ Len(Tail(s)) = Len(s) - 1
      /\ Len(s) \in Nat /\ Len(t) \in Nat /\ Len(s) >= 1
      /\ DOMAIN s = 1..Len(s) /\ DOMAIN Tail(s) = 1..(Len(s) - 1)
      /\ \A i \in 1..(Len(s) - 1) : Tail(s)[i] = s[i + 1]
      /\ Head(s) = s[1]
  OBVIOUS
<1>2. ASSUME NEW i \in 1..(Len(s) - 1)
      PROVE  Tail(s)[i] = t[Len(t) - (Len(s) - 1) + i]
  <2>1. i + 1 \in DOMAIN s /\ Len(t) - Len(s) + (i + 1) = Len(t) - (Len(s) - 1) + i
    BY <1>1
  <2> QED  BY <1>1, <2>1 DEF Ends
<1> QED  BY <1>1, <1>2 DEF Ends

LEMMA EndsItself ==
  ASSUME NEW t \in Seq(StepNames)
  PROVE  Ends(t, t) /\ Ends(<<>>, t)
<1>1. Len(t) \in Nat /\ DOMAIN t = 1..Len(t) /\ DOMAIN <<>> = {} /\ Len(<<>>) = 0
  OBVIOUS
<1>2. \A i \in 1..Len(t) : Len(t) - Len(t) + i = i
  BY <1>1
<1> QED  BY <1>1, <1>2 DEF Ends

(* The calls of the methods. *)
LEMMA ConnectionIs ==
  /\ Connection \in Seq(StepNames) /\ Len(Connection) = 4
  /\ Connection[1] = "check" /\ Connection[2] = "forward"
  /\ Connection[3] = "connect" /\ Connection[4] = "handshake"
BY DEF Connection, StepNames

LEMMA CloseIs ==
  /\ CloseConnection \in Seq(StepNames) /\ Len(CloseConnection) = 3
  /\ CloseConnection[1] = "close" /\ CloseConnection[2] = "list"
  /\ CloseConnection[3] = "remove"
BY DEF CloseConnection, StepNames

LEMMA StopIs ==
  /\ Stop \in Seq(StepNames) /\ Len(Stop) = 6
  /\ Stop[1] = "close" /\ Stop[2] = "list" /\ Stop[3] = "remove"
  /\ Stop[4] = "kill" /\ Stop[5] = "command" /\ Stop[6] = "destroy"
<1> DEFINE last == <<"kill", "command", "destroy">>
<1>1. /\ last \in Seq(StepNames) /\ Len(last) = 3
      /\ last[1] = "kill" /\ last[2] = "command" /\ last[3] = "destroy"
  BY DEF StepNames
<1>2. Stop = CloseConnection \o last
  BY DEF Stop
<1> HIDE DEF last
<1>3. /\ Stop \in Seq(StepNames) /\ Len(Stop) = Len(CloseConnection) + Len(last)
      /\ \A i \in 1..(Len(CloseConnection) + Len(last)) :
           Stop[i] = IF i <= Len(CloseConnection) THEN CloseConnection[i]
                     ELSE last[i - Len(CloseConnection)]
  BY <1>1, <1>2, CloseIs, ConcatProperties
<1> QED  BY <1>1, <1>3, CloseIs

LEMMA InitializeIs ==
  /\ Initialize \in Seq(StepNames) /\ Len(Initialize) = 6
  /\ Initialize[1] = "precheck" /\ Initialize[2] = "launch" /\ Initialize[3] = "check"
  /\ Initialize[4] = "forward" /\ Initialize[5] = "connect" /\ Initialize[6] = "handshake"
<1> DEFINE first == <<"precheck", "launch">>
<1>1. /\ first \in Seq(StepNames) /\ Len(first) = 2
      /\ first[1] = "precheck" /\ first[2] = "launch"
  BY DEF StepNames
<1>2. Initialize = first \o Connection
  BY DEF Initialize
<1> HIDE DEF first
<1>3. /\ Initialize \in Seq(StepNames) /\ Len(Initialize) = Len(first) + Len(Connection)
      /\ \A i \in 1..(Len(first) + Len(Connection)) :
           Initialize[i] = IF i <= Len(first) THEN first[i] ELSE Connection[i - Len(first)]
  BY <1>1, <1>2, ConnectionIs, ConcatProperties
<1> QED  BY <1>1, <1>3, ConnectionIs

LEMMA RestoreIs ==
  /\ Restore \in Seq(StepNames) /\ Len(Restore) = 7
  /\ Restore[1] = "check" /\ Restore[2] = "forward" /\ Restore[3] = "connect"
  /\ Restore[4] = "handshake" /\ Restore[5] = "adopt"
  /\ Restore[6] = "connect_event" /\ Restore[7] = "handshake_event"
<1> DEFINE last == <<"adopt", "connect_event", "handshake_event">>
<1>1. /\ last \in Seq(StepNames) /\ Len(last) = 3
      /\ last[1] = "adopt" /\ last[2] = "connect_event" /\ last[3] = "handshake_event"
  BY DEF StepNames
<1>2. Restore = Connection \o last
  BY DEF Restore
<1> HIDE DEF last
<1>3. /\ Restore \in Seq(StepNames) /\ Len(Restore) = Len(Connection) + Len(last)
      /\ \A i \in 1..(Len(Connection) + Len(last)) :
           Restore[i] = IF i <= Len(Connection) THEN Connection[i]
                        ELSE last[i - Len(Connection)]
  BY <1>1, <1>2, ConnectionIs, ConcatProperties
<1> QED  BY <1>1, <1>3, ConnectionIs

(* The program of a job. *)
LEMMA Programs ==
  ASSUME TypeOK, Jobs, job.op # "none"
  PROVE  /\ Program \in Seq(StepNames)
         /\ \/ Starting /\ ~Stopping /\ ~Pausing /\ ~Restoring /\ Program = Initialize
            \/ Stopping /\ ~Starting /\ ~Pausing /\ ~Restoring /\ Program = Stop
            \/ Pausing /\ ~Stopping /\ ~Starting /\ ~Restoring /\ Program = CloseConnection
            \/ Restoring /\ ~Stopping /\ ~Pausing /\ ~Starting /\ Program = Restore
<1>1. job.op \in Ops /\ job.failed \in BOOLEAN
      /\ (job.failed => job.op \in {"add", "start"})
  BY DEF TypeOK, JobType, Jobs
<1>2. \/ Starting /\ ~Stopping /\ ~Pausing /\ ~Restoring /\ Program = Initialize
      \/ Stopping /\ ~Starting /\ ~Pausing /\ ~Restoring /\ Program = Stop
      \/ Pausing /\ ~Stopping /\ ~Starting /\ ~Restoring /\ Program = CloseConnection
      \/ Restoring /\ ~Stopping /\ ~Pausing /\ ~Starting /\ Program = Restore
  BY <1>1 DEF Ops, Starting, Stopping, Pausing, Restoring, Program, Method
<1> QED  BY <1>2, InitializeIs, StopIs, CloseIs, RestoreIs

(* Where a job is that does a call. *)
LEMMA Doings ==
  ASSUME TypeOK, Jobs, NEW step, Doing(step)
  PROVE  /\ job.n \in Names /\ job.n # None /\ job.op \in Ops /\ job.op # "none"
         /\ job.steps # <<>> /\ Left \in Nat /\ Left >= 1
         /\ Tail(job.steps) \in Seq(StepNames) /\ Len(Tail(job.steps)) = Left - 1
         /\ Ends(Tail(job.steps), Program) /\ Program \in Seq(StepNames)
         /\ \A t \in Threads : async[t].pc = "idle"
         /\ Left \in 1..Len(Program) /\ step = Program[Len(Program) - Left + 1]
<1>1. /\ job.steps \in Seq(StepNames) /\ job.steps # <<>> /\ step = Head(job.steps)
      /\ job.n \in Names \cup {None} /\ job.op \in Ops \cup {"none"}
  BY DEF TypeOK, JobType, Doing
<1>2. job.n # None /\ job.op # "none" /\ Ends(job.steps, Program)
  <2>1. NoJob.steps = <<>>
    BY DEF NoJob
  <2> QED  BY <1>1, <2>1 DEF Jobs
<1>3. Program \in Seq(StepNames)
  BY <1>2, Programs
<1>4. /\ Tail(job.steps) \in Seq(StepNames) /\ Ends(Tail(job.steps), Program)
      /\ Len(Tail(job.steps)) = Len(job.steps) - 1
      /\ Len(job.steps) \in 1..Len(Program)
      /\ step = Program[Len(Program) - Len(job.steps) + 1]
  BY <1>1, <1>2, <1>3, EndsTail
<1>5. Len(Program) \in Nat
  BY <1>3
<1>6. Left \in Nat /\ Left >= 1 /\ Left \in 1..Len(Program)
  BY <1>4, <1>5 DEF Left
<1>7. \A t \in Threads : async[t].pc = "idle"
  BY <1>2 DEF Jobs
<1>8. job.n \in Names /\ job.op \in Ops
  BY <1>1, <1>2
<1> QED  BY <1>1, <1>2, <1>3, <1>4, <1>6, <1>7, <1>8 DEF Left

LEMMA Places ==
  ASSUME TypeOK, Jobs, NEW step, Doing(step)
  PROVE  /\ step = "precheck" => Starting /\ Left = 6
         /\ step = "launch" => Starting /\ Left = 5
         /\ step = "check" => (Starting /\ Left = 4) \/ (Restoring /\ Left = 7)
         /\ step = "forward" => (Starting /\ Left = 3) \/ (Restoring /\ Left = 6)
         /\ step = "connect" => (Starting /\ Left = 2) \/ (Restoring /\ Left = 5)
         /\ step = "handshake" => (Starting /\ Left = 1) \/ (Restoring /\ Left = 4)
         /\ step = "close" => (Stopping /\ Left = 6) \/ (Pausing /\ Left = 3)
         /\ step = "list" => (Stopping /\ Left = 5) \/ (Pausing /\ Left = 2)
         /\ step = "remove" => (Stopping /\ Left = 4) \/ (Pausing /\ Left = 1)
         /\ step = "kill" => Stopping /\ Left = 3
         /\ step = "command" => Stopping /\ Left = 2
         /\ step = "destroy" => Stopping /\ Left = 1
         /\ step = "adopt" => Restoring /\ Left = 3
         /\ step = "connect_event" => Restoring /\ Left = 2
         /\ step = "handshake_event" => Restoring /\ Left = 1
<1> PICK k \in Nat : k = Left
  BY Doings
<1>1. job.op # "none" /\ k \in 1..Len(Program) /\ step = Program[Len(Program) - k + 1]
  BY Doings
<1>2. CASE Starting /\ Program = Initialize
  <2>1. k \in 1..6 /\ step = Initialize[7 - k]
    BY <1>1, <1>2, InitializeIs
  <2>2. /\ k = 1 => step = "handshake"
        /\ k = 2 => step = "connect"
        /\ k = 3 => step = "forward"
        /\ k = 4 => step = "check"
        /\ k = 5 => step = "launch"
        /\ k = 6 => step = "precheck"
    BY <2>1, InitializeIs
  <2>3. k = 1 \/ k = 2 \/ k = 3 \/ k = 4 \/ k = 5 \/ k = 6
    BY <2>1
  <2> QED  BY <1>2, <2>2, <2>3
<1>3. CASE Stopping /\ Program = Stop
  <2>1. k \in 1..6 /\ step = Stop[7 - k]
    BY <1>1, <1>3, StopIs
  <2>2. /\ k = 1 => step = "destroy"
        /\ k = 2 => step = "command"
        /\ k = 3 => step = "kill"
        /\ k = 4 => step = "remove"
        /\ k = 5 => step = "list"
        /\ k = 6 => step = "close"
    BY <2>1, StopIs
  <2>3. k = 1 \/ k = 2 \/ k = 3 \/ k = 4 \/ k = 5 \/ k = 6
    BY <2>1
  <2> QED  BY <1>3, <2>2, <2>3
<1>4. CASE Pausing /\ Program = CloseConnection
  <2>1. k \in 1..3 /\ step = CloseConnection[4 - k]
    BY <1>1, <1>4, CloseIs
  <2>2. /\ k = 1 => step = "remove"
        /\ k = 2 => step = "list"
        /\ k = 3 => step = "close"
    BY <2>1, CloseIs
  <2> QED  BY <1>4, <2>1, <2>2
<1>5. CASE Restoring /\ Program = Restore
  <2>1. k \in 1..7 /\ step = Restore[8 - k]
    BY <1>1, <1>5, RestoreIs
  <2>2. /\ k = 1 => step = "handshake_event"
        /\ k = 2 => step = "connect_event"
        /\ k = 3 => step = "adopt"
        /\ k = 4 => step = "handshake"
        /\ k = 5 => step = "connect"
        /\ k = 6 => step = "forward"
        /\ k = 7 => step = "check"
    BY <2>1, RestoreIs
  <2> QED  BY <1>5, <2>1, <2>2
<1> QED  BY <1>1, <1>2, <1>3, <1>4, <1>5, Programs

-----------------------------------------------------------------------------
(* The calls of a job *)

(* A job goes on with the calls s. *)
GoesOn(s) ==
  /\ s \in Seq(StepNames) /\ Ends(s, Program)
  /\ job' = [job EXCEPT !.steps = s]
  /\ UNCHANGED <<managed, async>>

LEMMA GoneOn ==
  ASSUME TypeOK, Jobs, NEW step, Doing(step), NEW s, GoesOn(s)
  PROVE  /\ job' \in JobType /\ job'.steps = s
         /\ job'.op = job.op /\ job'.n = job.n
         /\ job'.todo = job.todo /\ job'.failed = job.failed
         /\ Left' = Len(s) /\ Jobs'
         /\ (Starting' <=> Starting) /\ (Stopping' <=> Stopping)
         /\ (Pausing' <=> Pausing) /\ (Restoring' <=> Restoring)
<1>1. /\ job' \in JobType /\ job'.steps = s /\ job'.op = job.op /\ job'.n = job.n
      /\ job'.todo = job.todo /\ job'.failed = job.failed
  BY DEF GoesOn, TypeOK, JobType
<1>2. job.n # None /\ job.op # "none" /\ \A t \in Threads : async[t].pc = "idle"
  BY Doings
<1>3. Program' = Program
  BY <1>1 DEF Program
<1>4. Jobs'
  BY <1>1, <1>2, <1>3 DEF Jobs, GoesOn
<1> QED
  BY <1>1, <1>4 DEF Left, Starting, Stopping, Pausing, Restoring

LEMMA ProceedGoesOn ==
  ASSUME TypeOK, Jobs, NEW step, Doing(step), Proceed
  PROVE  GoesOn(Tail(job.steps)) /\ Len(Tail(job.steps)) = Left - 1
BY Doings DEF Proceed, GoesOn

(* Handlers of the clients the job does not work on. *)
LEMMA OthersHandled ==
  ASSUME TypeOK, Owners, Handlers, NEW k \in Names, job.n \in {None, k},
         \A t \in Threads : async[t].pc = "idle",
         \A t \in Threads : async'[t].pc = "idle",
         \A n \in Names : n # k => client'[n] = client[n] /\ (n \in broken => n \in broken'),
         \A e \in EventClients : e # client[k].event => eventOf'[e] = eventOf[e],
         HandlerOf(k)'
  PROVE  Handlers'
<1>1. HandshakePorts'
  BY DEF HandshakePorts
<1>2. ASSUME NEW n \in Names, n # k PROVE HandlerOf(n)'
  <2> SUFFICES ASSUME client[n].event # None, client[n].conn = "live", n \notin broken
               PROVE  Served(n)'
    BY <1>2 DEF HandlerOf
  <2>1. Served(n)
    BY <1>2, ClientAssumption DEF Handlers, HandlerOf, Connecting
  <2>2. client[n].event \in EventClients /\ client[n].event # client[k].event
    BY <1>2 DEF TypeOK, ClientType, Owners
  <2> QED  BY <1>2, <2>1, <2>2 DEF Served
<1> QED
  BY <1>1, <1>2 DEF Handlers

(* A call of the job keeps the invariant if the stage, the handlers of its   *)
(* client and its forwarded ports are right after it.                        *)
LEMMA StepInv ==
  ASSUME Inv, NEW step, Doing(step), NEW s, GoesOn(s), NEW k, k = job.n,
         NEW c \in ClientType, client' = [client EXCEPT ![k] = c],
         c.event \in {client[k].event, None},
         eventOf' \in [EventClients -> EventType],
         \A e \in EventClients : e # client[k].event => eventOf'[e] = eventOf[e],
         forward' \in [Ports -> Names \cup {None, Other}],
         server' \subseteq Names, broken' \subseteq Names, broken \ {k} \subseteq broken',
         UNCHANGED <<dropped, lost>>,
         Stages', HandlerOf(k)', ForwardsKnown'
  PROVE  Inv'
<1>1. /\ job' \in JobType /\ job'.op = job.op /\ job'.n = job.n /\ job'.todo = job.todo
      /\ Jobs'
  BY GoneOn DEF Inv
<1>2. /\ k \in Names /\ managed' = managed /\ async' = async
      /\ \A t \in Threads : async[t].pc = "idle"
  BY Doings DEF Inv, GoesOn
<1>3. client' \in [Names -> ClientType]
      /\ \A n \in Names : n # k => client'[n] = client[n]
  BY <1>2 DEF Inv, TypeOK
<1>4. client'[k] = c
  BY <1>2 DEF Inv, TypeOK
<1>5. TypeOK'
  BY <1>1, <1>2, <1>3 DEF Inv, TypeOK
<1>6. \A n \in Names : client'[n].event \in {client[n].event, None}
  BY <1>3, <1>4
<1>7. Owners'
  BY <1>1, <1>2, <1>6 DEF Inv, Owners
<1>8. Handlers'
  BY <1>2, <1>3, OthersHandled DEF Inv
<1> QED
  BY <1>1, <1>5, <1>7, <1>8 DEF Inv

LEMMA KnownKept ==
  ASSUME ForwardsKnown, UNCHANGED <<forward, dropped, lost>>,
         \A n \in Names : client'[n].port = client[n].port
  PROVE  ForwardsKnown'
BY DEF ForwardsKnown, Forgotten

(* What there is to know where a call is made. *)
LEMMA Here ==
  ASSUME Inv, NEW step, Doing(step)
  PROVE  /\ job.n \in Names /\ job.n # None /\ Left \in Nat
         /\ Me \in ClientType /\ Me = client[job.n]
         /\ client \in [Names -> ClientType] /\ eventOf \in [EventClients -> EventType]
         /\ forward \in [Ports -> Names \cup {None, Other}]
         /\ server \subseteq Names /\ broken \subseteq Names
         /\ TypeOK /\ Jobs /\ Stages /\ ForwardsKnown
BY Doings DEF Inv, TypeOK, Me

(* What a job does with its client it does alone. *)
LEMMA Exclusive ==
  ASSUME Inv, NEW step, Doing(step)
  PROVE  /\ Starting => ~Stopping /\ ~Pausing /\ ~Restoring
         /\ Stopping => ~Starting /\ ~Pausing /\ ~Restoring
         /\ Pausing => ~Starting /\ ~Stopping /\ ~Restoring
         /\ Restoring => ~Starting /\ ~Stopping /\ ~Pausing
BY Doings, Programs DEF Inv

LEMMA Moves ==
  ASSUME Inv, NEW step, Doing(step), NEW s, GoesOn(s)
  PROVE  /\ job'.n = job.n /\ job'.steps = s /\ Left' = Len(s)
         /\ (Starting' <=> Starting) /\ (Stopping' <=> Stopping)
         /\ (Pausing' <=> Pausing) /\ (Restoring' <=> Restoring)
BY GoneOn DEF Inv

LEMMA ProceedMoves ==
  ASSUME Inv, NEW step, Doing(step), Proceed
  PROVE  /\ GoesOn(Tail(job.steps))
         /\ job'.n = job.n /\ Left' = Left - 1
         /\ (Left > 1 => job'.steps # <<>>) /\ (Left = 1 => job'.steps = <<>>)
         /\ (Starting' <=> Starting) /\ (Stopping' <=> Stopping)
         /\ (Pausing' <=> Pausing) /\ (Restoring' <=> Restoring)
<1>1. GoesOn(Tail(job.steps)) /\ Len(Tail(job.steps)) = Left - 1
  BY ProceedGoesOn DEF Inv
<1>2. /\ job'.n = job.n /\ job'.steps = Tail(job.steps) /\ Left' = Left - 1
      /\ (Starting' <=> Starting) /\ (Stopping' <=> Stopping)
      /\ (Pausing' <=> Pausing) /\ (Restoring' <=> Restoring)
  BY <1>1, Moves
<1>3. Left \in Nat /\ job'.steps \in Seq(StepNames) /\ Len(job'.steps) = Left - 1
  BY <1>1, <1>2, Here DEF GoesOn
<1>4. Left > 1 => job'.steps # <<>>
  BY <1>3
<1>5. Left = 1 => job'.steps = <<>>
  BY <1>3
<1> QED
  BY <1>1, <1>2, <1>4, <1>5

LEMMA PreCheckInv == ASSUME Inv, PreCheck PROVE Inv'
<1>1. /\ Doing("precheck") /\ Proceed
      /\ UNCHANGED <<client, eventOf, forward, server, dropped, broken, lost>>
  BY DEF PreCheck, host, history
<1>2. Starting /\ ~Stopping /\ ~Pausing /\ ~Restoring /\ Left = 6
  BY <1>1, Places, Exclusive DEF Inv
<1>3. /\ GoesOn(Tail(job.steps)) /\ job'.n = job.n /\ Left' = 5 /\ job'.steps # <<>>
      /\ (Starting /\ ~Stopping /\ ~Pausing /\ ~Restoring)'
  BY <1>1, <1>2, ProceedMoves
<1>4. Stages'
  BY <1>3 DEF Stages
<1> PICK k \in Names : k = job.n
  BY <1>1, Here
<1>5. HandlerOf(k)'
  BY <1>3 DEF HandlerOf
<1>6. ForwardsKnown'
  BY <1>1, KnownKept DEF Inv
<1> QED
  BY <1>1, <1>3, <1>4, <1>5, <1>6, StepInv, Here

LEMMA StartServerInv == ASSUME Inv, StartServer PROVE Inv'
<1>1. /\ Doing("launch") /\ Proceed
      /\ client' = [CutClient(job.n) EXCEPT ![job.n].proc = TRUE]
      /\ eventOf' = CutEvent(job.n) /\ server' = server \cup {job.n}
      /\ broken' = IF Me.event = None THEN broken ELSE broken \cup {job.n}
      /\ UNCHANGED <<forward, dropped, lost>>
  BY DEF StartServer
<1>2. Starting /\ ~Stopping /\ ~Pausing /\ ~Restoring /\ Left = 5
  BY <1>1, Places, Exclusive DEF Inv
<1>3. /\ GoesOn(Tail(job.steps)) /\ job'.n = job.n /\ Left' = 4 /\ job'.steps # <<>>
      /\ (Starting /\ ~Stopping /\ ~Pausing /\ ~Restoring)'
  BY <1>1, <1>2, ProceedMoves
<1> PICK k \in Names : k = job.n
  BY <1>1, Here
<1> DEFINE c == [Me EXCEPT !.conn = Cut(@), !.proc = TRUE]
<1>4. /\ c \in ClientType /\ client' = [client EXCEPT ![k] = c]
      /\ c.event = client[k].event /\ c.port = client[k].port
  BY <1>1, Here DEF CutClient, Cut, ClientType, Conns, Me
<1>5. /\ eventOf' \in [EventClients -> EventType]
      /\ \A e \in EventClients : e # client[k].event => eventOf'[e] = eventOf[e]
  BY <1>1, Here DEF CutEvent, Cut, EventType, Conns
<1> HIDE DEF c
<1>6. client'[k] = c /\ Me' = c
  BY <1>1, <1>3, <1>4, Here DEF Me
<1>7. Stages'
  BY <1>1, <1>3, <1>4, <1>6 DEF Stages, Me
<1>8. HandlerOf(k)'
  BY <1>3 DEF HandlerOf
<1>9. ForwardsKnown'
  <2>1. \A n \in Names : client'[n].port = client[n].port
    BY <1>1, <1>4, <1>6, Here
  <2> QED  BY <1>1, <2>1, KnownKept DEF Inv
<1>10. /\ server' \subseteq Names /\ broken' \subseteq Names /\ broken \ {k} \subseteq broken'
       /\ forward' \in [Ports -> Names \cup {None, Other}]
  BY <1>1, Here
<1> QED
  BY <1>1, <1>3, <1>4, <1>5, <1>7, <1>8, <1>9, <1>10, StepInv

(* The calls that connect, in initialize and in restore_server_connection. *)
LEMMA ConnectionMoves ==
  ASSUME Inv, NEW step \in {"check", "forward", "connect", "handshake"},
         Doing(step), Proceed, Me'.event = Me.event, broken' = broken
  PROVE  /\ GoesOn(Tail(job.steps)) /\ job'.n = job.n /\ Stages'
         /\ \/ job'.steps # <<>>
            \/ step = "handshake" /\ (Me.event = None \/ job.n \in broken)
<1>1. /\ ~Stopping /\ ~Pausing
      /\ \/ Starting /\ ~Restoring /\ Left \in 1..4
         \/ Restoring /\ ~Starting /\ Left \in 4..7
      /\ step # "handshake" => Left > 1
  BY Places, Exclusive DEF Inv
<1>2. /\ GoesOn(Tail(job.steps)) /\ job'.n = job.n
      /\ Left > 1 => job'.steps # <<>>
      /\ Left' = Left - 1 /\ (~Stopping /\ ~Pausing)'
      /\ (Starting' <=> Starting) /\ (Restoring' <=> Restoring)
  BY <1>1, ProceedMoves
<1>3. CASE Starting /\ ~Restoring /\ Left \in 1..4
  <2>1. Me.event = None \/ job.n \in broken
    BY <1>3, Here DEF Stages
  <2>2. Stages'
    BY <1>2, <1>3, <2>1 DEF Stages
  <2> QED  BY <1>1, <1>2, <1>3, <2>1, <2>2
<1>4. CASE Restoring /\ ~Starting /\ Left \in 4..7
  <2>1. Stages'
    BY <1>2, <1>4 DEF Stages
  <2> QED  BY <1>2, <1>4, <2>1
<1> QED  BY <1>1, <1>3, <1>4

LEMMA CheckPortInv == ASSUME Inv, CheckPort PROVE Inv'
<1>1. /\ Doing("check") /\ Proceed
      /\ UNCHANGED <<client, eventOf, forward, server, dropped, broken, lost>>
  BY DEF CheckPort, host, history
<1> PICK k \in Names : k = job.n
  BY <1>1, Here
<1>2. Me' = Me
  BY <1>1 DEF Me, Proceed
<1>3. GoesOn(Tail(job.steps)) /\ job'.n = job.n /\ Stages' /\ job'.steps # <<>>
  BY <1>1, <1>2, ConnectionMoves
<1>4. HandlerOf(k)'
  BY <1>3 DEF HandlerOf
<1>5. ForwardsKnown'
  BY <1>1, KnownKept DEF Inv
<1> QED
  BY <1>1, <1>3, <1>4, <1>5, StepInv, Here

LEMMA ForwardPortInv == ASSUME Inv, ForwardPort PROVE Inv'
<1>1. /\ Doing("forward") /\ Proceed
      /\ UNCHANGED <<eventOf, server, dropped, broken, lost>>
  BY DEF ForwardPort, history
<1> PICK k \in Names : k = job.n
  BY <1>1, Here
<1>2. PICK p \in Ports :
        /\ IF Me.port = None THEN forward[p] = None ELSE p = Me.port
        /\ forward' = [forward EXCEPT ![p] = k]
        /\ client' = [client EXCEPT ![k].port = p]
  BY DEF ForwardPort
<1> DEFINE c == [Me EXCEPT !.port = p]
<1>3. /\ c \in ClientType /\ client' = [client EXCEPT ![k] = c]
      /\ c.event = client[k].event /\ c.port = p
  BY <1>1, <1>2, Here DEF ClientType, Me
<1> HIDE DEF c
<1>4. client'[k] = c /\ Me' = c /\ \A n \in Names : n # k => client'[n] = client[n]
  BY <1>1, <1>3, Here DEF Me, Proceed
<1>5. GoesOn(Tail(job.steps)) /\ job'.n = job.n /\ Stages' /\ job'.steps # <<>>
  BY <1>1, <1>3, <1>4, ConnectionMoves, Here
<1>6. HandlerOf(k)'
  BY <1>5 DEF HandlerOf
<1>7. ForwardsKnown'
  <2> SUFFICES ASSUME NEW q \in Ports, NEW n \in Names, forward'[q] = n
               PROVE  client'[n].port = q \/ Forgotten(n, q)'
    BY DEF ForwardsKnown
  <2>1. CASE q = p
    <3>1. n = k
      BY <1>1, <1>2, <2>1, Here
    <3> QED  BY <1>3, <1>4, <2>1, <3>1
  <2>2. CASE q # p
    <3>1. forward[q] = n
      BY <1>1, <1>2, <2>2, Here
    <3>2. client[n].port = q \/ Forgotten(n, q)
      BY <3>1, Here, <1>1 DEF ForwardsKnown
    <3>3. client[n].port = q => n # k
      BY <1>1, <1>2, <2>2, ClientAssumption, Here
    <3> QED  BY <1>1, <1>4, <3>2, <3>3 DEF Forgotten
  <2> QED  BY <2>1, <2>2
<1>8. forward' \in [Ports -> Names \cup {None, Other}]
  BY <1>1, <1>2, Here
<1> QED
  BY <1>1, <1>3, <1>5, <1>6, <1>7, <1>8, StepInv, Here

LEMMA ConnectSocketInv == ASSUME Inv, ConnectSocket PROVE Inv'
<1>1. /\ Doing("connect") /\ Proceed
      /\ client' = [client EXCEPT ![job.n].conn = "open"]
      /\ UNCHANGED <<eventOf, forward, server, dropped, broken, lost>>
  BY DEF ConnectSocket, host, history
<1> PICK k \in Names : k = job.n
  BY <1>1, Here
<1> DEFINE c == [Me EXCEPT !.conn = "open"]
<1>2. /\ c \in ClientType /\ client' = [client EXCEPT ![k] = c]
      /\ c.event = client[k].event /\ c.port = client[k].port
  BY <1>1, Here DEF ClientType, Conns, Me
<1> HIDE DEF c
<1>3. client'[k] = c /\ Me' = c /\ \A n \in Names : client'[n].port = client[n].port
  BY <1>1, <1>2, Here DEF Me, Proceed
<1>4. GoesOn(Tail(job.steps)) /\ job'.n = job.n /\ Stages' /\ job'.steps # <<>>
  BY <1>1, <1>2, <1>3, ConnectionMoves, Here
<1>5. HandlerOf(k)'
  BY <1>4 DEF HandlerOf
<1>6. ForwardsKnown'
  BY <1>1, <1>3, KnownKept DEF Inv
<1> QED
  BY <1>1, <1>2, <1>4, <1>5, <1>6, StepInv, Here

LEMMA HandshakeInv == ASSUME Inv, Handshake PROVE Inv'
<1>1. /\ Doing("handshake") /\ Proceed
      /\ client' = [client EXCEPT ![job.n].conn = "live"]
      /\ UNCHANGED <<eventOf, forward, server, dropped, broken, lost>>
  BY DEF Handshake, host, history
<1> PICK k \in Names : k = job.n
  BY <1>1, Here
<1> DEFINE c == [Me EXCEPT !.conn = "live"]
<1>2. /\ c \in ClientType /\ client' = [client EXCEPT ![k] = c]
      /\ c.event = client[k].event /\ c.port = client[k].port
  BY <1>1, Here DEF ClientType, Conns, Me
<1> HIDE DEF c
<1>3. client'[k] = c /\ Me' = c /\ \A n \in Names : client'[n].port = client[n].port
  BY <1>1, <1>2, Here DEF Me, Proceed
<1>4. /\ GoesOn(Tail(job.steps)) /\ job'.n = job.n /\ Stages'
      /\ job'.steps # <<>> \/ Me.event = None \/ k \in broken
  BY <1>1, <1>2, <1>3, ConnectionMoves, Here
<1>5. HandlerOf(k)'
  BY <1>1, <1>2, <1>3, <1>4 DEF HandlerOf, Me
<1>6. ForwardsKnown'
  BY <1>1, <1>3, KnownKept DEF Inv
<1> QED
  BY <1>1, <1>2, <1>4, <1>5, <1>6, StepInv, Here

(* The calls that close a connection, in stop and in close_connection. *)
LEMMA Closing ==
  ASSUME Inv, NEW step \in {"close", "list", "remove"}, Doing(step)
  PROVE  /\ ~Starting /\ ~Restoring
         /\ step # "close" => Me.conn = "none"
         /\ step = "close" => (Stopping /\ Left = 6) \/ (Pausing /\ Left = 3)
         /\ step = "list" => (Stopping /\ Left = 5) \/ (Pausing /\ Left = 2)
         /\ step = "remove" => (Stopping /\ Left = 4) \/ (Pausing /\ Left = 1)
<1>1. /\ step = "close" => (Stopping /\ Left = 6) \/ (Pausing /\ Left = 3)
      /\ step = "list" => (Stopping /\ Left = 5) \/ (Pausing /\ Left = 2)
      /\ step = "remove" => (Stopping /\ Left = 4) \/ (Pausing /\ Left = 1)
  BY Places DEF Inv
<1>2. ~Starting /\ ~Restoring
  BY <1>1, Exclusive
<1>3. step # "close" => Me.conn = "none"
  BY <1>1, Here DEF Stages
<1> QED  BY <1>1, <1>2, <1>3

LEMMA CloseSocketInv == ASSUME Inv, CloseSocket PROVE Inv'
<1>1. /\ Doing("close") /\ Proceed
      /\ client' = [client EXCEPT ![job.n].conn = "none"]
      /\ UNCHANGED <<eventOf, forward, server, dropped, broken, lost>>
  BY DEF CloseSocket, host, history
<1> PICK k \in Names : k = job.n
  BY <1>1, Here
<1> DEFINE c == [Me EXCEPT !.conn = "none"]
<1>2. /\ c \in ClientType /\ client' = [client EXCEPT ![k] = c]
      /\ c.event = client[k].event /\ c.port = client[k].port /\ c.conn = "none"
  BY <1>1, Here DEF ClientType, Conns, Me
<1> HIDE DEF c
<1>3. client'[k] = c /\ Me' = c /\ \A n \in Names : client'[n].port = client[n].port
  BY <1>1, <1>2, Here DEF Me, Proceed
<1>4. /\ ~Starting /\ ~Restoring
      /\ (Stopping /\ Left = 6) \/ (Pausing /\ Left = 3)
  BY <1>1, Closing
<1>5. /\ GoesOn(Tail(job.steps)) /\ Left' = Left - 1
      /\ (~Starting /\ ~Restoring)'
      /\ (Stopping' <=> Stopping) /\ (Pausing' <=> Pausing)
  BY <1>1, <1>4, ProceedMoves
<1>6. Stages'
  <2>1. CASE Stopping /\ Left = 6
    BY <1>2, <1>3, <1>5, <2>1 DEF Stages
  <2>2. CASE Pausing /\ Left = 3
    BY <1>1, <1>2, <1>3, <1>4, <1>5, <2>2, Exclusive DEF Stages
  <2> QED  BY <1>4, <2>1, <2>2
<1>7. HandlerOf(k)'
  BY <1>2, <1>3 DEF HandlerOf
<1>8. ForwardsKnown'
  BY <1>1, <1>3, KnownKept DEF Inv
<1> QED
  BY <1>1, <1>2, <1>5, <1>6, <1>7, <1>8, StepInv, Here

LEMMA ListPortsInv == ASSUME Inv, ListPorts PROVE Inv'
<1>1. /\ Doing("list")
      /\ UNCHANGED <<managed, async, eventOf, forward, server, dropped, broken, lost>>
  BY DEF ListPorts, host, history
<1> PICK k \in Names : k = job.n
  BY <1>1, Here
<1>2. /\ ~Starting /\ ~Restoring /\ Me.conn = "none"
      /\ (Stopping /\ Left = 5) \/ (Pausing /\ Left = 2)
      /\ Stopping <=> ~Pausing
  BY <1>1, Closing, Exclusive
<1> PICK s \in Seq(StepNames) : s = Tail(job.steps)
  BY <1>1, Doings DEF Inv
<1>3. Ends(s, Program) /\ Len(s) = Left - 1 /\ Program \in Seq(StepNames)
  BY <1>1, Doings DEF Inv
<1>4. CASE Me.port # None /\ forward[Me.port] # None
  <2>1. job' = [job EXCEPT !.steps = s] /\ client' = client
    BY <1>4 DEF ListPorts
  <2>2. GoesOn(s)
    BY <1>1, <1>3, <2>1 DEF GoesOn
  <2>3. /\ job'.n = job.n /\ Left' = Left - 1
        /\ (~Starting /\ ~Restoring)'
        /\ (Stopping' <=> Stopping) /\ (Pausing' <=> Pausing)
    BY <1>1, <1>2, <1>3, <2>2, Moves
  <2>4. Me' = Me
    BY <2>1, <2>3 DEF Me
  <2>5. Stages'
    BY <1>2, <2>3, <2>4 DEF Stages
  <2>6. HandlerOf(k)'
    BY <1>2, <2>1 DEF HandlerOf, Me
  <2>7. ForwardsKnown'
    BY <1>1, <2>1, KnownKept DEF Inv
  <2> QED
    BY <1>1, <2>1, <2>2, <2>5, <2>6, <2>7, StepInv, Here
<1>5. CASE ~(Me.port # None /\ forward[Me.port] # None)
  <2>1. /\ job' = [job EXCEPT !.steps = Tail(s)]
        /\ client' = [client EXCEPT ![k].port = None]
    BY <1>5 DEF ListPorts
  <2> DEFINE c == [Me EXCEPT !.port = None]
  <2>2. /\ c \in ClientType /\ client' = [client EXCEPT ![k] = c]
        /\ c.event = client[k].event /\ c.port = None /\ c.conn = "none"
    BY <1>1, <1>2, <2>1, Here DEF ClientType, Me
  <2> HIDE DEF c
  <2>3. client'[k] = c /\ \A n \in Names : n # k => client'[n] = client[n]
    BY <1>1, <2>2, Here
  <2>4. s # <<>>
    <3>1. Len(s) # 0
      BY <1>2, <1>3
    <3> QED  BY <3>1
  <2>5. GoesOn(Tail(s)) /\ Len(Tail(s)) = Left - 2
    <3>1. /\ Tail(s) \in Seq(StepNames) /\ Ends(Tail(s), Program)
          /\ Len(Tail(s)) = Len(s) - 1
      BY <1>3, <2>4, EndsTail
    <3>2. Len(Tail(s)) = Left - 2
      BY <1>1, <1>3, <3>1, Here
    <3>3. GoesOn(Tail(s))
      BY <1>1, <2>1, <3>1 DEF GoesOn
    <3> QED  BY <3>2, <3>3
  <2>6. /\ job'.n = job.n /\ Left' = Left - 2
        /\ (~Starting /\ ~Restoring)'
        /\ (Stopping' <=> Stopping) /\ (Pausing' <=> Pausing)
    BY <1>1, <1>2, <2>5, Moves
  <2>7. Me' = c
    BY <2>3, <2>6 DEF Me
  <2>8. Stages'
    BY <1>2, <2>2, <2>6, <2>7 DEF Stages
  <2>9. HandlerOf(k)'
    BY <2>2, <2>3 DEF HandlerOf
  <2>10. ForwardsKnown'
    <3> SUFFICES ASSUME NEW q \in Ports, NEW n \in Names, forward[q] = n
                 PROVE  client'[n].port = q \/ Forgotten(n, q)
      BY <1>1 DEF ForwardsKnown, Forgotten
    <3>1. client[n].port = q \/ Forgotten(n, q)
      BY <1>1, Here DEF ForwardsKnown
    <3>2. client[n].port = q => n # k
      BY <1>5, ClientAssumption, Here, <1>1
    <3> QED  BY <2>3, <3>1, <3>2
  <2> QED
    BY <1>1, <2>2, <2>5, <2>8, <2>9, <2>10, StepInv, Here
<1> QED  BY <1>4, <1>5

LEMMA RemoveForwardInv == ASSUME Inv, RemoveForward PROVE Inv'
<1>1. /\ Doing("remove") /\ Proceed
      /\ forward' = [forward EXCEPT ![Me.port] = None]
      /\ client' = [client EXCEPT ![job.n].port = None]
      /\ UNCHANGED <<eventOf, server, dropped, broken, lost>>
  BY DEF RemoveForward, history
<1> PICK k \in Names : k = job.n
  BY <1>1, Here
<1> DEFINE c == [Me EXCEPT !.port = None]
<1>2. /\ ~Starting /\ ~Restoring /\ Me.conn = "none"
      /\ (Stopping /\ Left = 4) \/ (Pausing /\ Left = 1)
      /\ Stopping <=> ~Pausing
  BY <1>1, Closing, Exclusive
<1>3. /\ c \in ClientType /\ client' = [client EXCEPT ![k] = c]
      /\ c.event = client[k].event /\ c.port = None /\ c.conn = "none"
  BY <1>1, <1>2, Here DEF ClientType, Me
<1> HIDE DEF c
<1>4. client'[k] = c /\ Me' = c /\ \A n \in Names : n # k => client'[n] = client[n]
  BY <1>1, <1>3, Here DEF Me, Proceed
<1>5. /\ GoesOn(Tail(job.steps)) /\ Left' = Left - 1
      /\ (~Starting /\ ~Restoring)'
      /\ (Stopping' <=> Stopping) /\ (Pausing' <=> Pausing)
  BY <1>1, <1>2, ProceedMoves
<1>6. Stages'
  BY <1>2, <1>3, <1>4, <1>5 DEF Stages
<1>7. HandlerOf(k)'
  BY <1>3, <1>4 DEF HandlerOf
<1>8. ForwardsKnown'
  <2> SUFFICES ASSUME NEW q \in Ports, NEW n \in Names, forward'[q] = n
               PROVE  client'[n].port = q \/ Forgotten(n, q)
    BY <1>1 DEF ForwardsKnown, Forgotten
  <2>1. q # Me.port /\ forward[q] = n
    BY <1>1, ClientAssumption, Here
  <2>2. client[n].port = q \/ Forgotten(n, q)
    BY <1>1, <2>1, Here DEF ForwardsKnown
  <2>3. client[n].port = q => n # k
    BY <1>1, <2>1, Here
  <2> QED  BY <1>4, <2>2, <2>3
<1>9. forward' \in [Ports -> Names \cup {None, Other}]
  BY <1>1, Here
<1> QED
  BY <1>1, <1>3, <1>5, <1>6, <1>7, <1>8, <1>9, StepInv, Here

LEMMA KillProcessInv == ASSUME Inv, KillProcess PROVE Inv'
<1>1. /\ Doing("kill") /\ Proceed
      /\ client' = [client EXCEPT ![job.n].proc = FALSE]
      /\ UNCHANGED <<eventOf, forward, server, dropped, broken, lost>>
  BY DEF KillProcess, host, history
<1> PICK k \in Names : k = job.n
  BY <1>1, Here
<1> DEFINE c == [Me EXCEPT !.proc = FALSE]
<1>2. Stopping /\ ~Starting /\ ~Pausing /\ ~Restoring /\ Left = 3
  BY <1>1, Places, Exclusive DEF Inv
<1>3. Me.conn = "none" /\ Me.port = None
  BY <1>1, <1>2, Here DEF Stages
<1>4. /\ c \in ClientType /\ client' = [client EXCEPT ![k] = c]
      /\ c.event = client[k].event /\ c.port = client[k].port
      /\ c.conn = "none" /\ c.port = None /\ ~c.proc
  BY <1>1, <1>3, Here DEF ClientType, Me
<1> HIDE DEF c
<1>5. client'[k] = c /\ Me' = c /\ \A n \in Names : client'[n].port = client[n].port
  BY <1>1, <1>4, Here DEF Me, Proceed
<1>6. /\ GoesOn(Tail(job.steps)) /\ Left' = 2
      /\ (Stopping /\ ~Starting /\ ~Pausing /\ ~Restoring)'
  BY <1>1, <1>2, ProceedMoves
<1>7. Stages'
  BY <1>4, <1>5, <1>6 DEF Stages
<1>8. HandlerOf(k)'
  BY <1>4, <1>5 DEF HandlerOf
<1>9. ForwardsKnown'
  BY <1>1, <1>5, KnownKept DEF Inv
<1> QED
  BY <1>1, <1>4, <1>6, <1>7, <1>8, <1>9, StepInv, Here

LEMMA StopCommandInv == ASSUME Inv, StopCommand PROVE Inv'
<1>1. /\ Doing("command") /\ Proceed
      /\ server' = server \ {job.n} /\ eventOf' = CutEvent(job.n)
      /\ UNCHANGED <<client, forward, dropped, broken, lost>>
  BY DEF StopCommand, history
<1> PICK k \in Names : k = job.n
  BY <1>1, Here
<1>2. Stopping /\ ~Starting /\ ~Pausing /\ ~Restoring /\ Left = 2
  BY <1>1, Places, Exclusive DEF Inv
<1>3. Me.conn = "none" /\ Me.port = None /\ ~Me.proc
  BY <1>1, <1>2, Here DEF Stages
<1>4. /\ GoesOn(Tail(job.steps)) /\ Left' = 1 /\ job'.n = job.n
      /\ (Stopping /\ ~Starting /\ ~Pausing /\ ~Restoring)'
  BY <1>1, <1>2, ProceedMoves
<1>5. Me' = Me
  BY <1>1, <1>4 DEF Me
<1>6. Stages'
  BY <1>1, <1>3, <1>4, <1>5 DEF Stages
<1>7. HandlerOf(k)'
  BY <1>1, <1>3 DEF HandlerOf, Me
<1>8. ForwardsKnown'
  BY <1>1, KnownKept DEF Inv
<1>9. /\ eventOf' \in [EventClients -> EventType]
      /\ \A e \in EventClients : e # client[k].event => eventOf'[e] = eventOf[e]
  BY <1>1, Here DEF CutEvent, Cut, EventType, Conns
<1>10. server' \subseteq Names
  BY <1>1, Here
<1> QED
  BY <1>1, <1>4, <1>6, <1>7, <1>8, <1>9, <1>10, StepInv, Here

LEMMA DestroyEventInv == ASSUME Inv, DestroyEvent PROVE Inv'
<1>1. /\ Doing("destroy") /\ Proceed
      /\ eventOf' = IF Me.event = None THEN eventOf
                    ELSE [eventOf EXCEPT ![Me.event] = NewEvent]
      /\ client' = [client EXCEPT ![job.n].event = None]
      /\ broken' = broken \ {job.n}
      /\ UNCHANGED <<forward, server, dropped, lost>>
  BY DEF DestroyEvent, host
<1> PICK k \in Names : k = job.n
  BY <1>1, Here
<1> DEFINE c == [Me EXCEPT !.event = None]
<1>2. Stopping /\ ~Starting /\ ~Pausing /\ ~Restoring /\ Left = 1
  BY <1>1, Places, Exclusive DEF Inv
<1>3. Me.conn = "none" /\ Me.port = None /\ ~Me.proc /\ k \notin server
  BY <1>1, <1>2, Here DEF Stages
<1>4. /\ c \in ClientType /\ client' = [client EXCEPT ![k] = c]
      /\ c.event = None /\ c.port = client[k].port
      /\ c.conn = "none" /\ c.port = None /\ ~c.proc
  BY <1>1, <1>3, Here DEF ClientType, Me
<1> HIDE DEF c
<1>5. client'[k] = c /\ Me' = c /\ \A n \in Names : client'[n].port = client[n].port
  BY <1>1, <1>4, Here DEF Me, Proceed
<1>6. /\ GoesOn(Tail(job.steps)) /\ Left' = 0 /\ job'.n = job.n
      /\ (Stopping /\ ~Starting /\ ~Pausing /\ ~Restoring)'
  BY <1>1, <1>2, ProceedMoves
<1>7. Stages'
  BY <1>1, <1>3, <1>4, <1>5, <1>6 DEF Stages
<1>8. HandlerOf(k)'
  BY <1>4, <1>5 DEF HandlerOf
<1>9. ForwardsKnown'
  BY <1>1, <1>5, KnownKept DEF Inv
<1>10. /\ eventOf' \in [EventClients -> EventType]
       /\ \A e \in EventClients : e # client[k].event => eventOf'[e] = eventOf[e]
  BY <1>1, Here DEF EventType, NewEvent, Conns
<1> QED
  BY <1>1, <1>4, <1>6, <1>7, <1>8, <1>9, <1>10, StepInv, Here

LEMMA AdoptInv == ASSUME Inv, Adopt PROVE Inv'
<1>1. /\ Doing("adopt")
      /\ client' = [client EXCEPT ![job.n].proc = FALSE]
      /\ UNCHANGED <<managed, async, eventOf, forward, server, dropped, broken, lost>>
  BY DEF Adopt, host, history
<1> PICK k \in Names : k = job.n
  BY <1>1, Here
<1> DEFINE s == IF Me.event = None THEN <<>> ELSE Tail(job.steps)
<1>0. s \in Seq(StepNames) /\ job' = [job EXCEPT !.steps = s]
  <2>1. Tail(job.steps) \in Seq(StepNames)
    BY <1>1, Doings DEF Inv
  <2>2. <<>> \in Seq(StepNames)
    OBVIOUS
  <2> QED  BY <2>1, <2>2 DEF Adopt
<1> DEFINE c == [Me EXCEPT !.proc = FALSE]
<1>2. Restoring /\ ~Starting /\ ~Pausing /\ ~Stopping /\ Left = 3
  BY <1>1, Places, Exclusive DEF Inv
<1>3. /\ c \in ClientType /\ client' = [client EXCEPT ![k] = c]
      /\ c.event = client[k].event /\ c.port = client[k].port
  BY <1>1, Here DEF ClientType, Me
<1> HIDE DEF c
<1>4. /\ Ends(s, Program)
      /\ Me.event = None => s = <<>> /\ Len(s) = 0
      /\ Me.event # None => Len(s) = 2
  BY <1>1, <1>2, Doings, EndsItself DEF Inv
<1> HIDE DEF s
<1>5. GoesOn(s)
  BY <1>0, <1>1, <1>4 DEF GoesOn
<1>6. /\ job'.n = job.n /\ job'.steps = s /\ Left' = Len(s)
      /\ (Restoring /\ ~Starting /\ ~Pausing /\ ~Stopping)'
  BY <1>1, <1>2, <1>5, Moves
<1>7. client'[k] = c /\ Me' = c /\ \A n \in Names : client'[n].port = client[n].port
  BY <1>1, <1>3, <1>6, Here DEF Me
<1>8. Stages'
  <2>1. Me'.event = Me.event
    BY <1>3, <1>7 DEF Me
  <2>2. CASE Me.event = None
    BY <1>4, <1>6, <2>2 DEF Stages
  <2>3. CASE Me.event # None
    <3>1. Left' = 2
      BY <1>4, <1>6, <2>3
    <3> QED  BY <1>6, <2>1, <2>3, <3>1 DEF Stages
  <2> QED  BY <2>2, <2>3
<1>9. HandlerOf(k)'
  <2>1. CASE Me.event = None
    BY <1>3, <1>7, <2>1 DEF HandlerOf, Me
  <2>2. CASE Me.event # None
    <3>1. Len(s) # 0
      BY <1>4, <2>2
    <3>2. s # <<>>
      BY <3>1
    <3> QED  BY <1>6, <3>2 DEF HandlerOf
  <2> QED  BY <2>1, <2>2
<1>10. ForwardsKnown'
  BY <1>1, <1>7, KnownKept DEF Inv
<1> QED
  BY <1>1, <1>3, <1>5, <1>8, <1>9, <1>10, StepInv, Here

LEMMA ConnectEventInv == ASSUME Inv, ConnectEvent PROVE Inv'
<1>1. /\ Doing("connect_event") /\ Proceed
      /\ eventOf' = [eventOf EXCEPT ![Me.event] = [conn |-> "open", port |-> Me.port]]
      /\ UNCHANGED <<client, forward, server, dropped, broken, lost>>
  BY DEF ConnectEvent, host, history
<1> PICK k \in Names : k = job.n
  BY <1>1, Here
<1>2. Restoring /\ ~Starting /\ ~Pausing /\ ~Stopping /\ Left = 2
  BY <1>1, Places, Exclusive DEF Inv
<1>3. Me.event \in EventClients
  BY <1>1, <1>2, Here DEF Stages, ClientType
<1>4. /\ GoesOn(Tail(job.steps)) /\ Left' = 1 /\ job'.n = job.n /\ job'.steps # <<>>
      /\ (Restoring /\ ~Starting /\ ~Pausing /\ ~Stopping)'
  BY <1>1, <1>2, ProceedMoves
<1>5. Me' = Me
  BY <1>1, <1>4 DEF Me
<1>6. eventOf'[Me.event].port = Me.port
  BY <1>1, <1>3, Here
<1>7. Stages'
  BY <1>3, <1>4, <1>5, <1>6, ClientAssumption DEF Stages
<1>8. HandlerOf(k)'
  BY <1>4 DEF HandlerOf
<1>9. ForwardsKnown'
  BY <1>1, KnownKept DEF Inv
<1>10. /\ eventOf' \in [EventClients -> EventType]
       /\ \A e \in EventClients : e # client[k].event => eventOf'[e] = eventOf[e]
  <2>1. [conn |-> "open", port |-> Me.port] \in EventType
    BY <1>1, Here DEF EventType, ClientType, Conns
  <2> QED  BY <1>1, <2>1, Here
<1> QED
  BY <1>1, <1>4, <1>7, <1>8, <1>9, <1>10, StepInv, Here

LEMMA HandshakeEventInv == ASSUME Inv, HandshakeEvent PROVE Inv'
<1>1. /\ Doing("handshake_event") /\ Proceed
      /\ eventOf' = [eventOf EXCEPT ![Me.event].conn = "live"]
      /\ broken' = broken \ {job.n}
      /\ UNCHANGED <<client, forward, server, dropped, lost>>
  BY DEF HandshakeEvent, host
<1> PICK k \in Names : k = job.n
  BY <1>1, Here
<1>2. Restoring /\ ~Starting /\ ~Pausing /\ ~Stopping /\ Left = 1
  BY <1>1, Places, Exclusive DEF Inv
<1>3. Me.event \in EventClients /\ eventOf[Me.event].port = Me.port
  BY <1>1, <1>2, Here DEF Stages, ClientType
<1>4. /\ GoesOn(Tail(job.steps)) /\ Left' = 0 /\ job'.n = job.n
      /\ (Restoring /\ ~Starting /\ ~Pausing /\ ~Stopping)'
  BY <1>1, <1>2, ProceedMoves
<1>5. eventOf'[Me.event].port = Me.port /\ eventOf'[Me.event].conn = "live"
  BY <1>1, <1>3, Here DEF EventType
<1>6. Stages'
  BY <1>4 DEF Stages
<1>7. HandlerOf(k)'
  BY <1>1, <1>5 DEF HandlerOf, Served, Me
<1>8. ForwardsKnown'
  BY <1>1, KnownKept DEF Inv
<1>9. /\ eventOf' \in [EventClients -> EventType]
      /\ \A e \in EventClients : e # client[k].event => eventOf'[e] = eventOf[e]
  BY <1>1, Here DEF EventType, Conns
<1> QED
  BY <1>1, <1>4, <1>6, <1>7, <1>8, <1>9, StepInv, Here

-----------------------------------------------------------------------------
(* The calls that raise *)

LEMMA NewClientType ==
  /\ NewClient \in ClientType
  /\ NewClient.conn = "none" /\ NewClient.port = None
  /\ NewClient.event = None /\ ~NewClient.proc
BY DEF NewClient, ClientType, Conns

LEMMA DroppedWith ==
  ASSUME TypeOK, NEW k \in Names, NEW port \in Ports \cup {None}, DropWith(k, port)
  PROVE  /\ client' \in [Names -> ClientType] /\ client'[k] = NewClient
         /\ \A n \in Names : n # k => client'[n] = client[n]
         /\ dropped' \subseteq Names \X Ports /\ dropped \subseteq dropped'
         /\ port # None => <<k, port>> \in dropped'
         /\ async' \in [Threads -> AsyncType]
         /\ \A t \in Threads :
              /\ async'[t].pc = async[t].pc /\ async'[t].n = async[t].n
              /\ async'[t].on = async[t].on
              /\ async'[t].handler \in {async[t].handler, None}
<1>1. /\ client' \in [Names -> ClientType] /\ client'[k] = NewClient
      /\ \A n \in Names : n # k => client'[n] = client[n]
  BY NewClientType DEF DropWith, TypeOK
<1>2. /\ dropped' \subseteq Names \X Ports /\ dropped \subseteq dropped'
      /\ port # None => <<k, port>> \in dropped'
  BY DEF DropWith, TypeOK
<1>3. ASSUME NEW t \in Threads
      PROVE  /\ async'[t] \in AsyncType
             /\ async'[t].pc = async[t].pc /\ async'[t].n = async[t].n
             /\ async'[t].on = async[t].on
             /\ async'[t].handler \in {async[t].handler, None}
  <2>1. async[t] \in AsyncType
    BY DEF TypeOK
  <2>2. async'[t] = async[t] \/ async'[t] = [async[t] EXCEPT !.handler = None]
    BY DEF DropWith
  <2> QED  BY <2>1, <2>2 DEF AsyncType
<1>4. async' \in [Threads -> AsyncType]
  <2>1. async' = [t \in Threads |-> async'[t]]
    BY DEF DropWith
  <2> QED  BY <1>3, <2>1
<1> QED  BY <1>1, <1>2, <1>3, <1>4

LEMMA Dropped ==
  ASSUME TypeOK, NEW k \in Names, Drop(k)
  PROVE  /\ client' \in [Names -> ClientType] /\ client'[k] = NewClient
         /\ \A n \in Names : n # k => client'[n] = client[n]
         /\ dropped' \subseteq Names \X Ports /\ dropped \subseteq dropped'
         /\ client[k].port # None => <<k, client[k].port>> \in dropped'
         /\ async' \in [Threads -> AsyncType]
         /\ \A t \in Threads :
              /\ async'[t].pc = async[t].pc /\ async'[t].n = async[t].n
              /\ async'[t].handler \in {async[t].handler, None}
<1>1. client[k].port \in Ports \cup {None}
  BY DEF TypeOK, ClientType
<1> QED  BY <1>1, DroppedWith DEF Drop

LEMMA NoJobFields ==
  /\ NoJob \in JobType /\ NoJob.op = "none" /\ NoJob.n = None
  /\ NoJob.steps = <<>> /\ NoJob.todo = <<>> /\ ~NoJob.failed
<1>1. <<>> \in Seq(Names) /\ <<>> \in Seq(StepNames)
  OBVIOUS
<1> QED  BY <1>1 DEF NoJob, JobType

(* Without a job there is no stage to keep to. *)
LEMMA NoJobStage ==
  ASSUME job' = NoJob
  PROVE  Jobs' /\ Stages'
BY NoJobFields DEF Jobs, Stages

(* An exception leaves the method and its forwarded ports are right. *)
LEMMA LeavesInv ==
  ASSUME Inv, NEW step, Doing(step), Leave, NEW k, k = job.n,
         UNCHANGED <<managed, lost>>, server' \subseteq Names,
         forward' \in [Ports -> Names \cup {None, Other}],
         eventOf' \in [EventClients -> EventType],
         \A e \in EventClients : e # client[k].event => eventOf'[e] = eventOf[e],
         client' \in [Names -> ClientType],
         \A n \in Names : n # k => client'[n] = client[n],
         Gone => client'[k].event = None,
         ~Gone => client'[k].event = client[k].event,
         ~Gone /\ Pausing => client'[k].conn # "live",
         dropped' \subseteq Names \X Ports,
         async' \in [Threads -> AsyncType],
         \A t \in Threads : /\ async'[t].pc = async[t].pc /\ async'[t].n = async[t].n
                            /\ async'[t].handler \in {async[t].handler, None},
         ForwardsKnown'
  PROVE  Inv'
<1>1. /\ k \in Names /\ k # None /\ job.op \in Ops /\ job.op # "none" /\ job.steps # <<>>
      /\ \A t \in Threads : async[t].pc = "idle"
      /\ TypeOK /\ Jobs /\ Owners /\ Handlers
  BY Doings DEF Inv
<1>2. client'[k].event \in {client[k].event, None}
  OBVIOUS
<1>3. \A t \in Threads : async'[t].pc = "idle"
  BY <1>1
<1>4. broken' \subseteq Names /\ broken \subseteq broken'
  BY <1>1 DEF Leave, TypeOK
<1>5. CASE Caught
  <2>1. job' = [job EXCEPT !.steps = Stop, !.failed = TRUE]
    BY <1>5 DEF Leave
  <2>2. job.op \in {"add", "start"} /\ ~Gone /\ ~Pausing /\ ~Restoring
    BY <1>5 DEF Caught, Gone, Pausing, Restoring
  <2>3. /\ job' \in JobType /\ job'.op = job.op /\ job'.n = k /\ job'.todo = job.todo
        /\ job'.steps = Stop /\ job'.failed
    BY <1>1, <2>1, StopIs DEF TypeOK, JobType
  <2>4. TypeOK'
    BY <1>1, <1>2, <1>4, <2>3 DEF TypeOK
  <2>5. Jobs'
    <3>1. Ends(Stop, Stop)
      BY StopIs, EndsItself
    <3>2. Program' = Stop
      BY <2>3 DEF Program
    <3> QED  BY <1>1, <1>3, <2>2, <2>3, <3>1, <3>2 DEF Jobs
  <2>6. Stages'
    <3>1. Left' = 6
      BY <2>3, StopIs DEF Left
    <3>2. (Stopping /\ ~Starting /\ ~Pausing /\ ~Restoring)'
      BY <2>2, <2>3 DEF Stopping, Starting, Pausing, Restoring
    <3> QED  BY <3>1, <3>2 DEF Stages
  <2>7. Owners'
    BY <1>1, <1>2, <2>3 DEF Owners
  <2>8. HandlerOf(k)'
    <3>1. Stop # <<>>
      <4>1. Len(Stop) # 0
        BY StopIs
      <4> QED  BY <4>1
    <3> QED  BY <2>3, <3>1 DEF HandlerOf
  <2>9. Handlers'
    BY <1>1, <1>2, <1>3, <1>4, <2>8, OthersHandled
  <2> QED  BY <2>4, <2>5, <2>6, <2>7, <2>9 DEF Inv
<1>6. CASE ~Caught
  <2>1. /\ job' = NoJob
        /\ broken' = IF client[k].event = None \/ Pausing THEN broken ELSE broken \cup {k}
    BY <1>6 DEF Leave, Me, Pausing
  <2>2. TypeOK'
    BY <1>1, <1>2, <1>4, <2>1, NoJobFields DEF TypeOK
  <2>3. ~Gone => k \in ToSet(managed)
    BY <1>1, <1>6 DEF Gone, Ops, Owners
  <2>4. Owners'
    BY <1>1, <1>2, <2>1, <2>3, NoJobFields DEF Owners
  <2>5. HandlerOf(k)'
    BY <1>1, <1>2, <2>1 DEF HandlerOf
  <2>6. Handlers'
    BY <1>1, <1>2, <1>3, <1>4, <2>5, OthersHandled
  <2> QED  BY <2>1, <2>2, <2>4, <2>6, NoJobStage DEF Inv
<1> QED  BY <1>5, <1>6

LEMMA LeaveInv ==
  ASSUME Inv, NEW step, Doing(step), Leave, NEW k, k = job.n,
         UNCHANGED <<managed, forward, lost>>, server' \subseteq Names,
         eventOf' \in [EventClients -> EventType],
         \A e \in EventClients : e # client[k].event => eventOf'[e] = eventOf[e],
         NEW c \in ClientType,
         \/ /\ ~Gone /\ client' = [client EXCEPT ![k] = c] /\ UNCHANGED <<dropped, async>>
            /\ c.event = client[k].event /\ c.port = client[k].port
            /\ Pausing => c.conn = "none"
         \/ Gone /\ Drop(k)
  PROVE  Inv'
<1>1. /\ k \in Names /\ k # None /\ job.op \in Ops /\ job.op # "none" /\ job.steps # <<>>
      /\ \A t \in Threads : async[t].pc = "idle"
      /\ TypeOK /\ ForwardsKnown
  BY Doings DEF Inv
<1>2. /\ client' \in [Names -> ClientType]
      /\ \A n \in Names : n # k => client'[n] = client[n]
      /\ Gone => client'[k].event = None
      /\ ~Gone => client'[k].event = client[k].event /\ (Pausing => client'[k].conn # "live")
      /\ dropped' \subseteq Names \X Ports /\ dropped \subseteq dropped'
      /\ client'[k].port = client[k].port \/ client[k].port = None
         \/ <<k, client[k].port>> \in dropped'
      /\ async' \in [Threads -> AsyncType]
      /\ \A t \in Threads :
           /\ async'[t].pc = async[t].pc /\ async'[t].n = async[t].n
           /\ async'[t].handler \in {async[t].handler, None}
  <2>1. CASE Gone /\ Drop(k)
    BY <1>1, <2>1, Dropped, NewClientType
  <2>2. CASE /\ ~Gone /\ client' = [client EXCEPT ![k] = c] /\ UNCHANGED <<dropped, async>>
             /\ c.event = client[k].event /\ c.port = client[k].port
             /\ Pausing => c.conn = "none"
    BY <1>1, <2>2 DEF TypeOK
  <2> QED  BY <2>1, <2>2
<1>3. ForwardsKnown'
  <2> SUFFICES ASSUME NEW q \in Ports, NEW n \in Names, forward[q] = n
               PROVE  client'[n].port = q \/ <<n, q>> \in dropped' \cup lost
    BY DEF ForwardsKnown, Forgotten
  <2>1. client[n].port = q \/ <<n, q>> \in dropped \cup lost
    BY <1>1 DEF ForwardsKnown, Forgotten
  <2>2. q # None
    BY ClientAssumption
  <2> QED  BY <1>2, <2>1, <2>2
<1>4. forward' \in [Ports -> Names \cup {None, Other}]
  BY <1>1 DEF TypeOK
<1> QED  BY <1>2, <1>3, <1>4, LeavesInv

LEMMA RaisesInv == ASSUME Inv, Raises PROVE Inv'
<1>1. PICK step \in {"precheck", "launch", "check", "forward", "connect", "handshake",
                     "list", "remove", "kill", "command", "connect_event",
                     "handshake_event"} : Doing(step)
  BY DEF Raises
<1>2. /\ Leave /\ IF Gone THEN Drop(job.n) ELSE Keep
      /\ eventOf' = IF Doing("connect_event")
                    THEN [eventOf EXCEPT ![Me.event].port = Me.port] ELSE eventOf
      /\ UNCHANGED <<managed, forward, server, lost>>
  BY DEF Raises
<1> PICK k \in Names : k = job.n
  BY <1>1, Here
<1>3. Pausing => Me.conn = "none"
  <2>1. Pausing => Left < 3
    BY <1>1, Places, Exclusive DEF Inv
  <2> QED  BY <1>1, <2>1, Here DEF Stages
<1>4. /\ eventOf' \in [EventClients -> EventType]
      /\ \A e \in EventClients : e # client[k].event => eventOf'[e] = eventOf[e]
  BY <1>1, <1>2, Here DEF EventType, ClientType
<1>5. ~Gone => client' = [client EXCEPT ![k] = Me] /\ UNCHANGED <<dropped, async>>
  BY <1>1, <1>2, Here DEF Keep
<1> QED
  BY <1>1, <1>2, <1>3, <1>4, <1>5, LeaveInv, Here

LEMMA StartServerRaisesInv == ASSUME Inv, StartServerRaises PROVE Inv'
<1>1. /\ Doing("launch") /\ Leave
      /\ client' = [CutClient(job.n) EXCEPT ![job.n].proc = TRUE]
      /\ eventOf' = CutEvent(job.n)
      /\ server' \in {server \ {job.n}, server \cup {job.n}}
      /\ UNCHANGED <<managed, forward, dropped, async, lost>>
  BY DEF StartServerRaises
<1> PICK k \in Names : k = job.n
  BY <1>1, Here
<1> DEFINE c == [Me EXCEPT !.conn = Cut(@), !.proc = TRUE]
<1>2. /\ c \in ClientType /\ client' = [client EXCEPT ![k] = c]
      /\ c.event = client[k].event /\ c.port = client[k].port
  BY <1>1, Here DEF CutClient, Cut, ClientType, Conns, Me
<1> HIDE DEF c
<1>3. /\ eventOf' \in [EventClients -> EventType]
      /\ \A e \in EventClients : e # client[k].event => eventOf'[e] = eventOf[e]
  BY <1>1, Here DEF CutEvent, Cut, EventType, Conns
<1>4. ~Gone /\ ~Pausing
  <2>1. Starting
    BY <1>1, Places DEF Inv
  <2>2. Caught
    BY <1>1, <2>1 DEF Starting, Caught, Doing
  <2> QED  BY <2>1, <2>2 DEF Gone, Pausing, Starting
<1>5. server' \subseteq Names
  BY <1>1, Here
<1> QED
  BY <1>1, <1>2, <1>3, <1>4, <1>5, LeaveInv

LEMMA StopCommandUnexpectedInv == ASSUME Inv, StopCommandUnexpected PROVE Inv'
<1>1. /\ Doing("command") /\ Leave /\ IF Gone THEN Drop(job.n) ELSE Keep
      /\ server' = server \ {job.n} /\ eventOf' = CutEvent(job.n)
      /\ UNCHANGED <<managed, forward, lost>>
  BY DEF StopCommandUnexpected
<1> PICK k \in Names : k = job.n
  BY <1>1, Here
<1>2. ~Pausing
  BY <1>1, Places, Exclusive DEF Inv
<1>3. /\ eventOf' \in [EventClients -> EventType]
      /\ \A e \in EventClients : e # client[k].event => eventOf'[e] = eventOf[e]
  BY <1>1, Here DEF CutEvent, Cut, EventType, Conns
<1>4. ~Gone => client' = [client EXCEPT ![k] = Me] /\ UNCHANGED <<dropped, async>>
  BY <1>1, Here DEF Keep
<1>5. server' \subseteq Names
  BY <1>1, Here
<1> QED
  BY <1>1, <1>2, <1>3, <1>4, <1>5, LeaveInv, Here

LEMMA CloseSocketRaisesInv == ASSUME Inv, CloseSocketRaises PROVE Inv'
<1>1. /\ Doing("close") /\ Leave
      /\ UNCHANGED <<managed, eventOf, server, lost>>
  BY DEF CloseSocketRaises
<1> PICK k \in Names : k = job.n
  BY <1>1, Here
<1>2. PICK port \in {None, client[k].port} :
        /\ forward' = IF port # None THEN forward
                      ELSE [p \in Ports |-> IF p = client[k].port THEN None ELSE forward[p]]
        /\ IF Gone THEN DropWith(k, port)
           ELSE /\ client' = [client EXCEPT ![k].conn = "dead", ![k].port = port]
                /\ UNCHANGED <<dropped, async>>
  BY DEF CloseSocketRaises, Me
<1>3. /\ TypeOK /\ ForwardsKnown /\ client[k] \in ClientType
      /\ port \in Ports \cup {None}
      /\ forward' \in [Ports -> Names \cup {None, Other}]
  BY <1>1, <1>2, Here DEF ClientType
<1> DEFINE c == [client[k] EXCEPT !.conn = "dead", !.port = port]
<1>4. /\ c \in ClientType /\ c.conn = "dead" /\ c.port = port
      /\ c.event = client[k].event
  BY <1>3 DEF ClientType, Conns
<1>5. ~Gone => client' = [client EXCEPT ![k] = c] /\ UNCHANGED <<dropped, async>>
  BY <1>2, <1>3 DEF TypeOK
<1> HIDE DEF c
<1>6. /\ client' \in [Names -> ClientType]
      /\ \A n \in Names : n # k => client'[n] = client[n]
      /\ Gone => client'[k].event = None
      /\ ~Gone => client'[k].event = client[k].event /\ client'[k].conn = "dead"
      /\ dropped' \subseteq Names \X Ports /\ dropped \subseteq dropped'
      /\ client'[k].port = port \/ port = None \/ <<k, port>> \in dropped'
      /\ async' \in [Threads -> AsyncType]
      /\ \A t \in Threads :
           /\ async'[t].pc = async[t].pc /\ async'[t].n = async[t].n
           /\ async'[t].handler \in {async[t].handler, None}
  <2>1. CASE Gone
    BY <1>2, <1>3, <2>1, DroppedWith, NewClientType
  <2>2. CASE ~Gone
    BY <1>3, <1>4, <1>5, <2>2 DEF TypeOK
  <2> QED  BY <2>1, <2>2
<1>7. ForwardsKnown'
  <2> SUFFICES ASSUME NEW q \in Ports, NEW n \in Names, forward'[q] = n
               PROVE  client'[n].port = q \/ <<n, q>> \in dropped' \cup lost
    BY <1>1 DEF ForwardsKnown, Forgotten
  <2>1. forward[q] = n /\ (port = None => q # client[k].port) /\ q # None
    BY <1>2, <1>3, ClientAssumption DEF TypeOK
  <2>2. client[n].port = q \/ <<n, q>> \in dropped \cup lost
    BY <1>3, <2>1 DEF ForwardsKnown, Forgotten
  <2>3. CASE n = k /\ client[k].port = q
    BY <1>2, <1>6, <2>1, <2>3
  <2>4. CASE ~(n = k /\ client[k].port = q)
    BY <1>6, <2>2, <2>4
  <2> QED  BY <2>3, <2>4
<1>8. /\ eventOf' \in [EventClients -> EventType] /\ server' \subseteq Names
      /\ \A e \in EventClients : e # client[k].event => eventOf'[e] = eventOf[e]
  BY <1>1, Here
<1> QED
  BY <1>1, <1>3, <1>6, <1>7, <1>8, LeavesInv

LEMMA DestroyEventRaisesInv == ASSUME Inv, DestroyEventRaises PROVE Inv'
<1>1. /\ Doing("destroy") /\ Leave /\ IF Gone THEN Drop(job.n) ELSE Keep
      /\ eventOf' = [eventOf EXCEPT ![Me.event] = [conn |-> "dead", port |-> None]]
      /\ UNCHANGED <<managed, forward, server, lost>>
  BY DEF DestroyEventRaises
<1> PICK k \in Names : k = job.n
  BY <1>1, Here
<1>2. ~Pausing
  BY <1>1, Places, Exclusive DEF Inv
<1>3. /\ eventOf' \in [EventClients -> EventType]
      /\ \A e \in EventClients : e # client[k].event => eventOf'[e] = eventOf[e]
  BY <1>1, Here DEF EventType, Conns
<1>4. ~Gone => client' = [client EXCEPT ![k] = Me] /\ UNCHANGED <<dropped, async>>
  BY <1>1, Here DEF Keep
<1>5. server' \subseteq Names
  BY <1>1, Here
<1> QED
  BY <1>1, <1>2, <1>3, <1>4, <1>5, LeaveInv, Here

-----------------------------------------------------------------------------
(* The calls of the service *)

(* A client that is there once is taken out. *)
LEMMA WithoutSet ==
  ASSUME NEW S, NEW s \in Seq(S), NEW a \in ToSet(s)
  PROVE  /\ Without(s, a) \in Seq(S)
         /\ ToSet(s) \subseteq ToSet(Without(s, a)) \cup {a}
         /\ ToSet(Without(s, a)) \subseteq ToSet(s)
<1> DEFINE i == CHOOSE k \in DOMAIN s : s[k] = a
           w == Without(s, a)
<1>1. /\ Len(s) \in Nat /\ DOMAIN s = 1..Len(s) /\ \A k \in 1..Len(s) : s[k] \in S
  OBVIOUS
<1>2. i \in 1..Len(s) /\ s[i] = a
  BY <1>1 DEF ToSet
<1> DEFINE first == SubSeq(s, 1, i - 1)
           rest == SubSeq(s, i + 1, Len(s))
<1>3. w = first \o rest
  BY DEF Without, RemoveAt
<1> HIDE DEF i, w
<1>4. /\ first \in Seq(S) /\ Len(first) = i - 1
      /\ \A k \in 1..(i - 1) : first[k] = s[k]
  <2>1. \A k \in 1..(i - 1) : s[k] \in S
    BY <1>1, <1>2
  <2>2. /\ first \in Seq(S) /\ Len(first) = IF 1 <= i - 1 THEN (i - 1) - 1 + 1 ELSE 0
        /\ \A k \in 1..((i - 1) - 1 + 1) : first[k] = s[1 + k - 1]
    BY <1>1, <1>2, <2>1, SubSeqProperties
  <2> HIDE DEF first
  <2> QED  BY <1>1, <1>2, <2>2
<1>5. /\ rest \in Seq(S) /\ Len(rest) = Len(s) - i
      /\ \A k \in 1..(Len(s) - i) : rest[k] = s[k + i]
  <2>1. \A k \in (i + 1)..Len(s) : s[k] \in S
    BY <1>1, <1>2
  <2>2. /\ rest \in Seq(S) /\ Len(rest) = IF i + 1 <= Len(s) THEN Len(s) - (i + 1) + 1 ELSE 0
        /\ \A k \in 1..(Len(s) - (i + 1) + 1) : rest[k] = s[(i + 1) + k - 1]
    BY <1>1, <1>2, <2>1, SubSeqProperties
  <2> HIDE DEF rest
  <2>3. \A k \in 1..(Len(s) - i) : (i + 1) + k - 1 = k + i
    BY <1>1, <1>2
  <2> QED  BY <1>1, <1>2, <2>2, <2>3
<1> HIDE DEF first, rest
<1>6. /\ w \in Seq(S) /\ DOMAIN w = 1..(Len(s) - 1)
      /\ \A k \in 1..(Len(s) - 1) : w[k] = IF k < i THEN s[k] ELSE s[k + 1]
  <2>1. /\ w \in Seq(S) /\ Len(w) = Len(first) + Len(rest)
        /\ \A k \in 1..(Len(first) + Len(rest)) :
             w[k] = IF k <= Len(first) THEN first[k] ELSE rest[k - Len(first)]
    BY <1>3, <1>4, <1>5, ConcatProperties
  <2>2. Len(first) + Len(rest) = Len(s) - 1
    BY <1>1, <1>2, <1>4, <1>5
  <2>3. ASSUME NEW k \in 1..(Len(s) - 1) PROVE w[k] = IF k < i THEN s[k] ELSE s[k + 1]
    <3>1. CASE k < i
      BY <1>1, <1>2, <1>4, <2>1, <2>2, <3>1
    <3>2. CASE ~(k < i)
      <4>1. k - (i - 1) \in 1..(Len(s) - i) /\ (k - (i - 1)) + i = k + 1 /\ ~(k <= i - 1)
        BY <1>1, <1>2, <3>2
      <4>2. w[k] = rest[k - (i - 1)]
        BY <1>4, <2>1, <2>2, <4>1
      <4>3. rest[k - (i - 1)] = s[(k - (i - 1)) + i]
        BY <1>5, <4>1
      <4> QED  BY <3>2, <4>1, <4>2, <4>3
    <3> QED  BY <3>1, <3>2
  <2>4. Len(w) = Len(s) - 1
    BY <2>1, <2>2
  <2>5. DOMAIN w = 1..Len(w)
    BY <2>1
  <2> QED  BY <2>1, <2>3, <2>4, <2>5
<1>7. ASSUME NEW x \in ToSet(w) PROVE x \in ToSet(s)
  <2>1. PICK k \in 1..(Len(s) - 1) : x = w[k]
    BY <1>6, <1>7 DEF ToSet
  <2>2. k \in DOMAIN s /\ k + 1 \in DOMAIN s /\ (x = s[k] \/ x = s[k + 1])
    BY <1>1, <1>6, <2>1
  <2> QED  BY <2>2 DEF ToSet
<1>8. ASSUME NEW x \in ToSet(s), x # a PROVE x \in ToSet(w)
  <2>1. PICK k \in 1..Len(s) : s[k] = x
    BY <1>1, <1>8 DEF ToSet
  <2>2. k # i
    BY <1>2, <1>8, <2>1
  <2>3. CASE k < i
    <3>1. k \in 1..(Len(s) - 1) /\ w[k] = x
      BY <1>1, <1>2, <1>6, <2>1, <2>3
    <3> QED  BY <1>6, <3>1 DEF ToSet
  <2>4. CASE ~(k < i)
    <3>1. k - 1 \in 1..(Len(s) - 1) /\ ~(k - 1 < i) /\ (k - 1) + 1 = k
      BY <1>1, <1>2, <2>1, <2>2, <2>4
    <3>2. w[k - 1] = x
      BY <1>6, <2>1, <3>1
    <3> QED  BY <1>6, <3>1, <3>2 DEF ToSet
  <2> QED  BY <2>3, <2>4
<1> QED
  BY <1>6, <1>7, <1>8 DEF w

(* A job begins, with all the calls of its method or with a loop. *)

(* A job begins with all the calls of a method, or with a loop. *)
LEMMA Begins ==
  ASSUME NEW op \in Ops, NEW n \in Names \cup {None},
         job'.op = op, job'.n = n, ~job'.failed,
         job'.steps = IF n = None THEN <<>> ELSE Method(op),
         \A t \in Threads : async'[t].pc = "idle"
  PROVE  /\ job'.steps \in Seq(StepNames) /\ Jobs' /\ Stages'
         /\ n # None => job'.steps # <<>>
<1>1. op # "none"
  BY DEF Ops
<1>2. \/ op \in {"add", "start"} /\ Method(op) = Initialize
      \/ op \in {"remove", "stop"} /\ Method(op) = Stop
      \/ op = "pause" /\ Method(op) = CloseConnection
      \/ op \in {"resume", "reconnect"} /\ Method(op) = Restore
  BY DEF Ops, Method
<1>3. /\ Method(op) \in Seq(StepNames) /\ Len(Method(op)) # 0
      /\ op \in {"add", "start", "remove", "stop"} => Len(Method(op)) = 6
      /\ op = "pause" => Len(Method(op)) = 3
      /\ op \in {"resume", "reconnect"} => Len(Method(op)) = 7
  <2>1. CASE op \in {"add", "start"} /\ Method(op) = Initialize
    BY <2>1, InitializeIs
  <2>2. CASE op \in {"remove", "stop"} /\ Method(op) = Stop
    BY <2>2, StopIs
  <2>3. CASE op = "pause" /\ Method(op) = CloseConnection
    BY <2>3, CloseIs
  <2>4. CASE op \in {"resume", "reconnect"} /\ Method(op) = Restore
    BY <2>4, RestoreIs
  <2> QED  BY <1>2, <2>1, <2>2, <2>3, <2>4
<1>4. Method(op) # <<>>
  <2>1. Method(op) \in Seq(StepNames) /\ Len(Method(op)) # 0
    BY <1>3
  <2> QED  BY <2>1
<1>5. job'.steps \in Seq(StepNames)
  <2>1. <<>> \in Seq(StepNames)
    OBVIOUS
  <2> QED  BY <1>3, <2>1
<1>6. Jobs'
  <2>1. Ends(Method(op), Method(op))
    BY <1>3, EndsItself
  <2>2. Program' = Method(op)
    BY DEF Program
  <2> QED  BY <1>1, <2>1, <2>2 DEF Jobs
<1>7. Stages'
  <2>1. CASE n = None
    BY <2>1 DEF Stages
  <2>2. CASE n # None
    <3>1. Left' = Len(Method(op))
      BY <2>2 DEF Left
    <3>2. /\ Stopping' => op \in {"remove", "stop"}
          /\ Starting' => op \in {"add", "start"}
          /\ Pausing' => op = "pause"
          /\ Restoring' => op \in {"resume", "reconnect"}
      BY DEF Stopping, Starting, Pausing, Restoring
    <3>3. /\ Stopping' => Left' = 6
          /\ Starting' => Left' = 6
          /\ Pausing' => Left' = 3
          /\ Restoring' => Left' = 7
      BY <1>3, <3>1, <3>2
    <3> QED  BY <3>3 DEF Stages
  <2> QED  BY <2>1, <2>2
<1> QED  BY <1>4, <1>5, <1>6, <1>7

LEMMA FreeFields ==
  ASSUME TypeOK, Free
  PROVE  /\ job.op = "none" /\ job.n = None /\ ~job.failed
         /\ job.todo = <<>> /\ job.steps = <<>> /\ job = NoJob
         /\ \A t \in Threads : async[t].pc = "idle"
BY NoJobFields DEF Free

LEMMA ToSetEmpty == ToSet(<<>>) = {}
BY DEF ToSet

LEMMA ManagedNames == ASSUME TypeOK PROVE ToSet(managed) \subseteq Names
BY DEF TypeOK, ToSet

LEMMA AddInv == ASSUME Inv, NEW n \in Names, Add(n) PROVE Inv'
<1>1. /\ Free /\ n \notin ToSet(managed)
      /\ job' = [NoJob EXCEPT !.op = "add", !.n = n, !.steps = Method("add")]
      /\ broken' = broken \ {n}
      /\ UNCHANGED <<managed, client, eventOf, forward, server, dropped, async, lost>>
  BY DEF Add, UnusedName, host
<1>2. /\ TypeOK /\ Owners /\ Handlers /\ ForwardsKnown /\ n # None /\ "add" \in Ops
  BY ClientAssumption DEF Inv, Ops
<1>3. /\ job.op = "none" /\ job.n = None
      /\ \A t \in Threads : async[t].pc = "idle" /\ async'[t].pc = "idle"
  BY <1>1, <1>2, FreeFields
<1>4. /\ job'.op = "add" /\ job'.n = n /\ ~job'.failed /\ job'.todo = <<>>
      /\ job'.steps = Method("add")
      /\ job' = [op |-> "add", n |-> n, todo |-> <<>>, steps |-> Method("add"), failed |-> FALSE]
  BY <1>1 DEF NoJob
<1>5. /\ Method("add") \in Seq(StepNames) /\ Jobs' /\ Stages' /\ job'.steps # <<>>
  BY <1>2, <1>3, <1>4, Begins
<1>6. TypeOK'
  <2>1. <<>> \in Seq(Names)
    OBVIOUS
  <2>2. job' \in JobType
    BY <1>2, <1>4, <1>5, <2>1 DEF JobType
  <2> QED  BY <1>1, <1>2, <2>2 DEF TypeOK
<1>7. Owners'
  BY <1>1, <1>2, <1>3, <1>4, ClientAssumption DEF Owners
<1>8. Handlers'
  <2>1. HandlerOf(n)'
    BY <1>4, <1>5 DEF HandlerOf
  <2> QED  BY <1>1, <1>2, <1>3, <2>1, OthersHandled
<1>9. ForwardsKnown'
  BY <1>1, <1>2, KnownKept
<1> QED
  BY <1>5, <1>6, <1>7, <1>8, <1>9 DEF Inv

LEMMA RemoveClientInv == ASSUME Inv, NEW n \in Names, RemoveClient(n) PROVE Inv'
<1>1. /\ Free /\ n \in ToSet(managed) /\ managed' = Without(managed, n)
      /\ job' = [NoJob EXCEPT !.op = "remove", !.n = n, !.steps = Method("remove")]
      /\ UNCHANGED <<client, eventOf, forward, server, dropped, async, broken, lost>>
  BY DEF RemoveClient, host, history
<1>2. /\ TypeOK /\ Owners /\ Handlers /\ ForwardsKnown /\ n # None /\ "remove" \in Ops
  BY ClientAssumption DEF Inv, Ops
<1>3. /\ job.op = "none" /\ job.n = None
      /\ \A t \in Threads : async[t].pc = "idle" /\ async'[t].pc = "idle"
  BY <1>1, <1>2, FreeFields
<1>4. /\ job'.op = "remove" /\ job'.n = n /\ ~job'.failed /\ job'.todo = <<>>
      /\ job'.steps = Method("remove")
      /\ job' = [op |-> "remove", n |-> n, todo |-> <<>>, steps |-> Method("remove"),
                 failed |-> FALSE]
  BY <1>1 DEF NoJob
<1>5. /\ Method("remove") \in Seq(StepNames) /\ Jobs' /\ Stages' /\ job'.steps # <<>>
  BY <1>2, <1>3, <1>4, Begins
<1>6. managed' \in Seq(Names) /\ ToSet(managed) \subseteq ToSet(managed') \cup {n}
  BY <1>1, <1>2, WithoutSet DEF TypeOK
<1>7. TypeOK'
  <2>1. <<>> \in Seq(Names)
    OBVIOUS
  <2>2. job' \in JobType
    BY <1>2, <1>4, <1>5, <2>1 DEF JobType
  <2> QED  BY <1>1, <1>2, <1>6, <2>2 DEF TypeOK
<1>8. Owners'
  BY <1>1, <1>2, <1>3, <1>4, <1>6, ClientAssumption DEF Owners
<1>9. Handlers'
  <2>1. HandlerOf(n)'
    BY <1>4, <1>5 DEF HandlerOf
  <2> QED  BY <1>1, <1>2, <1>3, <2>1, OthersHandled
<1>10. ForwardsKnown'
  BY <1>1, <1>2, KnownKept
<1> QED
  BY <1>5, <1>7, <1>8, <1>9, <1>10 DEF Inv

(* Handlers when no client is changed. *)
LEMMA HandlersKept ==
  ASSUME Handlers, UNCHANGED <<client, eventOf, broken, async>>,
         \A n \in Names : n = job.n => job.steps = <<>> \/ (job'.n = n /\ job'.steps # <<>>)
  PROVE  Handlers'
BY DEF Handlers, HandlerOf, HandshakePorts, Served, Connecting

LEMMA ForAllInv ==
  ASSUME Inv, NEW op \in {"start", "stop", "pause", "resume"}, ForAll(op)
  PROVE  Inv'
<1>1. /\ Free /\ job' = [NoJob EXCEPT !.op = op, !.todo = managed]
      /\ UNCHANGED <<managed, client, eventOf, forward, server, dropped, async, broken, lost>>
  BY DEF ForAll, host, history
<1>2. /\ TypeOK /\ Owners /\ Handlers /\ ForwardsKnown /\ op \in Ops
  BY DEF Inv, Ops
<1>3. /\ job.op = "none" /\ job.n = None /\ job.steps = <<>>
      /\ \A t \in Threads : async[t].pc = "idle" /\ async'[t].pc = "idle"
  BY <1>1, <1>2, FreeFields
<1>4. /\ job'.op = op /\ job'.n = None /\ ~job'.failed /\ job'.todo = managed
      /\ job'.steps = <<>>
      /\ job' = [op |-> op, n |-> None, todo |-> managed, steps |-> <<>>, failed |-> FALSE]
  BY <1>1 DEF NoJob
<1>5. <<>> \in Seq(StepNames) /\ Jobs' /\ Stages'
  BY <1>2, <1>3, <1>4, Begins
<1>6. TypeOK'
  <2>1. job' \in JobType
    BY <1>2, <1>4, <1>5 DEF JobType, TypeOK
  <2> QED  BY <1>1, <1>2, <2>1 DEF TypeOK
<1>7. Owners'
  BY <1>1, <1>2, <1>3, <1>4 DEF Owners
<1>8. Handlers'
  BY <1>1, <1>2, <1>3, HandlersKept
<1>9. ForwardsKnown'
  BY <1>1, <1>2, KnownKept
<1> QED
  BY <1>5, <1>6, <1>7, <1>8, <1>9 DEF Inv

LEMMA Reassigned ==
  ASSUME TypeOK, ForwardsKnown, NEW n \in Names, NEW port \in Ports \cup {None},
         Reassign(n, port), UNCHANGED <<forward, dropped>>
  PROVE  /\ client' \in [Names -> ClientType] /\ lost' \subseteq Names \X Ports
         /\ \A m \in Names : m # n => client'[m] = client[m]
         /\ \A m \in Names : client'[m].event = client[m].event
         /\ ForwardsKnown'
<1>1. [client[n] EXCEPT !.port = port] \in ClientType
  BY DEF TypeOK, ClientType
<1>2. client' = [client EXCEPT ![n] = [client[n] EXCEPT !.port = port]]
  BY DEF Reassign, TypeOK
<1>3. /\ client' \in [Names -> ClientType]
      /\ \A m \in Names : m # n => client'[m] = client[m]
      /\ \A m \in Names : client'[m].event = client[m].event
      /\ client'[n].port = port
  BY <1>1, <1>2 DEF TypeOK, ClientType
<1>4. /\ lost' \subseteq Names \X Ports /\ lost \subseteq lost'
      /\ client[n].port \notin {None, port} => <<n, client[n].port>> \in lost'
  BY DEF Reassign, TypeOK, ClientType
<1>5. ForwardsKnown'
  <2> SUFFICES ASSUME NEW q \in Ports, NEW m \in Names, forward[q] = m
               PROVE  client'[m].port = q \/ <<m, q>> \in dropped \cup lost'
    BY DEF ForwardsKnown, Forgotten
  <2>1. client[m].port = q \/ <<m, q>> \in dropped \cup lost
    BY DEF ForwardsKnown, Forgotten
  <2>2. q # None
    BY ClientAssumption
  <2> QED  BY <1>3, <1>4, <2>1, <2>2
<1> QED  BY <1>3, <1>4, <1>5

LEMMA ReconnectInv ==
  ASSUME Inv, NEW n \in Names, NEW port \in Ports \cup {None}, Reconnect(n, port)
  PROVE  Inv'
<1>1. /\ Free /\ n \in ToSet(managed) /\ Reassign(n, port)
      /\ job' = [NoJob EXCEPT !.op = "reconnect", !.n = n, !.steps = Method("reconnect")]
      /\ UNCHANGED <<managed, eventOf, forward, server, dropped, async, broken>>
  BY DEF Reconnect, host
<1>2. /\ TypeOK /\ Owners /\ Handlers /\ ForwardsKnown /\ n # None /\ "reconnect" \in Ops
  BY ClientAssumption DEF Inv, Ops
<1>3. /\ job.op = "none" /\ job.n = None
      /\ \A t \in Threads : async[t].pc = "idle" /\ async'[t].pc = "idle"
  BY <1>1, <1>2, FreeFields
<1>4. /\ job'.op = "reconnect" /\ job'.n = n /\ ~job'.failed /\ job'.todo = <<>>
      /\ job'.steps = Method("reconnect")
      /\ job' = [op |-> "reconnect", n |-> n, todo |-> <<>>, steps |-> Method("reconnect"),
                 failed |-> FALSE]
  BY <1>1 DEF NoJob
<1>5. /\ Method("reconnect") \in Seq(StepNames) /\ Jobs' /\ Stages' /\ job'.steps # <<>>
  BY <1>2, <1>3, <1>4, Begins
<1>6. /\ client' \in [Names -> ClientType] /\ lost' \subseteq Names \X Ports
      /\ \A m \in Names : m # n => client'[m] = client[m]
      /\ \A m \in Names : client'[m].event = client[m].event
      /\ ForwardsKnown'
  BY <1>1, <1>2, Reassigned
<1>7. TypeOK'
  <2>1. <<>> \in Seq(Names)
    OBVIOUS
  <2>2. job' \in JobType
    BY <1>2, <1>4, <1>5, <2>1 DEF JobType
  <2> QED  BY <1>1, <1>2, <1>6, <2>2 DEF TypeOK
<1>8. Owners'
  <2>1. \A m \in Names : m \in ToSet(managed') \/ m = job'.n \/ client'[m].event = None
    BY <1>1, <1>2, <1>3, <1>6, ClientAssumption DEF Owners
  <2>2. ToSet(job'.todo) = {} /\ job'.n \in ToSet(managed')
    BY <1>1, <1>4, ToSetEmpty
  <2>3. \A t \in Threads : async'[t].pc = "idle" /\ async'[t] = async[t]
    BY <1>1, <1>3
  <2>4. \A m, l \in Names :
          m # l /\ client'[m].event = client'[l].event => client'[m].event = None
    BY <1>2, <1>6 DEF Owners
  <2> QED  BY <1>2, <2>1, <2>2, <2>3, <2>4 DEF Owners
<1>9. Handlers'
  <2>1. HandlerOf(n)'
    BY <1>4, <1>5 DEF HandlerOf
  <2> QED  BY <1>1, <1>2, <1>3, <1>6, <2>1, OthersHandled
<1> QED
  BY <1>5, <1>6, <1>7, <1>8, <1>9 DEF Inv

LEMMA NextClientInv == ASSUME Inv, NextClient PROVE Inv'
<1>1. /\ job.n = None /\ job.todo # <<>>
      /\ UNCHANGED <<managed, eventOf, forward, server, dropped, async, broken>>
  BY DEF NextClient, host
<1>2. /\ TypeOK /\ Jobs /\ Owners /\ Handlers /\ ForwardsKnown
  BY DEF Inv
<1>3. /\ job \in JobType /\ job.op # "none" /\ job.op \in Ops
      /\ job.steps = <<>> /\ ~job.failed
      /\ \A t \in Threads : async[t].pc = "idle" /\ async'[t].pc = "idle"
  BY <1>1, <1>2, NoJobFields DEF Jobs, TypeOK, JobType
<1>4. PICK n \in Names :
        /\ n = Head(job.todo) /\ n \in ToSet(job.todo)
        /\ Tail(job.todo) \in Seq(Names)
        /\ ToSet(Tail(job.todo)) \subseteq ToSet(job.todo)
  BY <1>1, <1>3, TailSet DEF JobType
<1>5. CASE ~Needs(job.op, n)
  <2>1. job' = [job EXCEPT !.todo = Tail(@)] /\ UNCHANGED <<client, lost>>
    BY <1>4, <1>5 DEF NextClient
  <2>2. /\ job' \in JobType /\ job'.op = job.op /\ job'.n = None /\ job'.steps = <<>>
        /\ ~job'.failed /\ job'.todo = Tail(job.todo)
    BY <1>1, <1>3, <1>4, <2>1 DEF JobType
  <2>3. Jobs' /\ Stages'
    BY <1>3, <2>2 DEF Jobs, Stages
  <2>4. TypeOK'
    BY <1>1, <1>2, <2>1, <2>2 DEF TypeOK
  <2>5. Owners'
    BY <1>1, <1>2, <1>4, <2>1, <2>2 DEF Owners
  <2>6. Handlers'
    BY <1>1, <1>2, <1>3, <2>1, HandlersKept
  <2>7. ForwardsKnown'
    BY <1>1, <1>2, <2>1, KnownKept
  <2> QED  BY <2>3, <2>4, <2>5, <2>6, <2>7 DEF Inv
<1>6. CASE Needs(job.op, n)
  <2>1. /\ job' = [job EXCEPT !.n = n, !.todo = Tail(@), !.steps = Method(job.op)]
        /\ Reassign(n, None) \/ UNCHANGED <<client, lost>>
    BY <1>4, <1>6 DEF NextClient
  <2>2. /\ job'.op = job.op /\ job'.n = n /\ job'.steps = Method(job.op)
        /\ job'.failed = job.failed /\ job'.todo = Tail(job.todo)
        /\ job' = [op |-> job.op, n |-> n, todo |-> Tail(job.todo), steps |-> Method(job.op),
                   failed |-> job.failed]
    BY <1>3, <2>1 DEF JobType
  <2>3. n # None
    BY <1>4, ClientAssumption
  <2>4. Method(job.op) \in Seq(StepNames) /\ Jobs' /\ Stages' /\ job'.steps # <<>>
    BY <1>3, <1>4, <2>2, <2>3, Begins
  <2>5. /\ client' \in [Names -> ClientType] /\ lost' \subseteq Names \X Ports
        /\ \A m \in Names : m # n => client'[m] = client[m]
        /\ \A m \in Names : client'[m].event = client[m].event
        /\ ForwardsKnown'
    <3>1. CASE Reassign(n, None)
      BY <1>1, <1>2, <1>4, <3>1, Reassigned
    <3>2. CASE UNCHANGED <<client, lost>>
      BY <1>1, <1>2, <3>2, KnownKept DEF TypeOK
    <3> QED  BY <2>1, <3>1, <3>2
  <2>6. TypeOK'
    <3>1. job' \in JobType
      BY <1>3, <1>4, <2>2, <2>4 DEF JobType
    <3> QED  BY <1>1, <1>2, <2>5, <3>1 DEF TypeOK
  <2>7. Owners'
    <3>1. /\ ToSet(job.todo) \subseteq ToSet(managed) \/ job.op \in {"add", "remove"}
          /\ \A m \in Names : m \in ToSet(managed) \/ client[m].event = None
      BY <1>1, <1>2, <1>3, ClientAssumption DEF Owners, Ops
    <3>2. \A m, l \in Names :
            m # l /\ client'[m].event = client'[l].event => client'[m].event = None
      BY <1>2, <2>5 DEF Owners
    <3>3. \A m \in Names : m \in ToSet(managed') \/ client'[m].event = None
      BY <1>1, <2>5, <3>1
    <3> QED  BY <1>1, <1>2, <1>3, <1>4, <2>2, <3>1, <3>2, <3>3 DEF Owners
  <2>8. Handlers'
    <3>1. HandlerOf(n)'
      BY <2>2, <2>4 DEF HandlerOf
    <3> QED  BY <1>1, <1>2, <1>3, <1>4, <2>5, <3>1, OthersHandled
  <2> QED  BY <2>4, <2>5, <2>6, <2>7, <2>8 DEF Inv
<1> QED  BY <1>5, <1>6

LEMMA JobEndsInv == ASSUME Inv, JobEnds PROVE Inv'
<1>1. /\ job.n = None /\ job' = NoJob
      /\ UNCHANGED <<managed, client, eventOf, forward, server, dropped, async, broken, lost>>
  BY DEF JobEnds, host, history
<1>2. TypeOK /\ Jobs /\ Owners /\ Handlers /\ ForwardsKnown
  BY DEF Inv
<1>3. Jobs' /\ Stages'
  BY <1>1, NoJobStage
<1>4. TypeOK'
  BY <1>1, <1>2, NoJobFields DEF TypeOK
<1>5. Owners'
  BY <1>1, <1>2, NoJobFields DEF Owners
<1>6. Handlers'
  BY <1>1, <1>2, HandlersKept DEF Jobs
<1>7. ForwardsKnown'
  BY <1>1, <1>2, KnownKept
<1> QED  BY <1>3, <1>4, <1>5, <1>6, <1>7 DEF Inv

LEMMA MethodReturnsInv == ASSUME Inv, MethodReturns PROVE Inv'
<1> PICK k \in Names : k = job.n
  BY DEF MethodReturns, Inv, TypeOK, JobType
<1> DEFINE gone == job.op = "remove" \/ (job.op = "add" /\ job.failed)
<1>1. /\ k # None /\ job.steps = <<>>
      /\ managed' = IF job.op = "add" /\ ~job.failed THEN Append(managed, k) ELSE managed
      /\ job' = IF job.failed THEN NoJob ELSE [job EXCEPT !.n = None]
      /\ IF gone THEN Drop(k) ELSE Keep
      /\ UNCHANGED <<eventOf, forward, server, broken, lost>>
  BY DEF MethodReturns, history
<1> HIDE DEF gone
<1>2. TypeOK /\ Jobs /\ Owners /\ Handlers /\ ForwardsKnown
  BY DEF Inv
<1>3. /\ job \in JobType /\ job.op # "none"
      /\ \A t \in Threads : async[t].pc = "idle"
  BY <1>1, <1>2, NoJobFields DEF Jobs, TypeOK
<1>4. /\ client' \in [Names -> ClientType]
      /\ \A n \in Names : n # k => client'[n] = client[n]
      /\ gone => client'[k].event = None
      /\ ~gone => client' = client
      /\ dropped' \subseteq Names \X Ports /\ dropped \subseteq dropped'
      /\ \/ client'[k].port = client[k].port
         \/ client[k].port = None
         \/ <<k, client[k].port>> \in dropped'
      /\ async' \in [Threads -> AsyncType]
      /\ \A t \in Threads :
           /\ async'[t].pc = async[t].pc /\ async'[t].n = async[t].n
           /\ async'[t].handler \in {async[t].handler, None}
  <2>1. CASE gone
    BY <1>1, <1>2, <2>1, Dropped, NewClientType
  <2>2. CASE ~gone
    BY <1>1, <1>2, <2>2 DEF Keep, TypeOK
  <2> QED  BY <2>1, <2>2
<1>5. /\ job' \in JobType /\ job'.n = None /\ job'.steps = <<>> /\ ~job'.failed
      /\ job'.op = "none" => job' = NoJob
      /\ job'.op # "none" => job'.op = job.op /\ job'.todo = job.todo
  BY <1>1, <1>3, NoJobFields DEF JobType
<1>6. Jobs' /\ Stages'
  BY <1>3, <1>4, <1>5 DEF Jobs, Stages
<1>7. /\ managed' \in Seq(Names) /\ ToSet(managed) \subseteq ToSet(managed')
      /\ job.op = "add" /\ ~job.failed => k \in ToSet(managed')
  BY <1>1, <1>2, AppendSet DEF TypeOK
<1>8. TypeOK'
  BY <1>1, <1>2, <1>4, <1>5, <1>7 DEF TypeOK
<1>9. Owners'
  <2>1. k \in ToSet(managed') \/ client'[k].event = None
    BY <1>1, <1>2, <1>3, <1>4, <1>7 DEF Owners, gone, JobType, Ops
  <2>2. \A n \in Names : n \in ToSet(managed') \/ client'[n].event = None
    BY <1>2, <1>4, <1>7, <2>1 DEF Owners
  <2>3. \A n \in Names : client'[n].event \in {client[n].event, None}
    BY <1>4
  <2> QED  BY <1>2, <1>3, <1>4, <1>5, <1>7, <2>2, <2>3 DEF Owners
<1>10. Handlers'
  <2>1. HandlerOf(k)'
    <3>1. CASE gone
      BY <1>4, <3>1 DEF HandlerOf
    <3>2. CASE ~gone
      <4>1. HandlerOf(k) /\ \A t \in Threads : ~Connecting(t)
        BY <1>2, <1>3 DEF Handlers, Connecting
      <4>2. client'[k] = client[k]
        BY <1>4, <3>2
      <4> QED  BY <1>1, <4>1, <4>2 DEF HandlerOf, Served
    <3> QED  BY <3>1, <3>2
  <2>2. \A t \in Threads : async'[t].pc = "idle"
    BY <1>3, <1>4
  <2> QED  BY <1>1, <1>2, <1>3, <1>4, <2>1, <2>2, OthersHandled
<1>11. ForwardsKnown'
  <2> SUFFICES ASSUME NEW q \in Ports, NEW n \in Names, forward[q] = n
               PROVE  client'[n].port = q \/ <<n, q>> \in dropped' \cup lost
    BY <1>1 DEF ForwardsKnown, Forgotten
  <2>1. client[n].port = q \/ <<n, q>> \in dropped \cup lost
    BY <1>2 DEF ForwardsKnown, Forgotten
  <2>2. q # None
    BY ClientAssumption
  <2> QED  BY <1>4, <2>1, <2>2
<1> QED  BY <1>6, <1>8, <1>9, <1>10, <1>11 DEF Inv

-----------------------------------------------------------------------------
(* Threads in handle_callback *)

LEMMA NoJobWhile ==
  ASSUME Inv, NEW t \in Threads, async[t].pc # "idle"
  PROVE  /\ job = NoJob /\ job.op = "none" /\ job.n = None /\ job.steps = <<>>
         /\ async[t].n \in Names /\ async[t].n \in ToSet(managed) /\ async[t] \in AsyncType
<1>1. job = NoJob
  BY DEF Inv, Jobs
<1>2. async[t].n \in ToSet(managed) /\ TypeOK
  BY DEF Inv, Owners
<1> QED  BY <1>1, <1>2, NoJobFields, ManagedNames DEF TypeOK

(* Types and owners when a thread goes on. *)
LEMMA ThreadGoesOn ==
  ASSUME Inv, NEW t \in Threads, job = NoJob, NEW a \in AsyncType,
         async' = [async EXCEPT ![t] = a],
         a.pc # "idle" => a.n \in ToSet(managed), a.handler # None => a.n \in Names,
         UNCHANGED <<managed, forward, server, dropped, job, lost>>,
         client' \in [Names -> ClientType], eventOf' \in [EventClients -> EventType],
         broken' \subseteq Names,
         \A n \in Names : n \in ToSet(managed) \/ client'[n].event = None,
         \A n, m \in Names :
           n # m /\ client'[n].event = client'[m].event => client'[n].event = None,
         Handlers', ForwardsKnown'
  PROVE  Inv'
<1>1. TypeOK /\ Owners /\ job.op = "none" /\ job.n = None
  BY NoJobFields DEF Inv
<1>2. async'[t] = a /\ \A u \in Threads : u # t => async'[u] = async[u]
  BY <1>1 DEF TypeOK
<1>3. Jobs' /\ Stages'
  BY NoJobStage
<1>4. TypeOK'
  BY <1>1 DEF TypeOK
<1>5. Owners'
  BY <1>1, <1>2, NoJobFields DEF Owners
<1> QED  BY <1>3, <1>4, <1>5 DEF Inv

LEMMA AsyncInv ==
  ASSUME Inv, NEW t \in Threads, NEW n \in Names, Async(t, n)
  PROVE  Inv'
<1> DEFINE a == [pc |-> IF client[n].event = None THEN "create" ELSE "handler",
                 n |-> n, on |-> None, handler |-> None]
<1>1. /\ job = NoJob /\ async[t].pc = "idle" /\ n \in ToSet(managed)
      /\ async' = [async EXCEPT ![t] = a]
      /\ UNCHANGED <<managed, client, eventOf, forward, server, dropped, job, broken, lost>>
  BY DEF Async, host, history
<1>2. a \in AsyncType /\ a.n = n /\ a.handler = None /\ a.pc \in {"create", "handler"}
  BY DEF AsyncType
<1> HIDE DEF a
<1>3. TypeOK /\ Owners /\ Handlers /\ ForwardsKnown
  BY DEF Inv
<1>4. async'[t] = a /\ \A u \in Threads : u # t => async'[u] = async[u]
  BY <1>1, <1>3 DEF TypeOK
<1>5. Handlers'
  <2>1. \A u \in Threads : Connecting(u) => u # t
    BY <1>1 DEF Connecting
  <2>2. \A u \in Threads : u # t => (Connecting(u)' <=> Connecting(u))
    BY <1>1, <1>4 DEF Connecting
  <2>3. ASSUME NEW m \in Names PROVE HandlerOf(m)'
    BY <1>1, <1>3, <1>4, <2>1, <2>2 DEF Handlers, HandlerOf, Served
  <2>4. HandshakePorts'
    BY <1>1, <1>2, <1>3, <1>4 DEF Handlers, HandshakePorts
  <2> QED  BY <2>3, <2>4 DEF Handlers
<1>6. ForwardsKnown'
  BY <1>1, <1>3, KnownKept
<1>7. /\ client' \in [Names -> ClientType] /\ eventOf' \in [EventClients -> EventType]
      /\ broken' \subseteq Names
  BY <1>1, <1>3 DEF TypeOK
<1>8. /\ \A m \in Names : m \in ToSet(managed) \/ client'[m].event = None
      /\ \A m, l \in Names :
           m # l /\ client'[m].event = client'[l].event => client'[m].event = None
  BY <1>1, <1>3, NoJobFields, ClientAssumption DEF Owners
<1> QED
  BY <1>1, <1>2, <1>5, <1>6, <1>7, <1>8, ThreadGoesOn

LEMMA CreateEventInv == ASSUME Inv, NEW t \in Threads, CreateEvent(t) PROVE Inv'
<1>1. PICK e \in EventClients :
        /\ Unused(e) /\ async[t].pc = "create"
        /\ client' = [client EXCEPT ![async[t].n].event = e]
        /\ eventOf' = [eventOf EXCEPT ![e] = NewEvent]
        /\ async' = [async EXCEPT ![t].pc = "connect"]
        /\ UNCHANGED <<managed, forward, server, dropped, job, broken, lost>>
  BY DEF CreateEvent, host, history, Goto
<1>2. /\ job = NoJob /\ job.n = None /\ async[t] \in AsyncType
      /\ async[t].n \in Names /\ async[t].n \in ToSet(managed)
  BY <1>1, NoJobWhile
<1> PICK n \in Names : n = async[t].n
  BY <1>2
<1>3. TypeOK /\ Owners /\ Handlers /\ ForwardsKnown
  BY DEF Inv
<1> DEFINE c == [client[n] EXCEPT !.event = e]
           a == [async[t] EXCEPT !.pc = "connect"]
<1>4. /\ c \in ClientType /\ client' = [client EXCEPT ![n] = c]
      /\ c.event = e /\ c.port = client[n].port
  BY <1>1, <1>3 DEF TypeOK, ClientType
<1>5. /\ a \in AsyncType /\ async' = [async EXCEPT ![t] = a]
      /\ a.pc = "connect" /\ a.n = n /\ a.handler = async[t].handler
  BY <1>1, <1>2, <1>3 DEF TypeOK, AsyncType
<1> HIDE DEF c, a
<1>6. /\ client' \in [Names -> ClientType] /\ client'[n] = c
      /\ \A m \in Names : m # n => client'[m] = client[m]
      /\ async'[t] = a /\ \A u \in Threads : u # t => async'[u] = async[u]
  BY <1>3, <1>4, <1>5 DEF TypeOK
<1>7. /\ eventOf' \in [EventClients -> EventType]
      /\ \A f \in EventClients : f # e => eventOf'[f] = eventOf[f]
  BY <1>1, <1>3 DEF TypeOK, EventType, NewEvent, Conns
<1>8. /\ \A m \in Names : client[m].event # e
      /\ \A u \in Threads : async[u].on # e
  BY <1>1 DEF Unused, Referred
<1>9. Handlers'
  <2>1. HandlerOf(n)'
    <3>1. Connecting(t)' /\ async'[t].n = n
      BY <1>5, <1>6 DEF Connecting
    <3> QED  BY <3>1 DEF HandlerOf
  <2>2. ASSUME NEW m \in Names, m # n PROVE HandlerOf(m)'
    <3>1. HandlerOf(m) /\ client'[m] = client[m]
      BY <1>3, <1>6, <2>2 DEF Handlers
    <3>2. Served(m) /\ client[m].event # None => Served(m)'
      BY <1>3, <1>7, <1>8, <3>1 DEF Served, TypeOK, ClientType
    <3>3. ASSUME NEW u \in Threads, async[u].n = m, Connecting(u)
          PROVE  async'[u].n = m /\ Connecting(u)'
      BY <1>6, <2>2, <3>1, <3>3 DEF Connecting
    <3> QED  BY <1>1, <1>2, <3>1, <3>2, <3>3, NoJobFields DEF HandlerOf
  <2>3. HandshakePorts'
    <3> SUFFICES ASSUME NEW u \in Threads, async'[u].pc = "handshake", async'[u].on # None,
                        async'[u].on = client'[async'[u].n].event
                 PROVE  eventOf'[async'[u].on].port = client'[async'[u].n].port
      BY DEF HandshakePorts
    <3>1. u # t /\ async'[u] = async[u]
      BY <1>5, <1>6
    <3>2. async[u].n \in Names /\ async[u] \in AsyncType
      BY <3>1, NoJobWhile
    <3>3. async[u].n # n
      BY <1>4, <1>6, <1>8, <3>1
    <3>4. client'[async[u].n] = client[async[u].n]
      BY <1>6, <3>2, <3>3
    <3>5. eventOf'[async[u].on] = eventOf[async[u].on]
      BY <1>7, <1>8, <3>1, <3>2 DEF AsyncType
    <3> QED  BY <1>3, <3>1, <3>4, <3>5 DEF Handlers, HandshakePorts
  <2> QED  BY <2>1, <2>2, <2>3 DEF Handlers
<1>10. ForwardsKnown'
  <2>1. \A m \in Names : client'[m].port = client[m].port
    BY <1>4, <1>6
  <2> QED  BY <1>1, <1>3, <2>1, KnownKept
<1>11. \A m \in Names : m \in ToSet(managed) \/ client'[m].event = None
  BY <1>2, <1>3, <1>6, ClientAssumption DEF Owners
<1>12. \A m, l \in Names :
         m # l /\ client'[m].event = client'[l].event => client'[m].event = None
  BY <1>3, <1>4, <1>6, <1>8 DEF Owners
<1>13. broken' \subseteq Names /\ (a.handler # None => a.n \in Names)
  BY <1>1, <1>3, <1>5 DEF TypeOK
<1>14. /\ a \in AsyncType /\ async' = [async EXCEPT ![t] = a]
       /\ a.n \in ToSet(managed) /\ job = NoJob
       /\ UNCHANGED <<managed, forward, server, dropped, job, lost>>
       /\ client' \in [Names -> ClientType] /\ eventOf' \in [EventClients -> EventType]
  BY <1>1, <1>2, <1>5, <1>6, <1>7
<1> QED
  BY <1>9, <1>10, <1>11, <1>12, <1>13, <1>14, ThreadGoesOn

(* What a thread does to its client's event client is nothing to other       *)
(* clients, when their threads do not move.                                  *)
LEMMA OthersKept ==
  ASSUME TypeOK, Owners, Handlers, job = NoJob, UNCHANGED <<client, job>>,
         NEW t \in Threads, NEW n \in Names, n = async[t].n, async'[t].n = n,
         \A u \in Threads : u # t => async'[u] = async[u],
         \A e \in EventClients : e # client[n].event => eventOf'[e] = eventOf[e],
         NEW m \in Names, m # n, m \in broken' => m \in broken, m \in broken => m \in broken'
  PROVE  HandlerOf(m)'
<1>1. HandlerOf(m) /\ job.n = None /\ m # None
  BY NoJobFields, ClientAssumption DEF Handlers
<1>2. Served(m) /\ client[m].event # None => Served(m)'
  BY DEF Served, TypeOK, ClientType, Owners
<1>3. ASSUME NEW u \in Threads, async[u].n = m, Connecting(u)
      PROVE  async'[u].n = m /\ Connecting(u)'
  BY <1>3 DEF Connecting
<1> QED  BY <1>1, <1>2, <1>3 DEF HandlerOf

LEMMA AsyncConnectInv == ASSUME Inv, NEW t \in Threads, AsyncConnect(t) PROVE Inv'
<1>1. async[t].pc = "connect"
  BY DEF AsyncConnect
<1>2. /\ job = NoJob /\ job.n = None /\ async[t] \in AsyncType
      /\ async[t].n \in Names /\ async[t].n \in ToSet(managed)
  BY <1>1, NoJobWhile
<1> PICK n \in Names : n = async[t].n
  BY <1>2
<1>3. TypeOK /\ Owners /\ Handlers /\ ForwardsKnown
  BY DEF Inv
<1> DEFINE c == client[n]
           up == c.port # None /\ forward[c.port] # None
           a == [async[t] EXCEPT !.pc = IF up THEN "handshake" ELSE "idle",
                                 !.on = IF up THEN c.event ELSE None]
           v == [conn |-> IF up THEN "open" ELSE eventOf[c.event].conn, port |-> c.port]
<1>4. /\ eventOf' = [eventOf EXCEPT ![c.event] = v]
      /\ async' = [async EXCEPT ![t] = a]
      /\ broken' = IF up THEN broken ELSE broken \cup {n}
      /\ UNCHANGED <<managed, client, forward, server, dropped, job, lost>>
  <2>1. eventOf' = [eventOf EXCEPT ![c.event] =
                      [conn |-> IF up THEN "open" ELSE @.conn, port |-> c.port]]
    BY DEF AsyncConnect
  <2>2. eventOf' = [eventOf EXCEPT ![c.event] = v]
    BY <1>3, <2>1 DEF TypeOK
  <2>3. async' = [async EXCEPT ![t] = a]
    BY <1>3 DEF AsyncConnect, TypeOK
  <2> QED  BY <2>2, <2>3 DEF AsyncConnect, host
<1>5. c \in ClientType
  BY <1>3 DEF TypeOK
<1>6. /\ a \in AsyncType /\ a.n = n /\ a.handler = async[t].handler
      /\ a.pc = IF up THEN "handshake" ELSE "idle"
      /\ a.on = IF up THEN c.event ELSE None
  BY <1>2, <1>5 DEF AsyncType, ClientType
<1>7. /\ eventOf' \in [EventClients -> EventType]
      /\ \A e \in EventClients : e # c.event => eventOf'[e] = eventOf[e]
      /\ c.event \in EventClients => eventOf'[c.event].port = c.port
  <2>1. CASE c.event \in EventClients
    <3>1. v \in EventType /\ v.port = c.port
      BY <1>3, <1>5, <2>1 DEF TypeOK, EventType, ClientType, Conns
    <3> QED  BY <1>3, <1>4, <2>1, <3>1 DEF TypeOK
  <2>2. CASE c.event \notin EventClients
    BY <1>3, <1>4, <2>2 DEF TypeOK
  <2> QED  BY <2>1, <2>2
<1>8. async'[t] = a /\ \A u \in Threads : u # t => async'[u] = async[u]
  BY <1>3, <1>4 DEF TypeOK
<1> HIDE DEF a, v
<1>9. Handlers'
  <2>1. HandlerOf(n)'
    <3>1. CASE up
      <4>1. Connecting(t)' /\ async'[t].n = n
        BY <1>4, <1>6, <1>8, <3>1 DEF Connecting
      <4> QED  BY <4>1 DEF HandlerOf
    <3>2. CASE ~up
      BY <1>4, <3>2 DEF HandlerOf
    <3> QED  BY <3>1, <3>2
  <2>2. ASSUME NEW m \in Names, m # n PROVE HandlerOf(m)'
    BY <1>2, <1>3, <1>4, <1>6, <1>7, <1>8, <2>2, OthersKept
  <2>3. HandshakePorts'
    <3> SUFFICES ASSUME NEW u \in Threads, async'[u].pc = "handshake", async'[u].on # None,
                        async'[u].on = client'[async'[u].n].event
                 PROVE  eventOf'[async'[u].on].port = client'[async'[u].n].port
      BY DEF HandshakePorts
    <3>1. CASE async'[u].n = n
      <4>1. async'[u].on = c.event /\ c.event \in EventClients
        BY <1>4, <1>5, <3>1 DEF ClientType
      <4> QED  BY <1>4, <1>7, <3>1, <4>1
    <3>2. CASE async'[u].n # n
      <4>1. async'[u] = async[u]
        BY <1>6, <1>8, <3>2
      <4>2. async[u].n \in Names
        BY <4>1, NoJobWhile
      <4>3. async[u].on = client[async[u].n].event /\ async[u].on \in EventClients
            /\ async[u].on # c.event
        BY <1>3, <1>4, <3>2, <4>1, <4>2 DEF TypeOK, ClientType, Owners
      <4> QED  BY <1>3, <1>4, <1>7, <4>1, <4>3 DEF Handlers, HandshakePorts
    <3> QED  BY <3>1, <3>2
  <2> QED  BY <2>1, <2>2, <2>3 DEF Handlers
<1>10. ForwardsKnown'
  BY <1>3, <1>4, KnownKept
<1>11. \A m \in Names : m \in ToSet(managed) \/ client'[m].event = None
  BY <1>2, <1>3, <1>4, ClientAssumption DEF Owners
<1>12. \A m, l \in Names :
         m # l /\ client'[m].event = client'[l].event => client'[m].event = None
  BY <1>3, <1>4 DEF Owners
<1>13. /\ broken' \subseteq Names /\ (a.handler # None => a.n \in Names)
       /\ client' \in [Names -> ClientType] /\ a.n \in ToSet(managed)
  BY <1>2, <1>3, <1>4, <1>6 DEF TypeOK
<1> QED
  BY <1>2, <1>4, <1>6, <1>7, <1>9, <1>10, <1>11, <1>12, <1>13, ThreadGoesOn

LEMMA AsyncHandshakeInv == ASSUME Inv, NEW t \in Threads, AsyncHandshake(t) PROVE Inv'
<1>1. async[t].pc = "handshake"
  BY DEF AsyncHandshake
<1>2. /\ job = NoJob /\ job.n = None /\ async[t] \in AsyncType
      /\ async[t].n \in Names /\ async[t].n \in ToSet(managed)
  BY <1>1, NoJobWhile
<1> PICK n \in Names : n = async[t].n
  BY <1>2
<1>3. TypeOK /\ Owners /\ Handlers /\ ForwardsKnown
  BY DEF Inv
<1> DEFINE e == async[t].on
           a == [async[t] EXCEPT !.pc = "handler", !.on = None]
<1>4. /\ eventOf' = [eventOf EXCEPT ![e].conn = "live"]
      /\ async' = [async EXCEPT ![t] = a]
      /\ UNCHANGED <<managed, client, forward, server, dropped, job, broken, lost>>
  BY <1>3 DEF AsyncHandshake, host, history, TypeOK
<1>5. a \in AsyncType /\ a.n = n /\ a.handler = async[t].handler /\ a.pc = "handler"
  BY <1>2 DEF AsyncType
<1>6. /\ eventOf' \in [EventClients -> EventType]
      /\ \A f \in EventClients :
           /\ eventOf'[f].port = eventOf[f].port
           /\ eventOf'[f].conn = IF f = e THEN "live" ELSE eventOf[f].conn
  BY <1>3, <1>4 DEF TypeOK, EventType, Conns
<1>7. async'[t] = a /\ \A u \in Threads : u # t => async'[u] = async[u]
  BY <1>3, <1>4 DEF TypeOK
<1> HIDE DEF a
<1>8. Handlers'
  <2>1. ASSUME NEW m \in Names, client[m].event # None, Served(m) PROVE Served(m)'
    <3>1. client[m].event \in EventClients
      BY <1>3, <2>1 DEF TypeOK, ClientType
    <3> QED  BY <1>4, <1>6, <2>1, <3>1 DEF Served
  <2>2. ASSUME client[n].event # None, client[n].event = e PROVE Served(n)'
    <3>1. e \in EventClients
      BY <1>3, <2>2 DEF TypeOK, ClientType
    <3>2. eventOf[e].port = client[n].port
      BY <1>1, <1>3, <2>2 DEF Handlers, HandshakePorts
    <3> QED  BY <1>4, <1>6, <2>2, <3>1, <3>2 DEF Served
  <2>3. ASSUME NEW m \in Names, NEW u \in Threads, async[u].n = m, Connecting(u),
               u # t
        PROVE  async'[u].n = m /\ Connecting(u)'
    BY <1>4, <1>7, <2>3 DEF Connecting
  <2>4. ASSUME NEW m \in Names PROVE HandlerOf(m)'
    <3>1. CASE m = n /\ client[n].event = e
      BY <1>4, <2>2, <3>1 DEF HandlerOf
    <3>2. CASE ~(m = n /\ client[n].event = e)
      <4>1. async[t].n = m => ~Connecting(t)
        BY <1>1, <3>2 DEF Connecting
      <4>2. HandlerOf(m) /\ job.steps = <<>>
        BY <1>2, <1>3, NoJobFields DEF Handlers
      <4> QED  BY <1>4, <2>1, <2>3, <4>1, <4>2 DEF HandlerOf
    <3> QED  BY <3>1, <3>2
  <2>5. HandshakePorts'
    <3> SUFFICES ASSUME NEW u \in Threads, async'[u].pc = "handshake", async'[u].on # None,
                        async'[u].on = client'[async'[u].n].event
                 PROVE  eventOf'[async'[u].on].port = client'[async'[u].n].port
      BY DEF HandshakePorts
    <3>1. async'[u] = async[u]
      BY <1>5, <1>7
    <3>2. async[u].on \in EventClients
      BY <1>3, <3>1 DEF TypeOK, AsyncType
    <3> QED  BY <1>3, <1>4, <1>6, <3>1, <3>2 DEF Handlers, HandshakePorts
  <2> QED  BY <2>4, <2>5 DEF Handlers
<1>9. ForwardsKnown'
  BY <1>3, <1>4, KnownKept
<1>10. /\ \A m \in Names : m \in ToSet(managed) \/ client'[m].event = None
       /\ \A m, l \in Names :
            m # l /\ client'[m].event = client'[l].event => client'[m].event = None
  BY <1>2, <1>3, <1>4, ClientAssumption DEF Owners
<1>11. /\ broken' \subseteq Names /\ (a.handler # None => a.n \in Names)
       /\ client' \in [Names -> ClientType] /\ a.n \in ToSet(managed)
  BY <1>2, <1>3, <1>4, <1>5 DEF TypeOK
<1> QED
  BY <1>2, <1>4, <1>5, <1>6, <1>8, <1>9, <1>10, <1>11, ThreadGoesOn

LEMMA AsyncRaisesInv == ASSUME Inv, NEW t \in Threads, AsyncRaises(t) PROVE Inv'
<1>1. async[t].pc \in {"connect", "handshake"}
  BY DEF AsyncRaises
<1>2. /\ job = NoJob /\ job.n = None /\ async[t] \in AsyncType
      /\ async[t].n \in Names /\ async[t].n \in ToSet(managed)
  BY <1>1, NoJobWhile
<1> PICK n \in Names : n = async[t].n
  BY <1>2
<1>3. TypeOK /\ Owners /\ Handlers /\ ForwardsKnown
  BY DEF Inv
<1> DEFINE c == client[n]
           a == [async[t] EXCEPT !.pc = "idle", !.on = None]
<1>4. /\ eventOf' = IF async[t].pc = "handshake" THEN eventOf
                    ELSE [eventOf EXCEPT ![c.event].port = c.port]
      /\ async' = [async EXCEPT ![t] = a] /\ broken' = broken \cup {n}
      /\ UNCHANGED <<managed, client, forward, server, dropped, job, lost>>
  BY <1>3 DEF AsyncRaises, host, TypeOK
<1>5. c \in ClientType
  BY <1>3 DEF TypeOK
<1>6. a \in AsyncType /\ a.n = n /\ a.handler = async[t].handler /\ a.pc = "idle"
  BY <1>2 DEF AsyncType
<1>7. /\ eventOf' \in [EventClients -> EventType]
      /\ \A e \in EventClients : e # c.event => eventOf'[e] = eventOf[e]
      /\ \A e \in EventClients : e = c.event => eventOf'[e].port \in {eventOf[e].port, c.port}
  <2>1. CASE async[t].pc = "handshake" \/ c.event \notin EventClients
    <3>1. eventOf' = eventOf
      BY <1>3, <1>4, <2>1 DEF TypeOK
    <3> QED  BY <1>3, <3>1 DEF TypeOK
  <2>2. CASE async[t].pc # "handshake" /\ c.event \in EventClients
    <3> DEFINE v == [eventOf[c.event] EXCEPT !.port = c.port]
    <3>1. eventOf' = [eventOf EXCEPT ![c.event] = v]
      BY <1>3, <1>4, <2>2 DEF TypeOK
    <3>2. v \in EventType /\ v.port = c.port
      BY <1>3, <1>5, <2>2 DEF TypeOK, EventType, ClientType
    <3> HIDE DEF v
    <3> QED  BY <1>3, <2>2, <3>1, <3>2 DEF TypeOK
  <2> QED  BY <2>1, <2>2
<1>8. async'[t] = a /\ \A u \in Threads : u # t => async'[u] = async[u]
  BY <1>3, <1>4 DEF TypeOK
<1> HIDE DEF a
<1>9. Handlers'
  <2>1. HandlerOf(n)'
    BY <1>4 DEF HandlerOf
  <2>2. ASSUME NEW m \in Names, m # n PROVE HandlerOf(m)'
    BY <1>2, <1>3, <1>4, <1>6, <1>7, <1>8, <2>2, OthersKept
  <2>3. HandshakePorts'
    <3> SUFFICES ASSUME NEW u \in Threads, async'[u].pc = "handshake", async'[u].on # None,
                        async'[u].on = client'[async'[u].n].event
                 PROVE  eventOf'[async'[u].on].port = client'[async'[u].n].port
      BY DEF HandshakePorts
    <3>1. async'[u] = async[u] /\ async[u].n \in Names
      <4>1. async'[u] = async[u]
        BY <1>6, <1>8
      <4> QED  BY <4>1, NoJobWhile
    <3>2. eventOf[async[u].on].port = client[async[u].n].port /\ async[u].on \in EventClients
      BY <1>3, <1>4, <3>1 DEF Handlers, HandshakePorts, TypeOK, AsyncType
    <3>3. CASE async[u].n = n
      BY <1>4, <1>7, <3>1, <3>2, <3>3
    <3>4. CASE async[u].n # n
      <4>1. async[u].on # c.event
        BY <1>3, <1>4, <3>1, <3>4 DEF Owners
      <4> QED  BY <1>4, <1>7, <3>1, <3>2, <4>1
    <3> QED  BY <3>3, <3>4
  <2> QED  BY <2>1, <2>2, <2>3 DEF Handlers
<1>10. ForwardsKnown'
  BY <1>3, <1>4, KnownKept
<1>11. \A m \in Names : m \in ToSet(managed) \/ client'[m].event = None
  BY <1>2, <1>3, <1>4, ClientAssumption DEF Owners
<1>12. \A m, l \in Names :
         m # l /\ client'[m].event = client'[l].event => client'[m].event = None
  BY <1>3, <1>4 DEF Owners
<1>13. /\ broken' \subseteq Names /\ (a.handler # None => a.n \in Names)
       /\ client' \in [Names -> ClientType] /\ a.n \in ToSet(managed)
  BY <1>2, <1>3, <1>4, <1>6 DEF TypeOK
<1> QED
  BY <1>2, <1>4, <1>6, <1>7, <1>9, <1>10, <1>11, <1>12, <1>13, ThreadGoesOn

LEMMA HandOutInv == ASSUME Inv, NEW t \in Threads, HandOut(t) PROVE Inv'
<1>1. async[t].pc = "handler"
  BY DEF HandOut
<1>2. /\ job = NoJob /\ job.n = None /\ async[t] \in AsyncType
      /\ async[t].n \in Names /\ async[t].n \in ToSet(managed)
  BY <1>1, NoJobWhile
<1> PICK n \in Names : n = async[t].n
  BY <1>2
<1>3. TypeOK /\ Owners /\ Handlers /\ ForwardsKnown
  BY DEF Inv
<1> DEFINE a == [async[t] EXCEPT !.pc = "idle", !.handler = client[n].event]
<1>4. /\ async' = [async EXCEPT ![t] = a]
      /\ UNCHANGED <<managed, client, eventOf, forward, server, dropped, job, broken, lost>>
  BY <1>3 DEF HandOut, host, history, TypeOK
<1>5. a \in AsyncType /\ a.n = n /\ a.pc = "idle"
  BY <1>2, <1>3 DEF AsyncType, TypeOK, ClientType
<1>6. async'[t] = a /\ \A u \in Threads : u # t => async'[u] = async[u]
  BY <1>3, <1>4 DEF TypeOK
<1> HIDE DEF a
<1>7. Handlers'
  <2>1. ASSUME NEW u \in Threads, Connecting(u)
        PROVE  async'[u] = async[u] /\ Connecting(u)'
    BY <1>1, <1>4, <1>6, <2>1 DEF Connecting
  <2>2. ASSUME NEW m \in Names PROVE HandlerOf(m)'
    <3>1. HandlerOf(m) /\ (Served(m)' <=> Served(m))
      BY <1>3, <1>4 DEF Handlers, Served
    <3> QED  BY <1>4, <2>1, <3>1 DEF HandlerOf
  <2>3. HandshakePorts'
    BY <1>3, <1>4, <1>5, <1>6 DEF Handlers, HandshakePorts
  <2> QED  BY <2>2, <2>3 DEF Handlers
<1>8. ForwardsKnown'
  BY <1>3, <1>4, KnownKept
<1>9. /\ client' \in [Names -> ClientType] /\ eventOf' \in [EventClients -> EventType]
      /\ broken' \subseteq Names
  BY <1>3, <1>4 DEF TypeOK
<1>10. /\ \A m \in Names : m \in ToSet(managed) \/ client'[m].event = None
       /\ \A m, l \in Names :
            m # l /\ client'[m].event = client'[l].event => client'[m].event = None
  BY <1>2, <1>3, <1>4, ClientAssumption DEF Owners
<1> QED
  BY <1>2, <1>4, <1>5, <1>7, <1>8, <1>9, <1>10, ThreadGoesOn

-----------------------------------------------------------------------------
(* Finalizers and the world *)

LEMMA FinalizeClientInv ==
  ASSUME Inv, NEW n \in Names, NEW p \in Ports, FinalizeClient(n, p)
  PROVE  Inv'
<1>1. /\ dropped' = dropped \ {<<n, p>>} /\ forward' = [forward EXCEPT ![p] = None]
      /\ UNCHANGED <<managed, client, eventOf, server, job, async, broken, lost>>
  BY DEF FinalizeClient, history
<1>2. TypeOK /\ Jobs /\ Stages /\ Owners /\ Handlers /\ ForwardsKnown
  BY DEF Inv
<1>3. TypeOK'
  BY <1>1, <1>2 DEF TypeOK
<1>4. Jobs'
  BY <1>1, <1>2 DEF Jobs, Program
<1>5. Stages'
  BY <1>1, <1>2 DEF Stages, Stopping, Pausing, Starting, Restoring, Left, Me
<1>6. Owners'
  BY <1>1, <1>2 DEF Owners
<1>7. Handlers'
  BY <1>1, <1>2 DEF Handlers, HandlerOf, Served, Connecting, HandshakePorts
<1>8. ForwardsKnown'
  <2> SUFFICES ASSUME NEW q \in Ports, NEW m \in Names, forward'[q] = m
               PROVE  client'[m].port = q \/ <<m, q>> \in dropped' \cup lost'
    BY DEF ForwardsKnown, Forgotten
  <2>1. q # p /\ forward[q] = m
    BY <1>1, <1>2, ClientAssumption DEF TypeOK
  <2> QED  BY <1>1, <1>2, <2>1 DEF ForwardsKnown, Forgotten
<1> QED  BY <1>3, <1>4, <1>5, <1>6, <1>7, <1>8 DEF Inv

LEMMA FinalizeEventInv ==
  ASSUME Inv, NEW e \in EventClients, FinalizeEvent(e)
  PROVE  Inv'
<1> DEFINE p == eventOf[e].port
<1>1. /\ ~Referred(e) /\ p # None
      /\ forward' = [forward EXCEPT ![p] = None]
      /\ eventOf' = [eventOf EXCEPT ![e] = NewEvent]
      /\ async' = [t \in Threads |-> IF async[t].handler = e
                                     THEN [async[t] EXCEPT !.handler = None] ELSE async[t]]
      /\ UNCHANGED <<managed, client, server, dropped, job, broken, lost>>
  BY DEF FinalizeEvent, history
<1>2. TypeOK /\ Jobs /\ Stages /\ Owners /\ Handlers /\ ForwardsKnown
  BY DEF Inv
<1>3. p \in Ports
  BY <1>1, <1>2 DEF TypeOK, EventType
<1>4. /\ async' \in [Threads -> AsyncType]
      /\ \A t \in Threads :
           /\ async'[t].pc = async[t].pc /\ async'[t].n = async[t].n
           /\ async'[t].on = async[t].on
           /\ async'[t].handler \in {async[t].handler, None}
  BY <1>1, <1>2 DEF TypeOK, AsyncType
<1>5. /\ eventOf' \in [EventClients -> EventType]
      /\ \A f \in EventClients : f # e => eventOf'[f] = eventOf[f]
  BY <1>1, <1>2 DEF TypeOK, EventType, NewEvent, Conns
<1>6. /\ \A n \in Names : client[n].event # e
      /\ \A t \in Threads : async[t].on # e
  BY <1>1 DEF Referred
<1>7. forward' \in [Ports -> Names \cup {None, Other}]
  BY <1>1, <1>2, <1>3 DEF TypeOK
<1>8. TypeOK'
  BY <1>1, <1>2, <1>4, <1>5, <1>7 DEF TypeOK
<1>9. Jobs'
  BY <1>1, <1>2, <1>4 DEF Jobs, Program
<1>10. \A n \in Names : client[n].event # None =>
         eventOf'[client[n].event] = eventOf[client[n].event]
  BY <1>2, <1>5, <1>6 DEF TypeOK, ClientType
<1>11. Stages'
  <2> SUFFICES ASSUME job.n # None
               PROVE  Stages'
    BY <1>1 DEF Stages
  <2> PICK k \in Names : k = job.n
    BY <1>2 DEF TypeOK, JobType
  <2>1. Restoring /\ Left = 1 => eventOf'[client[k].event].port = client[k].port
    BY <1>2, <1>10 DEF Stages, Me
  <2> QED
    BY <1>1, <1>2, <2>1 DEF Stages, Stopping, Pausing, Starting, Restoring, Left, Me
<1>12. Owners'
  BY <1>1, <1>2, <1>4 DEF Owners
<1>13. Handlers'
  <2>1. ASSUME NEW n \in Names, client[n].event # None, Served(n) PROVE Served(n)'
    BY <1>1, <1>10, <2>1 DEF Served
  <2>2. ASSUME NEW t \in Threads, Connecting(t) PROVE Connecting(t)'
    BY <1>1, <1>4, <2>2 DEF Connecting
  <2>3. ASSUME NEW n \in Names PROVE HandlerOf(n)'
    BY <1>1, <1>2, <1>4, <2>1, <2>2 DEF Handlers, HandlerOf
  <2>4. HandshakePorts'
    <3> SUFFICES ASSUME NEW t \in Threads, async[t].pc = "handshake", async[t].on # None,
                        async[t].on = client[async[t].n].event
                 PROVE  eventOf'[async[t].on].port = client[async[t].n].port
      BY <1>1, <1>4 DEF HandshakePorts
    <3>1. async[t].on \in EventClients
      BY <1>2 DEF TypeOK, AsyncType
    <3> QED  BY <1>2, <1>5, <1>6, <3>1 DEF Handlers, HandshakePorts
  <2> QED  BY <2>3, <2>4 DEF Handlers
<1>14. ForwardsKnown'
  <2> SUFFICES ASSUME NEW q \in Ports, NEW m \in Names, forward'[q] = m
               PROVE  client'[m].port = q \/ <<m, q>> \in dropped' \cup lost'
    BY DEF ForwardsKnown, Forgotten
  <2>1. forward[q] = m
    BY <1>1, <1>2, <1>3, ClientAssumption DEF TypeOK
  <2> QED  BY <1>1, <1>2, <2>1 DEF ForwardsKnown, Forgotten
<1> QED  BY <1>8, <1>9, <1>11, <1>12, <1>13, <1>14 DEF Inv

LEMMA DisconnectInv == ASSUME Inv, Disconnect PROVE Inv'
<1>1. /\ forward' = [p \in Ports |-> IF forward[p] = Other THEN Other ELSE None]
      /\ client' = [n \in Names |-> [client[n] EXCEPT !.conn = Cut(@)]]
      /\ eventOf' = [e \in EventClients |-> [eventOf[e] EXCEPT !.conn = Cut(@)]]
      /\ server' \in {server, {}}
      /\ UNCHANGED <<managed, dropped, job, async, broken, lost>>
  BY DEF Disconnect, history
<1>2. TypeOK /\ Jobs /\ Stages /\ Owners /\ Handlers /\ ForwardsKnown
  BY DEF Inv
<1>3. /\ client' \in [Names -> ClientType]
      /\ \A n \in Names :
           /\ client'[n].event = client[n].event /\ client'[n].port = client[n].port
           /\ client'[n].proc = client[n].proc /\ client'[n].conn # "live"
           /\ client[n].conn = "none" => client'[n].conn = "none"
  BY <1>1, <1>2 DEF TypeOK, ClientType, Cut, Conns
<1>4. /\ eventOf' \in [EventClients -> EventType]
      /\ \A e \in EventClients : eventOf'[e].port = eventOf[e].port
  BY <1>1, <1>2 DEF TypeOK, EventType, Cut, Conns
<1>5. TypeOK'
  BY <1>1, <1>2, <1>3, <1>4 DEF TypeOK
<1>6. Jobs'
  BY <1>1, <1>2 DEF Jobs, Program
<1>7. Stages'
  <2> SUFFICES ASSUME job.n # None
               PROVE  Stages'
    BY <1>1 DEF Stages
  <2> PICK k \in Names : k = job.n
    BY <1>2 DEF TypeOK, JobType
  <2>1. Restoring /\ Left = 1 => eventOf'[client[k].event].port = client[k].port
    BY <1>2, <1>4 DEF Stages, Me, TypeOK, ClientType
  <2>2. /\ client'[k].event = client[k].event /\ client'[k].port = client[k].port
        /\ client'[k].proc = client[k].proc
        /\ client[k].conn = "none" => client'[k].conn = "none"
    BY <1>3
  <2>3. server' \subseteq server
    BY <1>1
  <2> QED
    BY <1>1, <1>2, <2>1, <2>2, <2>3
    DEF Stages, Stopping, Pausing, Starting, Restoring, Left, Me
<1>8. Owners'
  BY <1>1, <1>2, <1>3 DEF Owners
<1>9. Handlers'
  <2>1. \A n \in Names : HandlerOf(n)'
    BY <1>3 DEF HandlerOf
  <2>2. HandshakePorts'
    <3> SUFFICES ASSUME NEW t \in Threads, async[t].pc = "handshake", async[t].on # None,
                        async[t].on = client'[async[t].n].event
                 PROVE  eventOf'[async[t].on].port = client'[async[t].n].port
      BY <1>1 DEF HandshakePorts
    <3>1. async[t].on \in EventClients /\ async[t].n \in Names
      BY <1>2, NoJobWhile DEF TypeOK, AsyncType
    <3> QED  BY <1>2, <1>3, <1>4, <3>1 DEF Handlers, HandshakePorts
  <2> QED  BY <2>1, <2>2 DEF Handlers
<1>10. ForwardsKnown'
  BY <1>1, <1>2, ClientAssumption DEF ForwardsKnown
<1> QED  BY <1>5, <1>6, <1>7, <1>8, <1>9, <1>10 DEF Inv

LEMMA OtherForwardsInv == ASSUME Inv, NEW p \in Ports, OtherForwards(p) PROVE Inv'
<1>1. /\ forward' = [forward EXCEPT ![p] = Other]
      /\ UNCHANGED <<managed, client, eventOf, server, dropped, job, async, broken, lost>>
  BY DEF OtherForwards, history
<1>2. TypeOK /\ Jobs /\ Stages /\ Owners /\ Handlers /\ ForwardsKnown
  BY DEF Inv
<1>3. TypeOK'
  BY <1>1, <1>2 DEF TypeOK
<1>4. Jobs'
  BY <1>1, <1>2 DEF Jobs, Program
<1>5. Stages'
  BY <1>1, <1>2 DEF Stages, Stopping, Pausing, Starting, Restoring, Left, Me
<1>6. Owners'
  BY <1>1, <1>2 DEF Owners
<1>7. Handlers'
  BY <1>1, <1>2 DEF Handlers, HandlerOf, Served, Connecting, HandshakePorts
<1>8. ForwardsKnown'
  <2> SUFFICES ASSUME NEW q \in Ports, NEW m \in Names, forward'[q] = m
               PROVE  client'[m].port = q \/ <<m, q>> \in dropped' \cup lost'
    BY DEF ForwardsKnown, Forgotten
  <2>1. q # p /\ forward[q] = m
    BY <1>1, <1>2, ClientAssumption DEF TypeOK
  <2> QED  BY <1>1, <1>2, <2>1 DEF ForwardsKnown, Forgotten
<1> QED  BY <1>3, <1>4, <1>5, <1>6, <1>7, <1>8 DEF Inv

-----------------------------------------------------------------------------
(* The invariant *)

LEMMA InitInv == Init => Inv
<1> SUFFICES ASSUME Init PROVE Inv
  OBVIOUS
<1>1. NoJob \in JobType /\ NoJob.op = "none" /\ NoJob.n = None /\ NoJob.steps = <<>>
      /\ ~NoJob.failed
  BY NoJobFields
<1>2. NewClient \in ClientType /\ NewClient.event = None /\ NewClient.conn = "none"
  BY DEF NewClient, ClientType, Conns
<1>3. TypeOK
  BY <1>1, <1>2 DEF Init, TypeOK, NewEvent, EventType, Conns, AsyncType
<1>4. Jobs
  BY <1>1 DEF Init, Jobs
<1>5. Stages
  BY <1>1 DEF Init, Stages
<1>6. Owners
  <2>1. job.op = "none" /\ \A t \in Threads : async[t].pc = "idle" /\ async[t].handler = None
    BY <1>1 DEF Init
  <2>2. \A n \in Names : client[n].event = None
    BY <1>2 DEF Init
  <2> QED  BY <2>1, <2>2 DEF Owners
<1>7. Handlers
  BY <1>2 DEF Init, Handlers, HandlerOf, HandshakePorts
<1>8. ForwardsKnown
  BY ClientAssumption DEF Init, ForwardsKnown
<1> QED  BY <1>3, <1>4, <1>5, <1>6, <1>7, <1>8 DEF Inv

LEMMA NothingInv == ASSUME Inv, UNCHANGED vars PROVE Inv'
<1>1. UNCHANGED <<managed, client, eventOf, forward, server, dropped, job, async,
                  broken, lost>>
  BY DEF vars, host, history
<1>2. TypeOK /\ Jobs /\ Stages /\ Owners /\ Handlers /\ ForwardsKnown
  BY DEF Inv
<1>3. TypeOK'
  BY <1>1, <1>2 DEF TypeOK
<1>4. Jobs'
  BY <1>1, <1>2 DEF Jobs, Program
<1>5. Stages'
  BY <1>1, <1>2 DEF Stages, Stopping, Pausing, Starting, Restoring, Left, Me
<1>6. Owners'
  BY <1>1, <1>2 DEF Owners
<1>7. Handlers'
  BY <1>1, <1>2 DEF Handlers, HandlerOf, Served, Connecting, HandshakePorts
<1>8. ForwardsKnown'
  BY <1>1, <1>2 DEF ForwardsKnown, Forgotten
<1> QED  BY <1>3, <1>4, <1>5, <1>6, <1>7, <1>8 DEF Inv

LEMMA NextInv == ASSUME Inv, [Next]_vars PROVE Inv'
<1>1. CASE ServiceCalls
  <2>1. ASSUME NEW n \in Names, Add(n) PROVE Inv'
    BY <2>1, AddInv
  <2>2. ASSUME NEW n \in Names, RemoveClient(n) PROVE Inv'
    BY <2>2, RemoveClientInv
  <2>3. ASSUME NEW op \in {"start", "stop", "pause", "resume"}, ForAll(op) PROVE Inv'
    BY <2>3, ForAllInv
  <2>4. ASSUME NEW n \in Names, NEW port \in Ports \cup {None}, Reconnect(n, port)
        PROVE  Inv'
    BY <2>4, ReconnectInv
  <2> QED
    BY <1>1, <2>1, <2>2, <2>3, <2>4, NextClientInv, MethodReturnsInv, JobEndsInv
    DEF ServiceCalls
<1>2. CASE Steps
  <2>1. RaisesNeeded \/ RaisesByFault => Inv'
    BY RaisesInv DEF RaisesNeeded, RaisesByFault
  <2> QED
    BY <1>2, <2>1, PreCheckInv, StartServerInv, CheckPortInv, ForwardPortInv,
       ConnectSocketInv, HandshakeInv, CloseSocketInv, ListPortsInv, RemoveForwardInv,
       KillProcessInv, StopCommandInv, DestroyEventInv, AdoptInv, ConnectEventInv,
       HandshakeEventInv, StartServerRaisesInv, StopCommandUnexpectedInv,
       CloseSocketRaisesInv, DestroyEventRaisesInv
    DEF Steps
<1>3. ASSUME NEW t \in Threads, NEW n \in Names, Async(t, n) PROVE Inv'
  BY <1>3, AsyncInv
<1>4. ASSUME NEW t \in Threads,
             CreateEvent(t) \/ AsyncConnect(t) \/ AsyncHandshake(t) \/ AsyncRaises(t)
               \/ HandOut(t)
      PROVE  Inv'
  BY <1>4, CreateEventInv, AsyncConnectInv, AsyncHandshakeInv, AsyncRaisesInv, HandOutInv
<1>5. ASSUME NEW n \in Names, NEW p \in Ports, FinalizeClient(n, p) PROVE Inv'
  BY <1>5, FinalizeClientInv
<1>6. ASSUME NEW e \in EventClients, FinalizeEvent(e) PROVE Inv'
  BY <1>6, FinalizeEventInv
<1>7. ASSUME NEW p \in Ports, OtherForwards(p) PROVE Inv'
  BY <1>7, OtherForwardsInv
<1>8. CASE UNCHANGED vars
  BY <1>8, NothingInv
<1> QED
  BY <1>1, <1>2, <1>3, <1>4, <1>5, <1>6, <1>7, <1>8, DisconnectInv DEF Next

LEMMA Invariance == Spec => []Inv
<1>1. Inv /\ [Next]_vars => Inv'
  BY NextInv
<1> QED  BY InitInv, <1>1, PTL DEF Spec

-----------------------------------------------------------------------------
(* The theorems *)

(* ForwardsKnown, of any number of clients, ports and exceptions: a port that *)
(* is forwarded to a client's server is the client's host_port, or an object *)
(* that is being finalized has it, or a reconnect without a pause forgot it. *)
THEOREM ForwardsRemembered == Spec => []ForwardsKnown
<1>1. Inv => ForwardsKnown
  BY DEF Inv
<1> QED  BY <1>1, Invariance, PTL

(* HandlersSurvive: whenever no call and no thread is at work on a connected  *)
(* client, the event client that the callback handlers given out refer to is *)
(* connected to the client's port, unless it was left unconnected.           *)
THEOREM HandlersWork == Spec => []HandlersSurvive
<1>1. Inv => HandlersSurvive
  <2> SUFFICES ASSUME Inv, NEW t \in Threads, NEW n, n = async[t].n,
                      async[t].handler # None, job = NoJob, client[n].conn = "live",
                      client[n].event = async[t].handler, n \notin broken,
                      \A u \in Threads : async[u].pc = "idle"
               PROVE  eventOf[async[t].handler].conn = "live"
                      /\ eventOf[async[t].handler].port = client[n].port
    BY DEF HandlersSurvive
  <2>1. n \in Names
    BY DEF Inv, Owners
  <2>2. HandlerOf(n)
    BY <2>1 DEF Inv, Handlers
  <2>3. job.steps = <<>> /\ \A u \in Threads : ~Connecting(u)
    BY NoJobFields DEF Connecting
  <2> QED  BY <2>2, <2>3 DEF HandlerOf, Served
<1> QED  BY <1>1, Invariance, PTL

LEMMA LenEmpty == Len(<<>>) = 0
OBVIOUS

LEMMA TailLen ==
  ASSUME NEW s \in Seq(StepNames), NEW k \in Nat, Len(s) = k + 1
  PROVE  s # <<>> /\ Tail(s) \in Seq(StepNames) /\ Len(Tail(s)) = k
<1>1. s # <<>>
  OBVIOUS
<1> QED  BY <1>1

(* A stop's call that is followed by none is the last one. *)
LEMMA LastCall ==
  ASSUME Inv, NEW step, Doing(step), Stopping, Proceed, job'.steps = <<>>
  PROVE  step = "destroy" /\ Left = 1
<1>1. /\ Left \in Nat /\ Len(Tail(job.steps)) = Left - 1 /\ job \in JobType
      /\ Left \in 1..Len(Program) /\ step = Program[Len(Program) - Left + 1]
      /\ job.op # "none"
  BY Doings DEF Inv, TypeOK
<1>2. job'.steps = Tail(job.steps)
  BY <1>1 DEF Proceed, JobType
<1>3. Left = 1
  <2>1. Tail(job.steps) = <<>>
    BY <1>2
  <2>2. Len(Tail(job.steps)) = 0
    BY <2>1, LenEmpty, Zenon
  <2>3. Left - 1 = 0
    BY <1>1, <2>2, Zenon
  <2>4. Left \in Nat
    BY <1>1
  <2> QED  BY <2>3, <2>4
<1>4. Program = Stop
  BY <1>1, Programs DEF Inv
<1> QED  BY <1>1, <1>3, <1>4, StopIs

(* An exception stops the client or leaves the call. *)
LEMMA LeaveSteps == ASSUME Inv, Leave, job' # NoJob PROVE job'.steps # <<>>
<1>1. job'.steps = Stop
  BY DEF Leave, Inv, TypeOK, JobType
<1>2. Len(Stop) # 0
  BY StopIs
<1>3. Stop # <<>>
  BY <1>2
<1> QED  BY <1>1, <1>3

LEMMA StopEnds ==
  ASSUME Inv, Inv', Next, Stopping, job.steps # <<>>, job'.steps = <<>>, job' # NoJob
  PROVE  DestroyEvent /\ Left = 1
<1>1. job.n # None /\ job # NoJob
  BY NoJobFields DEF Inv, Jobs
<1>2. ~ServiceCalls
  BY <1>1 DEF ServiceCalls, Add, RemoveClient, ForAll, Reconnect, Free, NextClient,
              MethodReturns, JobEnds
<1>3. job' # job
  OBVIOUS
<1>4. Steps
  <2>1. ~\E t \in Threads, n \in Names : Async(t, n)
    BY <1>3 DEF Async
  <2>2. ~\E t \in Threads : \/ CreateEvent(t) \/ AsyncConnect(t) \/ AsyncHandshake(t)
                            \/ AsyncRaises(t) \/ HandOut(t)
    BY <1>3 DEF CreateEvent, AsyncConnect, AsyncHandshake, AsyncRaises, HandOut
  <2>3. ~\E n \in Names, p \in Ports : FinalizeClient(n, p)
    BY <1>3 DEF FinalizeClient
  <2>4. ~\E e \in EventClients : FinalizeEvent(e)
    BY <1>3 DEF FinalizeEvent
  <2>5. ~Disconnect /\ ~\E p \in Ports : OtherForwards(p)
    BY <1>3 DEF Disconnect, OtherForwards
  <2> QED  BY <1>2, <2>1, <2>2, <2>3, <2>4, <2>5 DEF Next
<1>5. /\ ~RaisesNeeded /\ ~RaisesByFault /\ ~StartServerRaises /\ ~StopCommandUnexpected
      /\ ~CloseSocketRaises /\ ~DestroyEventRaises
  BY LeaveSteps DEF RaisesNeeded, RaisesByFault, Raises, StartServerRaises,
                    StopCommandUnexpected, CloseSocketRaises, DestroyEventRaises
<1>6. ~ListPorts
  <2> SUFFICES ASSUME ListPorts PROVE FALSE
    OBVIOUS
  <2>1. Doing("list")
    BY DEF ListPorts
  <2>2. /\ job \in JobType /\ Left = 5 /\ job.steps \in Seq(StepNames)
    BY <2>1, Places, Exclusive DEF Inv, TypeOK, JobType
  <2> PICK s \in Seq(StepNames) : s = job.steps /\ Len(s) = 5
    BY <2>2 DEF Left
  <2>3. job'.steps \in {Tail(s), Tail(Tail(s))}
    BY <2>2 DEF ListPorts, JobType
  <2>4. Len(s) = 4 + 1 /\ 4 = 3 + 1 /\ 3 = 2 + 1 /\ {4, 3, 2} \subseteq Nat
    OBVIOUS
  <2>5. Tail(s) \in Seq(StepNames) /\ Len(Tail(s)) = 4
    BY <2>4, TailLen
  <2>6. Tail(s) # <<>> /\ Tail(Tail(s)) \in Seq(StepNames) /\ Len(Tail(Tail(s))) = 3
    BY <2>4, <2>5, TailLen
  <2>7. Tail(Tail(s)) # <<>>
    BY <2>4, <2>6, TailLen
  <2> QED  BY <2>3, <2>6, <2>7
<1>7. ~Adopt
  BY Places, Exclusive DEF Inv, Adopt
<1>8. DestroyEvent
  BY <1>4, <1>5, <1>6, <1>7, LastCall
  DEF Steps, PreCheck, StartServer, CheckPort, ForwardPort, ConnectSocket, Handshake,
      CloseSocket, RemoveForward, KillProcess, StopCommand, ConnectEvent, HandshakeEvent
<1> QED  BY <1>8, LastCall DEF DestroyEvent

(* StopReleases, of every stop: when stop returns, of the user or of an      *)
(* initialize that raised, the client has no socket, port, process and event *)
(* client, its server does not run, and no port is forwarded to it that is   *)
(* not remembered elsewhere.                                                 *)
THEOREM StopReturnsAll == Spec => StopReleases
<1>1. ASSUME Inv, Inv', Next, Stopping, job.steps # <<>>, job'.steps = <<>>, job' # NoJob
      PROVE  Released(job.n)'
  <2>1. DestroyEvent /\ Left = 1
    BY <1>1, StopEnds
  <2> PICK k \in Names : k = job.n
    BY <1>1, <2>1, Here DEF DestroyEvent
  <2>2. /\ client \in [Names -> ClientType] /\ job'.n = k
        /\ client' = [client EXCEPT ![k].event = None] /\ server' = server
    BY <1>1, <2>1 DEF DestroyEvent, Proceed, Inv, TypeOK, JobType, host
  <2>3. /\ client[k].conn = "none" /\ client[k].port = None /\ ~client[k].proc
        /\ k \notin server
    BY <1>1, <2>1, ClientAssumption DEF Inv, Stages, Me
  <2>4. client'[k] = NewClient
    BY <2>2, <2>3 DEF ClientType, NewClient
  <2>5. \A p \in Ports : forward'[p] = k => Forgotten(k, p)'
    <3>1. client'[k].port = None
      BY <2>4 DEF NewClient
    <3> QED  BY <1>1, <3>1, ClientAssumption DEF Inv, ForwardsKnown, Forgotten
  <2> QED  BY <2>2, <2>3, <2>4, <2>5 DEF Released, Forgotten
<1>2. Inv /\ Inv' /\ [Next]_vars =>
        [(job.op \in {"remove", "stop"} \/ job.failed)
           /\ job.steps # <<>> /\ job'.steps = <<>> /\ job' # NoJob
         => Released(job.n)']_vars
  BY <1>1 DEF Stopping
<1> QED  BY <1>2, Invariance, PTL DEF Spec, StopReleases
=============================================================================

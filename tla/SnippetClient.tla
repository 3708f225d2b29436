--------------------------- MODULE SnippetClient ---------------------------
(***************************************************************************)
(* The life of snippet clients: ClientBase of mobly/snippet/client_base.py *)
(* with SnippetClientV2 of mobly/controllers/android_device_lib/           *)
(* snippet_client_v2.py, under the SnippetManagementService of             *)
(* services/snippet_management_service.py.                                 *)
(*                                                                         *)
(* One thread calls the service.  Each call into adb, a socket or a        *)
(* process is a step of its job and may raise.  Threads make asynchronous  *)
(* RPCs, whose handle_callback creates the event client, while no call of  *)
(* the service runs.  The device may be disconnected, other programs       *)
(* forward ports, and objects nothing refers to are finalized at any time. *)
(***************************************************************************)
EXTENDS Integers, Sequences, SequencesExt

CONSTANTS
  Names,        \* names of snippet clients, each of its own package
  Ports,        \* host ports
  EventClients, \* bound: event client objects that exist at a time
  Threads,      \* threads that make asynchronous RPCs
  MaxCalls,     \* bound: calls of the service
  MaxFaults,    \* bound: calls that raise and disturbances from outside
  Other,        \* another user of adb forward
  None

ASSUME ClientAssumption ==
  /\ MaxCalls \in Nat /\ MaxFaults \in Nat
  /\ Other \notin Names /\ None \notin Names \cup Ports \cup EventClients

VARIABLES
  managed,  \* _snippet_clients: the names in the order they were added
  client,   \* the client object of each name
  eventOf,  \* the event client objects
  forward,  \* adb: whose server a host port is forwarded to
  server,   \* names whose server runs on the device
  job,      \* the call of the service that runs
  async,    \* per thread where it is in handle_callback, and its handler
  dropped,  \* <<n, p>>: an object of n that nothing refers to has host_port p
  broken,   \* history: names whose event client was left unconnected, by an
            \* exception or a start that no stop preceded
  lost,     \* history: <<n, p>>: a reconnect of n forgot the forwarded port p
  calls,    \* so far
  faults    \* so far

host == <<forward, server, dropped>>
history == <<broken, lost>>
vars == <<managed, client, eventOf, host, job, async, history, calls, faults>>

(* conn: no socket, one without a handshake ("open"), one with ("live"), one  *)
(* whose server is gone ("dead").                                            *)

NewClient == [conn |-> "none", port |-> None, proc |-> FALSE, event |-> None]
NewEvent == [conn |-> "none", port |-> None]

IsAlive(n) == client[n].conn # "none"

-----------------------------------------------------------------------------
(* The calls that the methods make, in order *)

Connection == <<"check", "forward", "connect", "handshake">>

Initialize == <<"precheck", "launch">> \o Connection

CloseConnection == <<"close", "list", "remove">>

(* Mutant: the event client is not destroyed. *)
StopKeepsEvent == CloseConnection \o <<"kill", "command">>

Stop == CloseConnection \o <<"kill", "command", "destroy">>

(* Mutant: _restore_event_client is not called. *)
RestoreMainOnly == Connection \o <<"adopt">>

Restore == Connection \o <<"adopt", "connect_event", "handshake_event">>

Ops == {"add", "remove", "start", "stop", "pause", "resume", "reconnect"}

Method(op) ==
  CASE op \in {"add", "start"} -> Initialize
    [] op \in {"remove", "stop"} -> Stop
    [] op = "pause" -> CloseConnection
    [] OTHER -> Restore

(* start and resume pass by clients that are alive, stop those that are not. *)
Needs(op, n) ==
  /\ op \in {"start", "resume"} => ~IsAlive(n)
  /\ op = "stop" => IsAlive(n)

(* todo: the clients left; steps: the calls left for n, the first of them;   *)
(* failed: initialize raised and is stopping the client.                     *)
NoJob == [op |-> "none", n |-> None, todo |-> <<>>, steps |-> <<>>, failed |-> FALSE]

(* Mutant: a client without __del__. *)
DropForgets(n, port) ==
  /\ client' = [client EXCEPT ![n] = NewClient]
  /\ UNCHANGED <<dropped, async>>

(* An object is dropped with its event client; its host port stays with it.  *)
DropWith(n, port) ==
  /\ client' = [client EXCEPT ![n] = NewClient]
  /\ dropped' = IF port = None THEN dropped ELSE dropped \cup {<<n, port>>}
  /\ async' = [t \in Threads |-> IF async[t].n = n THEN [async[t] EXCEPT !.handler = None]
                                 ELSE async[t]]

Drop(n) == DropWith(n, client[n].port)

Keep == UNCHANGED <<client, dropped, async>>

-----------------------------------------------------------------------------
Init ==
  /\ managed = <<>>
  /\ client = [n \in Names |-> NewClient]
  /\ eventOf = [e \in EventClients |-> NewEvent]
  /\ forward = [p \in Ports |-> None]
  /\ server = {} /\ dropped = {}
  /\ job = NoJob
  /\ async = [t \in Threads |-> [pc |-> "idle", n |-> None, on |-> None, handler |-> None]]
  /\ broken = {} /\ lost = {} /\ calls = 0 /\ faults = 0

(* The service is called when no thread is in handle_callback. *)
Free ==
  /\ job = NoJob /\ \A t \in Threads : async[t].pc = "idle"
  /\ calls < MaxCalls /\ calls' = calls + 1

(* A name is used once.  (The package is refused under a second name, too.)  *)
UnusedName(n) == n \notin ToSet(managed)

Add(n) ==
  /\ Free /\ UnusedName(n)
  /\ job' = [NoJob EXCEPT !.op = "add", !.n = n, !.steps = Method("add")]
  /\ broken' = broken \ {n}
  /\ UNCHANGED <<managed, client, eventOf, host, async, lost, faults>>

(* A name that is there once is taken out of a sequence. *)
Without(s, n) == RemoveAt(s, CHOOSE i \in DOMAIN s : s[i] = n)

(* Taken out before it is stopped. *)
RemoveClient(n) ==
  /\ Free /\ n \in ToSet(managed)
  /\ managed' = Without(managed, n)
  /\ job' = [NoJob EXCEPT !.op = "remove", !.n = n, !.steps = Method("remove")]
  /\ UNCHANGED <<client, eventOf, host, async, history, faults>>

(* start, stop, pause or resume of the service. *)
ForAll(op) ==
  /\ Free /\ managed # <<>>
  /\ job' = [NoJob EXCEPT !.op = op, !.todo = managed]
  /\ UNCHANGED <<managed, client, eventOf, host, async, history, faults>>

(* restore_server_connection: a port that was forwarded is forgotten.        *)
Reassign(n, port) ==
  /\ client' = [client EXCEPT ![n].port = port]
  /\ lost' = IF client[n].port \in {None, port} THEN lost
             ELSE lost \cup {<<n, client[n].port>>}

(* A user reconnects one client, to a port of choice or any. *)
Reconnect(n, port) ==
  /\ Free /\ n \in ToSet(managed)
  /\ Reassign(n, port)
  /\ job' = [NoJob EXCEPT !.op = "reconnect", !.n = n, !.steps = Method("reconnect")]
  /\ UNCHANGED <<managed, eventOf, host, async, broken, faults>>

(* The loop goes on to the next client. *)
NextClient ==
  /\ job.n = None /\ job.todo # <<>>
  /\ LET n == Head(job.todo) IN
     IF Needs(job.op, n)
     THEN /\ job' = [job EXCEPT !.n = n, !.todo = Tail(@), !.steps = Method(job.op)]
          /\ IF job.op = "resume" THEN Reassign(n, None) ELSE UNCHANGED <<client, lost>>
     ELSE /\ job' = [job EXCEPT !.todo = Tail(@)]
          /\ UNCHANGED <<client, lost>>
  /\ UNCHANGED <<calls, managed, eventOf, host, async, broken, faults>>

(* The method returned.  initialize raises again after it stopped the client. *)
MethodReturns ==
  /\ job.n # None /\ job.steps = <<>>
  /\ managed' = IF job.op = "add" /\ ~job.failed THEN Append(managed, job.n) ELSE managed
  /\ job' = IF job.failed THEN NoJob ELSE [job EXCEPT !.n = None]
  /\ IF job.op = "remove" \/ (job.op = "add" /\ job.failed) THEN Drop(job.n) ELSE Keep
  /\ UNCHANGED <<calls, eventOf, forward, server, history, faults>>

JobEnds ==
  /\ job # NoJob /\ job.n = None /\ job.todo = <<>>
  /\ job' = NoJob
  /\ UNCHANGED <<calls, managed, client, eventOf, host, async, history, faults>>

-----------------------------------------------------------------------------
(* The calls, when they return *)

(* The server of n answers at the port. *)
Answers(n, port) == port # None /\ forward[port] = n /\ n \in server

Doing(step) == job.steps # <<>> /\ Head(job.steps) = step

Proceed ==
  /\ job' = [job EXCEPT !.steps = Tail(@)]
  /\ UNCHANGED <<managed, async, calls, faults>>

Me == client[job.n]

(* Every connection to a server that ends is dead. *)
Cut(conn) == IF conn \in {"open", "live"} THEN "dead" ELSE conn

CutClient(n) == [client EXCEPT ![n].conn = Cut(@)]

CutEvent(n) ==
  [e \in EventClients |->
     IF e = client[n].event THEN [eventOf[e] EXCEPT !.conn = Cut(@)] ELSE eventOf[e]]

(* before_starting_server *)
PreCheck ==
  /\ Doing("precheck") /\ Proceed
  /\ UNCHANGED <<client, eventOf, host, history>>

(* start_server: a server that runs already is replaced.                     *)
StartServer ==
  /\ Doing("launch") /\ Proceed
  /\ client' = [CutClient(job.n) EXCEPT ![job.n].proc = TRUE]
  /\ eventOf' = CutEvent(job.n)
  /\ server' = server \cup {job.n}
  /\ broken' = IF Me.event = None THEN broken ELSE broken \cup {job.n}
  /\ UNCHANGED <<forward, dropped, lost>>

(* _forward_device_port: a given port must not be in use ...                 *)
CheckPort ==
  /\ Doing("check") /\ Proceed
  /\ Me.port # None => forward[Me.port] = None
  /\ UNCHANGED <<client, eventOf, host, history>>

(* ... when it is forwarded, which takes it from who has it by then.         *)
ForwardPort ==
  /\ Doing("forward") /\ Proceed
  /\ \E p \in Ports :
       /\ IF Me.port = None THEN forward[p] = None ELSE p = Me.port
       /\ forward' = [forward EXCEPT ![p] = job.n]
       /\ client' = [client EXCEPT ![job.n].port = p]
  /\ UNCHANGED <<eventOf, server, dropped, history>>

(* create_socket_connection *)
ConnectSocket ==
  /\ Doing("connect") /\ Proceed
  /\ forward[Me.port] # None
  /\ client' = [client EXCEPT ![job.n].conn = "open"]
  /\ UNCHANGED <<eventOf, host, history>>

(* send_handshake_request, to the server of this client.                     *)
Handshake ==
  /\ Doing("handshake") /\ Proceed
  /\ Me.conn = "open" /\ Answers(job.n, Me.port)
  /\ client' = [client EXCEPT ![job.n].conn = "live"]
  /\ UNCHANGED <<eventOf, host, history>>

CloseSocket ==
  /\ Doing("close") /\ Proceed
  /\ client' = [client EXCEPT ![job.n].conn = "none"]
  /\ UNCHANGED <<eventOf, host, history>>

(* _stop_port_forwarding: nothing is removed when the port is not in use.    *)
ListPorts ==
  /\ Doing("list")
  /\ IF Me.port # None /\ forward[Me.port] # None
     THEN /\ job' = [job EXCEPT !.steps = Tail(@)]
          /\ UNCHANGED client
     ELSE /\ job' = [job EXCEPT !.steps = Tail(Tail(@))]
          /\ client' = [client EXCEPT ![job.n].port = None]
  /\ UNCHANGED <<calls, managed, async, faults, eventOf, host, history>>

RemoveForward ==
  /\ Doing("remove") /\ Proceed
  /\ forward[Me.port] # None
  /\ forward' = [forward EXCEPT ![Me.port] = None]
  /\ client' = [client EXCEPT ![job.n].port = None]
  /\ UNCHANGED <<eventOf, server, dropped, history>>

(* _stop_server: the subprocess on the host ...                              *)
KillProcess ==
  /\ Doing("kill") /\ Proceed
  /\ client' = [client EXCEPT ![job.n].proc = FALSE]
  /\ UNCHANGED <<eventOf, host, history>>

(* ... and the server on the device.                                         *)
StopCommand ==
  /\ Doing("command") /\ Proceed
  /\ server' = server \ {job.n}
  /\ eventOf' = CutEvent(job.n)
  /\ UNCHANGED <<client, forward, dropped, history>>

(* _destroy_event_client *)
DestroyEvent ==
  /\ Doing("destroy") /\ Proceed
  /\ eventOf' = IF Me.event = None THEN eventOf ELSE [eventOf EXCEPT ![Me.event] = NewEvent]
  /\ client' = [client EXCEPT ![job.n].event = None]
  /\ broken' = broken \ {job.n}
  /\ UNCHANGED <<host, lost>>

(* restore_server_connection: the subprocess belongs to the lost connection. *)
Adopt ==
  /\ Doing("adopt")
  /\ job' = [job EXCEPT !.steps = IF Me.event = None THEN <<>> ELSE Tail(@)]
  /\ client' = [client EXCEPT ![job.n].proc = FALSE]
  /\ UNCHANGED <<calls, managed, async, faults, eventOf, host, history>>

(* make_connection_with_forwarded_port, of the event client.                 *)
ConnectEvent ==
  /\ Doing("connect_event") /\ Proceed
  /\ forward[Me.port] # None
  /\ eventOf' = [eventOf EXCEPT ![Me.event] = [conn |-> "open", port |-> Me.port]]
  /\ UNCHANGED <<client, host, history>>

HandshakeEvent ==
  /\ Doing("handshake_event") /\ Proceed
  /\ eventOf[Me.event].conn = "open" /\ Answers(job.n, Me.port)
  /\ eventOf' = [eventOf EXCEPT ![Me.event].conn = "live"]
  /\ broken' = broken \ {job.n}
  /\ UNCHANGED <<client, host, lost>>

-----------------------------------------------------------------------------
(* The calls, when they raise *)

Fault == faults < MaxFaults /\ faults' = faults + 1

(* initialize stops the client when one of its calls but the first raised.   *)
Caught == job.op \in {"add", "start"} /\ ~job.failed /\ ~Doing("precheck")

(* An exception leaves the method, and the service's call. *)
Leave ==
  IF Caught
  THEN /\ job' = [job EXCEPT !.steps = Stop, !.failed = TRUE]
       /\ UNCHANGED broken
  ELSE /\ job' = NoJob
       /\ broken' = IF Me.event = None \/ job.op = "pause" THEN broken ELSE broken \cup {job.n}

Gone == job.op = "remove" \/ (job.op = "add" /\ ~Caught)

(* adb, the socket or the process raises and nothing has changed.            *)
Raises ==
  /\ \E step \in {"precheck", "launch", "check", "forward", "connect", "handshake",
                  "list", "remove", "kill", "command", "connect_event",
                  "handshake_event"} : Doing(step)
  /\ Leave
  /\ IF Gone THEN Drop(job.n) ELSE Keep
  /\ eventOf' = IF Doing("connect_event")
                THEN [eventOf EXCEPT ![Me.event].port = Me.port] ELSE eventOf
  /\ UNCHANGED <<calls, managed, forward, server, lost>>

(* Without a port nothing is listed, without a process none is killed. *)
Called ==
  /\ Doing("list") => Me.port # None
  /\ Doing("kill") => Me.proc

(* Some cannot return: the port is taken, the forwarding or the server gone. *)
Hopeless ==
  \/ Doing("check") /\ Me.port # None /\ forward[Me.port] # None
  \/ Doing("forward") /\ Me.port = None /\ \A p \in Ports : forward[p] # None
  \/ (Doing("connect") \/ Doing("remove")) /\ forward[Me.port] = None
  \/ /\ Doing("handshake")
     /\ ~(Me.conn = "open" /\ Answers(job.n, Me.port))
  \/ Doing("connect_event") /\ forward[Me.port] = None
  \/ /\ Doing("handshake_event")
     /\ ~(eventOf[Me.event].conn = "open" /\ Answers(job.n, Me.port))

RaisesNeeded == Hopeless /\ Raises /\ UNCHANGED faults

RaisesByFault == ~Hopeless /\ Called /\ Fault /\ Raises

(* start_server raises after the subprocess was started.                     *)
StartServerRaises ==
  /\ Doing("launch") /\ Fault
  /\ Leave
  /\ client' = [CutClient(job.n) EXCEPT ![job.n].proc = TRUE]
  /\ eventOf' = CutEvent(job.n)
  /\ server' \in {server \ {job.n}, server \cup {job.n}}
  /\ UNCHANGED <<calls, managed, forward, dropped, async, lost>>

(* The stop command's output is not the expected one: the server is gone.    *)
StopCommandUnexpected ==
  /\ Doing("command") /\ Fault
  /\ Leave
  /\ IF Gone THEN Drop(job.n) ELSE Keep
  /\ server' = server \ {job.n}
  /\ eventOf' = CutEvent(job.n)
  /\ UNCHANGED <<calls, managed, forward, lost>>

(* close_connection, of a socket whose close raises: the finally clause stops *)
(* the forwarding all the same, if that does not raise in turn.  The dead    *)
(* socket stays in _conn.                                                    *)
CloseSocketRaises ==
  /\ Doing("close") /\ Me.conn # "none" /\ Fault
  /\ Leave
  /\ \E port \in {None, Me.port} :
       /\ forward' = IF port # None THEN forward
                     ELSE [p \in Ports |-> IF p = Me.port THEN None ELSE forward[p]]
       /\ IF Gone THEN DropWith(job.n, port)
          ELSE /\ client' = [client EXCEPT ![job.n].conn = "dead", ![job.n].port = port]
               /\ UNCHANGED <<dropped, async>>
  /\ UNCHANGED <<calls, managed, eventOf, server, lost>>

(* _destroy_event_client, the same of the event client, without a port.      *)
DestroyEventRaises ==
  /\ Doing("destroy") /\ Me.event # None /\ eventOf[Me.event].conn # "none" /\ Fault
  /\ Leave
  /\ IF Gone THEN Drop(job.n) ELSE Keep
  /\ eventOf' = [eventOf EXCEPT ![Me.event] = [conn |-> "dead", port |-> None]]
  /\ UNCHANGED <<calls, managed, forward, server, lost>>

-----------------------------------------------------------------------------
(* Asynchronous RPCs: handle_callback of thread t *)

Goto(t, pc) == [async EXCEPT ![t].pc = pc]

(* The client has an event client, or one is to be created. *)
Async(t, n) ==
  /\ job = NoJob /\ async[t].pc = "idle"
  /\ n \in ToSet(managed) /\ client[n].conn = "live"
  /\ async' = [async EXCEPT ![t] =
       [pc |-> IF client[n].event = None THEN "create" ELSE "handler",
        n |-> n, on |-> None, handler |-> None]]
  /\ UNCHANGED <<calls, managed, client, eventOf, host, job, history, faults>>

Referred(e) ==
  \/ \E n \in Names : client[n].event = e
  \/ \E t \in Threads : async[t].on = e

Unused(e) == ~Referred(e) /\ eventOf[e].port = None

(* self._event_client = SnippetClientV2(...) *)
CreateEvent(t) ==
  /\ async[t].pc = "create"
  /\ \E e \in EventClients :
       /\ Unused(e) /\ e = CHOOSE f \in EventClients : Unused(f)
       /\ client' = [client EXCEPT ![async[t].n].event = e]
       /\ eventOf' = [eventOf EXCEPT ![e] = NewEvent]
  /\ async' = Goto(t, "connect")
  /\ UNCHANGED <<calls, managed, host, job, history, faults>>

(* self._event_client.make_connection_with_forwarded_port: the attribute is  *)
(* read again.                                                               *)
AsyncConnect(t) ==
  /\ async[t].pc = "connect"
  /\ LET c == client[async[t].n]
         up == c.port # None /\ forward[c.port] # None
     IN /\ eventOf' = [eventOf EXCEPT ![c.event] =
             [conn |-> IF up THEN "open" ELSE @.conn, port |-> c.port]]
        /\ async' = [async EXCEPT ![t].pc = IF up THEN "handshake" ELSE "idle",
                                  ![t].on = IF up THEN c.event ELSE None]
        /\ broken' = IF up THEN broken ELSE broken \cup {async[t].n}
  /\ UNCHANGED <<calls, managed, client, host, job, lost, faults>>

AsyncHandshake(t) ==
  /\ async[t].pc = "handshake"
  /\ LET e == async[t].on IN
     /\ eventOf[e].conn \in {"open", "live"} /\ Answers(async[t].n, eventOf[e].port)
     /\ eventOf' = [eventOf EXCEPT ![e].conn = "live"]
  /\ async' = [async EXCEPT ![t].pc = "handler", ![t].on = None]
  /\ UNCHANGED <<calls, managed, client, host, job, history, faults>>

AsyncRaises(t) ==
  /\ \/ async[t].pc \in {"connect", "handshake"} /\ Fault
     \/ /\ async[t].pc = "handshake"
        /\ \/ eventOf[async[t].on].conn = "dead"
           \/ ~Answers(async[t].n, eventOf[async[t].on].port)
        /\ UNCHANGED faults
  /\ eventOf' = IF async[t].pc = "handshake" THEN eventOf
                ELSE LET c == client[async[t].n]
                     IN [eventOf EXCEPT ![c.event].port = c.port]
  /\ async' = [async EXCEPT ![t].pc = "idle", ![t].on = None]
  /\ broken' = broken \cup {async[t].n}
  /\ UNCHANGED <<calls, managed, client, host, job, lost>>

(* The handler refers to the event client of the moment. *)
HandOut(t) ==
  /\ async[t].pc = "handler"
  /\ async' = [async EXCEPT ![t].pc = "idle", ![t].handler = client[async[t].n].event]
  /\ UNCHANGED <<calls, managed, client, eventOf, host, job, history, faults>>

-----------------------------------------------------------------------------
(* Finalizers and the world *)

(* __del__ of a client: close_connection, whose calls do not raise here. *)
FinalizeClient(n, p) ==
  /\ <<n, p>> \in dropped
  /\ dropped' = dropped \ {<<n, p>>}
  /\ forward' = [forward EXCEPT ![p] = None]
  /\ UNCHANGED <<calls, managed, client, eventOf, server, job, async, history, faults>>

FinalizeEvent(e) ==
  /\ ~Referred(e) /\ eventOf[e].port # None
  /\ forward' = [forward EXCEPT ![eventOf[e].port] = None]
  /\ eventOf' = [eventOf EXCEPT ![e] = NewEvent]
  /\ async' = [t \in Threads |-> IF async[t].handler = e
                                 THEN [async[t] EXCEPT !.handler = None] ELSE async[t]]
  /\ UNCHANGED <<calls, managed, client, server, dropped, job, history, faults>>

(* USB is lost: adb drops the forwardings, and servers may die.              *)
Disconnect ==
  /\ Fault
  /\ forward' = [p \in Ports |-> IF forward[p] = Other THEN Other ELSE None]
  /\ client' = [n \in Names |-> [client[n] EXCEPT !.conn = Cut(@)]]
  /\ eventOf' = [e \in EventClients |-> [eventOf[e] EXCEPT !.conn = Cut(@)]]
  /\ server' \in {server, {}}
  /\ UNCHANGED <<calls, managed, dropped, job, async, history>>

(* Another program forwards a port. *)
OtherForwards(p) ==
  /\ forward[p] = None /\ Fault
  /\ forward' = [forward EXCEPT ![p] = Other]
  /\ UNCHANGED <<calls, managed, client, eventOf, server, dropped, job, async, history>>

-----------------------------------------------------------------------------
ServiceCalls ==
  \/ \E n \in Names : Add(n) \/ RemoveClient(n)
  \/ \E op \in {"start", "stop", "pause", "resume"} : ForAll(op)
  \/ \E n \in Names, port \in Ports \cup {None} : Reconnect(n, port)
  \/ NextClient
  \/ MethodReturns
  \/ JobEnds

Steps ==
  \/ PreCheck \/ StartServer
  \/ CheckPort \/ ForwardPort \/ ConnectSocket \/ Handshake
  \/ CloseSocket \/ ListPorts \/ RemoveForward
  \/ KillProcess \/ StopCommand \/ DestroyEvent
  \/ Adopt \/ ConnectEvent \/ HandshakeEvent
  \/ RaisesNeeded \/ RaisesByFault
  \/ StartServerRaises \/ StopCommandUnexpected
  \/ CloseSocketRaises \/ DestroyEventRaises

Next ==
  \/ ServiceCalls
  \/ Steps
  \/ \E t \in Threads, n \in Names : Async(t, n)
  \/ \E t \in Threads : \/ CreateEvent(t) \/ AsyncConnect(t) \/ AsyncHandshake(t)
                        \/ AsyncRaises(t) \/ HandOut(t)
  \/ \E n \in Names, p \in Ports : FinalizeClient(n, p)
  \/ \E e \in EventClients : FinalizeEvent(e)
  \/ Disconnect
  \/ \E p \in Ports : OtherForwards(p)

Spec == Init /\ [][Next]_vars

-----------------------------------------------------------------------------
(* Properties *)

Forgotten(n, p) == <<n, p>> \in dropped \cup lost

Released(n) ==
  /\ client[n] = NewClient /\ n \notin server
  /\ \A p \in Ports : forward[p] = n => Forgotten(n, p)

(* stop, called by the user or by an initialize that failed at whatever step: *)
(* when it returns, nothing is left of what the client acquired on the host  *)
(* or the device, whatever happened since, except a port that a reconnect    *)
(* without a pause forgot.                                                   *)
StopReleases ==
  [][(job.op \in {"remove", "stop"} \/ job.failed)
       /\ job.steps # <<>> /\ job'.steps = <<>> /\ job' # NoJob
     => Released(job.n)']_vars

(* No port stays forwarded to a server without an object that will remove the *)
(* forwarding, also when any call raises: initialize, stop, close_connection *)
(* and the finalizers hand it over.  The exception is a reconnect without a  *)
(* pause.                                                                    *)
ForwardsKnown ==
  \A p \in Ports, n \in Names :
    forward[p] = n => client[n].port = p \/ Forgotten(n, p)

(* Callback handlers given out before a disconnect work after it: whenever a  *)
(* client is connected, so is the event client its handlers use, unless an   *)
(* exception, or the start of a paused client, left it unconnected, or a      *)
(* thread is still connecting it.                                            *)
HandlersSurvive ==
  \A t \in Threads :
    LET n == async[t].n
        e == async[t].handler
    IN e # None /\ job = NoJob /\ client[n].conn = "live" /\ client[n].event = e
         /\ n \notin broken /\ (\A u \in Threads : async[u].pc = "idle")
       => eventOf[e].conn = "live" /\ eventOf[e].port = client[n].port
=============================================================================

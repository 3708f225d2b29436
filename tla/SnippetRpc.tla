----------------------------- MODULE SnippetRpc -----------------------------
(***************************************************************************)
(* The RPCs that threads make on one connection to a snippet server        *)
(* (ClientBase._rpc of mobly/snippet/client_base.py, SnippetClientV2 of    *)
(* mobly/controllers/android_device_lib/snippet_client_v2.py) and the calls*)
(* of a callback handler made of them (mobly/snippet/                      *)
(* callback_handler_base.py, callback_handler_v2.py).  The connection is   *)
(* that of an event client; getAll, which returns at once, stands for any  *)
(* plain RPC.  The events are those of one name of one callback.           *)
(*                                                                         *)
(* Time passes in units, counted down by the timers in `left`, in the      *)
(* request being served and in `silence`; it may pass faster than anybody  *)
(* acts.  The server, which is not part of Mobly, serves a connection's    *)
(* requests one after the other.                                           *)
(***************************************************************************)
EXTENDS Integers, Sequences, SequencesExt

CONSTANTS
  Threads,   \* threads that use the connection
  Timeouts,  \* timeouts that callers ask for
  RpcMax,    \* _SOCKET_READ_TIMEOUT, which is also rpc_max_timeout_sec
  MaxEvents, \* bound: events that occur
  MaxRpcs,   \* bound: no call begins after as many RPCs
  None

ASSUME RpcAssumption ==
  /\ Timeouts \subseteq Nat /\ RpcMax \in Nat
  /\ MaxEvents \in Nat /\ MaxRpcs \in Nat
  /\ None \notin Threads

VARIABLES
  pc,        \* per thread "idle", or where it is in _rpc
  call,      \* per thread the handler's call it makes
  result,    \* per thread how its last call ended
  lock,      \* _lock: the thread that holds it, or None
  counter,   \* _counter: the next id
  inbox,     \* requests at the server, the first one being served
  outbox,    \* responses not read yet
  silence,   \* time until the thread that reads gives up
  timedOut,  \* a read timed out: Python's socket file raises ever after
  closed,    \* the server closed the connection
  occurred,  \* how many events have occurred
  queue,     \* events at the server
  seen       \* history: the events a caller or its predicate was given

threadVars == <<pc, call, result>>
wire == <<inbox, outbox, silence, timedOut, closed>>
events == <<occurred, queue, seen>>
vars == <<threadVars, lock, counter, wire, events>>

Ops == {"getAll", "waitAndGet", "waitForEvent"}

Lesser(a, b) == IF a < b THEN a ELSE b

(* left: time to the deadline of waitForEvent; limit: the timeout sent. *)
NoCall == [op |-> "getAll", left |-> 0, limit |-> 0, id |-> 0, resp |-> None]

Faulty == timedOut \/ closed

-----------------------------------------------------------------------------
Init ==
  /\ pc = [t \in Threads |-> "idle"]
  /\ call = [t \in Threads |-> NoCall]
  /\ result = [t \in Threads |-> "none"]
  /\ lock = None /\ counter = 0
  /\ inbox = <<>> /\ outbox = <<>> /\ silence = 0
  /\ timedOut = FALSE /\ closed = FALSE
  /\ occurred = 0 /\ queue = <<>> /\ seen = {}

(* The call ends: it returned events, or raised CallbackHandlerTimeoutError,  *)
(* an ApiError ("api") or an error of the connection ("error").              *)
End(t, how) ==
  /\ pc' = [pc EXCEPT ![t] = "idle"]
  /\ call' = [call EXCEPT ![t] = NoCall]
  /\ result' = [result EXCEPT ![t] = how]

(* Mutant: some of the time left is kept back. *)
SingleTimeoutShort(left) == Lesser(left - 1, RpcMax)

(* single_rpc_timeout *)
SingleTimeout(left) == Lesser(left, RpcMax)

(* waitAndGet refuses a timeout above the maximum before it calls; the       *)
(* others go for the lock.                                                   *)
Begin(t, op, timeout) ==
  /\ pc[t] = "idle" /\ counter < MaxRpcs
  /\ op = "waitAndGet" => timeout <= RpcMax
  /\ pc' = [pc EXCEPT ![t] = "lock"]
  /\ call' = [call EXCEPT ![t] =
       [NoCall EXCEPT !.op = op, !.left = timeout,
                      !.limit = IF op = "waitForEvent" THEN SingleTimeout(timeout)
                                ELSE IF op = "waitAndGet" THEN timeout ELSE 0]]
  /\ result' = [result EXCEPT ![t] = "none"]
  /\ UNCHANGED <<lock, counter, wire, events>>

(* Mutant: the lock is not waited for. *)
LockFreeAlways == TRUE

LockFree == lock = None

(* with self._lock: the id is drawn and the request sent. *)
SendRequest(t) ==
  /\ pc[t] = "lock" /\ LockFree
  /\ lock' = t
  /\ counter' = counter + 1
  /\ inbox' = IF closed THEN inbox
              ELSE Append(inbox, [id |-> counter, by |-> t, op |-> call[t].op,
                                  limit |-> call[t].limit])
  /\ silence' = RpcMax
  /\ pc' = [pc EXCEPT ![t] = "read"]
  /\ call' = [call EXCEPT ![t].id = counter]
  /\ UNCHANGED <<result, outbox, timedOut, closed, events>>

(* Writing to a closed connection may raise; the lock is released.           *)
SendFails(t) ==
  /\ pc[t] = "lock" /\ LockFree /\ closed
  /\ counter' = counter + 1
  /\ End(t, "error")
  /\ UNCHANGED <<lock, wire, events>>

(* _decode_response_string_and_validate_format raises for another id. *)
IdMatches(t, response) == response.id = call[t].id

(* readline returns the next response, whosever it is; it is decoded after    *)
(* the lock is released.                                                     *)
Receive(t) ==
  /\ pc[t] = "read" /\ ~timedOut /\ outbox # <<>>
  /\ outbox' = Tail(outbox)
  /\ lock' = None
  /\ IF IdMatches(t, Head(outbox))
     THEN /\ pc' = [pc EXCEPT ![t] = "check"]
          /\ call' = [call EXCEPT ![t].resp = Head(outbox)]
          /\ UNCHANGED result
     ELSE End(t, "error")
  /\ UNCHANGED <<counter, inbox, silence, timedOut, closed, events>>

(* Mutant: the lock is kept by a read that raised. *)
ReleasedUnlessRaised == lock

Released == None

(* Nothing within the read timeout of the socket. *)
ReceiveTimesOut(t) ==
  /\ pc[t] = "read" /\ ~timedOut /\ ~closed /\ outbox = <<>> /\ silence = 0
  /\ timedOut' = TRUE
  /\ lock' = Released
  /\ End(t, "error")
  /\ UNCHANGED <<counter, inbox, outbox, silence, closed, events>>

(* The socket file raises because it timed out before, or the connection is   *)
(* closed and the response empty.                                            *)
ReceiveFails(t) ==
  /\ pc[t] = "read"
  /\ timedOut \/ (closed /\ outbox = <<>>)
  /\ lock' = Released
  /\ End(t, "error")
  /\ UNCHANGED <<counter, wire, events>>

Answered(t, kind) == pc[t] = "check" /\ call[t].resp.kind = kind

(* Mutant: getAll returns the first event only. *)
DeliverFirst(t) ==
  seen' = IF call[t].resp.events = <<>> THEN seen
          ELSE seen \cup {Head(call[t].resp.events)}

Deliver(t) == seen' = seen \cup ToSet(call[t].resp.events)

(* getAll and waitAndGet return what the RPC returned. *)
Return(t) ==
  /\ Answered(t, "events") /\ call[t].op # "waitForEvent"
  /\ Deliver(t)
  /\ End(t, "events")
  /\ UNCHANGED <<lock, counter, wire, occurred, queue>>

(* callEventWaitAndGetRpc: an EventSnippetException: timeout.  waitForEvent   *)
(* breaks at the first and raises its own.                                   *)
TimeOut(t) ==
  /\ Answered(t, "timeout")
  /\ End(t, "timeout")
  /\ UNCHANGED <<lock, counter, wire, events>>

(* _handle_rpc_response: any other error that the server reports is raised,   *)
(* and goes through callEventWaitAndGetRpc and waitForEvent as it is.        *)
RaiseApiError(t) ==
  /\ Answered(t, "api")
  /\ End(t, "api")
  /\ UNCHANGED <<lock, counter, wire, events>>

Accept(t) ==
  /\ Answered(t, "events") /\ call[t].op = "waitForEvent"
  /\ Deliver(t)
  /\ End(t, "events")
  /\ UNCHANGED <<lock, counter, wire, occurred, queue>>

Expired(left) == left < 0

(* The predicate is not satisfied: the event is dropped, and the next one     *)
(* asked for unless the deadline has passed.                                 *)
Reject(t) ==
  /\ Answered(t, "events") /\ call[t].op = "waitForEvent"
  /\ Deliver(t)
  /\ IF Expired(call[t].left) THEN End(t, "timeout")
     ELSE /\ pc' = [pc EXCEPT ![t] = "lock"]
          /\ call' = [call EXCEPT ![t].limit = SingleTimeout(call[t].left),
                                  ![t].resp = None]
          /\ UNCHANGED result
  /\ UNCHANGED <<lock, counter, wire, occurred, queue>>

-----------------------------------------------------------------------------
(* The server and time *)

Occur ==
  /\ occurred < MaxEvents
  /\ occurred' = occurred + 1
  /\ queue' = Append(queue, occurred')
  /\ UNCHANGED <<threadVars, lock, counter, wire, seen>>

Respond(kind, evs) ==
  /\ outbox' = Append(outbox, [id |-> Head(inbox).id, by |-> Head(inbox).by,
                               kind |-> kind, events |-> evs])
  /\ inbox' = Tail(inbox)

Serving == inbox # <<>> /\ ~closed

(* eventGetAll *)
ServeAll ==
  /\ Serving /\ Head(inbox).op = "getAll"
  /\ Respond("events", queue)
  /\ queue' = <<>>
  /\ UNCHANGED <<threadVars, lock, counter, silence, timedOut, closed, occurred, seen>>

(* eventWaitAndGet: the oldest event. *)
ServeEvent ==
  /\ Serving /\ Head(inbox).op # "getAll" /\ queue # <<>>
  /\ Respond("events", <<Head(queue)>>)
  /\ queue' = Tail(queue)
  /\ UNCHANGED <<threadVars, lock, counter, silence, timedOut, closed, occurred, seen>>

ServeTimeout ==
  /\ Serving /\ Head(inbox).op # "getAll" /\ queue = <<>> /\ Head(inbox).limit = 0
  /\ Respond("timeout", <<>>)
  /\ UNCHANGED <<threadVars, lock, counter, silence, timedOut, closed, events>>

(* The method raised on the device, a wait for an event at any time.         *)
ServeError ==
  /\ Serving
  /\ Respond("api", <<>>)
  /\ UNCHANGED <<threadVars, lock, counter, silence, timedOut, closed, events>>

(* The server died or the device is gone. *)
Close ==
  /\ ~closed
  /\ closed' = TRUE
  /\ UNCHANGED <<threadVars, lock, counter, inbox, outbox, silence, timedOut, events>>

CountDown(n, least) == IF n > least THEN n - 1 ELSE n

Waiting(t) == pc[t] # "idle" /\ call[t].op = "waitForEvent"

Tick ==
  /\ call' = [t \in Threads |-> IF Waiting(t)
                                THEN [call[t] EXCEPT !.left = CountDown(@, -1)]
                                ELSE call[t]]
  /\ inbox' = IF inbox = <<>> THEN inbox
              ELSE [inbox EXCEPT ![1].limit = CountDown(@, 0)]
  /\ silence' = CountDown(silence, 0)
  /\ UNCHANGED <<pc, result, lock, counter, outbox, timedOut, closed, events>>

-----------------------------------------------------------------------------
ThreadStep(t) ==
  \/ SendRequest(t)
  \/ SendFails(t)
  \/ Receive(t)
  \/ ReceiveTimesOut(t)
  \/ ReceiveFails(t)
  \/ Return(t)
  \/ TimeOut(t)
  \/ RaiseApiError(t)
  \/ Accept(t)
  \/ Reject(t)

Next ==
  \/ \E t \in Threads, op \in Ops, timeout \in Timeouts : Begin(t, op, timeout)
  \/ \E t \in Threads : ThreadStep(t)
  \/ Occur
  \/ ServeAll
  \/ ServeEvent
  \/ ServeTimeout
  \/ ServeError
  \/ Close
  \/ Tick

Spec == Init /\ [][Next]_vars

(* A thread that can go on does, and time passes.  The lock is fair in that a *)
(* thread that finds it free again and again gets it.  Nothing is assumed of  *)
(* the server.                                                               *)
Fairness ==
  /\ \A t \in Threads : SF_vars(ThreadStep(t))
  /\ WF_vars(Tick)

FairSpec == Spec /\ Fairness

-----------------------------------------------------------------------------
(* Properties *)

Response ==
  [id : Nat, by : Threads, kind : {"events", "timeout", "api"},
   events : Seq(1..MaxEvents)]

(* Every variable has a value its Python counterpart can have; the server is  *)
(* never asked to wait for less than no time, or for more than the maximum   *)
(* of one RPC, which is what the socket waits.                               *)
TypeOK ==
  /\ pc \in [Threads -> {"idle", "lock", "read", "check"}]
  /\ call \in [Threads -> [op : Ops, left : Int, limit : 0..RpcMax, id : Nat,
                           resp : Response \cup {None}]]
  /\ result \in [Threads -> {"none", "events", "timeout", "api", "error"}]
  /\ lock \in Threads \cup {None}
  /\ counter \in Nat
  /\ inbox \in Seq([id : Nat, by : Threads, op : Ops, limit : 0..RpcMax])
  /\ outbox \in Seq(Response)
  /\ silence \in Nat /\ timedOut \in BOOLEAN /\ closed \in BOOLEAN
  /\ occurred \in 0..MaxEvents /\ queue \in Seq(1..MaxEvents)
  /\ seen \subseteq 1..MaxEvents

(* ClientBase._rpc: calls of several threads do not disturb each other: one   *)
(* ends with an error (a mismatched id, for one) only on a connection that    *)
(* timed out or was closed.                                                  *)
FailsByFaultOnly == \A t \in Threads : result[t] = "error" => Faulty

(* waitForEvent, whose every RPC is given the time left: it reports a timeout *)
(* only when the time asked for has passed, also after waiting for the lock, *)
(* or when its last RPC was given the maximum (where it gives up early).     *)
TimeoutKept ==
  [][\A t \in Threads :
       result[t] = "none" /\ result'[t] = "timeout" /\ Waiting(t) =>
         call[t].left <= 0 \/ call[t].limit = RpcMax]_vars

(* Every call ends, also when the server never answers: no exception leaves   *)
(* the lock held, and a reader gives up.                                     *)
CallsEnd == \A t \in Threads : pc[t] # "idle" ~> pc[t] = "idle"

(* The events served for the RPC a thread is in and not handed over yet.     *)
InTransit(t) ==
  CASE pc[t] = "read" ->
         LET mine == {i \in DOMAIN outbox : outbox[i].by = t /\ outbox[i].id = call[t].id}
         IN IF mine = {} THEN <<>> ELSE outbox[CHOOSE i \in mine : TRUE].events
    [] pc[t] = "check" -> call[t].resp.events
    [] OTHER -> <<>>

(* The calls implement a queue of events that loses none and gives none to    *)
(* two callers unless the connection failed.                                 *)
Abstract == INSTANCE EventQueue WITH
  waits <- {t \in Threads : pc[t] # "idle"},
  taken <- [t \in Threads |-> InTransit(t)],
  failed <- Faulty

ImplementsQueue == Abstract!Spec
=============================================================================

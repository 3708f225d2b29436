------------------------- MODULE SnippetRpcProofs -------------------------
(***************************************************************************)
(* For any threads, timeouts and numbers of events and calls: calls of      *)
(* several threads on one connection do not disturb each other, waitForEvent*)
(* waits its time, and the calls implement EventQueue, so that no event is   *)
(* lost or given to two callers.                                            *)
(***************************************************************************)
EXTENDS SnippetRpc, SequenceTheorems, TLAPS

CallType ==
  [op : Ops, left : Int, limit : 0..RpcMax, id : Nat, resp : Response \cup {None}]

Request == [id : Nat, by : Threads, op : Ops, limit : 0..RpcMax]

(* The thread that reads holds the lock. *)
Holds == \A t \in Threads : pc[t] = "read" <=> lock = t

(* What a thread looks at is a response. *)
Checks == \A t \in Threads : pc[t] = "check" => call[t].resp \in Response

(* Before any fault nothing is under way but the request of the thread that   *)
(* holds the lock, or the response to it.                                    *)
Conversation ==
  ~Faulty =>
    /\ lock = None => inbox = <<>> /\ outbox = <<>>
    /\ lock # None =>
         \/ Len(inbox) = 1 /\ outbox = <<>> /\ inbox[1].id = call[lock].id
         \/ inbox = <<>> /\ Len(outbox) = 1 /\ outbox[1].id = call[lock].id

Inv == TypeOK /\ Holds /\ Checks /\ Conversation /\ FailsByFaultOnly

-----------------------------------------------------------------------------
LEMMA NoCallType == NoCall \in CallType
BY RpcAssumption DEF NoCall, CallType, Ops

LEMMA BegunType ==
  ASSUME NEW c \in CallType, NEW op \in Ops, NEW left \in Int, NEW limit \in 0..RpcMax
  PROVE  [c EXCEPT !.op = op, !.left = left, !.limit = limit] \in CallType
BY DEF CallType

LEMMA SingleTimeoutType ==
  ASSUME NEW left \in Int, left >= 0 PROVE SingleTimeout(left) \in 0..RpcMax
BY RpcAssumption DEF SingleTimeout, Lesser

LEMMA RestOf ==
  ASSUME NEW S, NEW s \in Seq(S), s # <<>>
  PROVE  /\ Head(s) \in S /\ Tail(s) \in Seq(S)
         /\ Head(s) = s[1] /\ Len(s) \in Nat /\ Len(s) >= 1
         /\ Len(Tail(s)) = Len(s) - 1
         /\ Len(s) = 1 => Tail(s) = <<>>
<1>1. /\ Head(s) \in S /\ Tail(s) \in Seq(S)
      /\ Head(s) = s[1] /\ Len(s) \in Nat /\ Len(s) >= 1
      /\ Len(Tail(s)) = Len(s) - 1
  OBVIOUS
<1> QED  BY <1>1, EmptySeq

LEMMA Appended ==
  ASSUME NEW S, NEW s \in Seq(S), NEW e \in S
  PROVE  /\ Append(s, e) \in Seq(S)
         /\ s = <<>> => Len(Append(s, e)) = 1 /\ Append(s, e)[1] = e
OBVIOUS

LEMMA Elements == ASSUME NEW S, NEW s \in Seq(S) PROVE ToSet(s) \subseteq S
BY DEF ToSet

LEMMA InitInv == Init => Inv
<1> SUFFICES ASSUME Init PROVE Inv
  OBVIOUS
<1>1. TypeOK
  <2>1. call \in [Threads -> CallType]
    BY NoCallType DEF Init
  <2>2. inbox \in Seq(Request) /\ outbox \in Seq(Response) /\ queue \in Seq(1..MaxEvents)
    BY DEF Init
  <2>3. timedOut \in BOOLEAN /\ closed \in BOOLEAN
    BY DEF Init
  <2>4. /\ pc \in [Threads -> {"idle", "lock", "read", "check"}]
        /\ result \in [Threads -> {"none", "events", "timeout", "api", "error"}]
        /\ lock \in Threads \cup {None} /\ counter \in Nat /\ silence \in Nat
        /\ occurred \in 0..MaxEvents /\ seen \subseteq 1..MaxEvents
    BY RpcAssumption DEF Init
  <2> QED  BY <2>1, <2>2, <2>3, <2>4 DEF TypeOK, CallType, Request
<1>2. Holds /\ Checks
  BY RpcAssumption DEF Init, Holds, Checks
<1>3. Conversation
  BY DEF Init, Conversation
<1>4. FailsByFaultOnly
  BY DEF Init, FailsByFaultOnly
<1> QED  BY <1>1, <1>2, <1>3, <1>4 DEF Inv

(* A call ends in one of four ways. *)
LEMMA EndType ==
  ASSUME TypeOK, NEW t \in Threads, NEW how \in {"events", "timeout", "api", "error"},
         End(t, how)
  PROVE  /\ pc' \in [Threads -> {"idle", "lock", "read", "check"}]
         /\ call' \in [Threads -> CallType]
         /\ result' \in [Threads -> {"none", "events", "timeout", "api", "error"}]
         /\ pc'[t] = "idle" /\ result'[t] = how
         /\ \A u \in Threads : u # t => /\ pc'[u] = pc[u] /\ call'[u] = call[u]
                                        /\ result'[u] = result[u]
BY NoCallType DEF End, TypeOK, CallType

(* Nothing but the call has changed, and the lock may have been released. *)
LEMMA EndInv ==
  ASSUME Inv, NEW t \in Threads, NEW how \in {"events", "timeout", "api", "error"},
         End(t, how),
         counter' \in Nat, seen' \subseteq 1..MaxEvents, timedOut' \in BOOLEAN,
         UNCHANGED <<inbox, outbox, silence, closed, occurred, queue>>,
         timedOut => timedOut',
         \/ pc[t] # "read" /\ lock' = lock
         \/ pc[t] = "read" /\ lock' = None /\ Faulty',
         how = "error" => Faulty'
  PROVE  Inv'
<1>1. TypeOK'
  BY EndType DEF Inv, TypeOK, CallType
<1>2. Holds' /\ Checks'
  BY EndType, RpcAssumption DEF Inv, Holds, Checks
<1>3. Faulty => Faulty'
  BY DEF Faulty
<1>4. Conversation'
  <2> SUFFICES ASSUME ~Faulty' PROVE Conversation'
    BY DEF Conversation
  <2>1. ~Faulty /\ lock' = lock /\ pc[t] # "read"
    BY <1>3
  <2>2. lock # t
    BY <2>1 DEF Inv, Holds
  <2>3. lock # None => call'[lock] = call[lock]
    BY <2>2, EndType DEF Inv, TypeOK
  <2> QED  BY <2>1, <2>3 DEF Inv, Conversation
<1>5. FailsByFaultOnly'
  BY <1>3, EndType DEF Inv, FailsByFaultOnly
<1> QED  BY <1>1, <1>2, <1>4, <1>5 DEF Inv

(* The end of a call that was answered. *)
LEMMA AnsweredInv ==
  ASSUME Inv, NEW t \in Threads, NEW how \in {"events", "timeout", "api"}, End(t, how),
         NEW kind, Answered(t, kind), seen' = seen \/ Deliver(t),
         UNCHANGED <<lock, counter, wire, occurred, queue>>
  PROVE  Inv'
<1>1. seen' \subseteq 1..MaxEvents
  <2>1. call[t].resp \in Response
    BY DEF Inv, Checks, Answered
  <2>2. call[t].resp.events \in Seq(1..MaxEvents)
    BY <2>1 DEF Response
  <2>3. ToSet(call[t].resp.events) \subseteq 1..MaxEvents
    BY <2>2, Elements
  <2> QED  BY <2>3 DEF Inv, TypeOK, Deliver
<1>2. /\ counter' \in Nat /\ timedOut' \in BOOLEAN /\ (timedOut => timedOut')
      /\ UNCHANGED <<inbox, outbox, silence, closed, occurred, queue, lock>>
      /\ pc[t] # "read"
  BY DEF Inv, TypeOK, wire, Answered
<1> QED  BY <1>1, <1>2, EndInv

LEMMA ReturnInv ==
  ASSUME Inv, NEW t \in Threads, Return(t) \/ TimeOut(t) \/ RaiseApiError(t) \/ Accept(t)
  PROVE  Inv'
BY AnsweredInv DEF Return, TimeOut, RaiseApiError, Accept, events

(* A call that goes on or begins, elsewhere than in the lock. *)
LEMMA GoOnInv ==
  ASSUME Inv, NEW t \in Threads, pc[t] \in {"idle", "check"},
         NEW c \in CallType,
         pc' = [pc EXCEPT ![t] = "lock"], call' = [call EXCEPT ![t] = c],
         result' \in [Threads -> {"none", "events", "timeout", "api", "error"}],
         \A u \in Threads : result'[u] = "error" => result[u] = "error",
         seen' \subseteq 1..MaxEvents,
         UNCHANGED <<lock, counter, wire, occurred, queue>>
  PROVE  Inv'
<1>1. /\ pc' \in [Threads -> {"idle", "lock", "read", "check"}]
      /\ call' \in [Threads -> CallType]
      /\ pc'[t] = "lock"
      /\ \A u \in Threads : u # t => pc'[u] = pc[u] /\ call'[u] = call[u]
  BY DEF Inv, TypeOK, CallType
<1>2. TypeOK'
  BY <1>1 DEF Inv, TypeOK, CallType, wire
<1>3. Holds' /\ Checks'
  BY <1>1 DEF Inv, Holds, Checks
<1>4. Conversation'
  <2>1. lock # t
    BY DEF Inv, Holds
  <2>2. lock # None => call'[lock] = call[lock]
    BY <1>1, <2>1 DEF Inv, TypeOK
  <2>3. \A u \in Threads : pc'[u] = "check" => pc[u] = "check" /\ call'[u] = call[u]
    BY <1>1
  <2> QED  BY <2>2, <2>3 DEF Inv, Conversation, wire, Faulty
<1>5. FailsByFaultOnly'
  BY DEF Inv, FailsByFaultOnly, Faulty, wire
<1> QED  BY <1>2, <1>3, <1>4, <1>5 DEF Inv

LEMMA BeginInv ==
  ASSUME Inv, NEW t \in Threads, NEW op \in Ops, NEW timeout \in Timeouts,
         Begin(t, op, timeout)
  PROVE  Inv'
<1> DEFINE limit == IF op = "waitForEvent" THEN SingleTimeout(timeout)
                    ELSE IF op = "waitAndGet" THEN timeout ELSE 0
           c == [NoCall EXCEPT !.op = op, !.left = timeout, !.limit = limit]
<1>1. timeout \in Nat /\ RpcMax \in Nat
  BY RpcAssumption
<1>2. limit \in 0..RpcMax
  BY <1>1, SingleTimeoutType DEF Begin, Ops
<1>3. /\ pc[t] = "idle"
      /\ pc' = [pc EXCEPT ![t] = "lock"] /\ call' = [call EXCEPT ![t] = c]
      /\ result' = [result EXCEPT ![t] = "none"]
      /\ UNCHANGED <<lock, counter, wire, occurred, queue, seen>>
  BY DEF Begin, events
<1> HIDE DEF limit
<1>4. c \in CallType
  <2>1. timeout \in Int
    BY <1>1
  <2> QED  BY <1>2, <2>1, NoCallType, BegunType, Zenon
<1> HIDE DEF c
<1>5. /\ result' \in [Threads -> {"none", "events", "timeout", "api", "error"}]
      /\ \A u \in Threads : result'[u] = "error" => result[u] = "error"
      /\ seen' \subseteq 1..MaxEvents
  BY <1>3 DEF Inv, TypeOK
<1> QED  BY <1>3, <1>4, <1>5, GoOnInv

LEMMA RejectInv == ASSUME Inv, NEW t \in Threads, Reject(t) PROVE Inv'
<1>1. CASE Expired(call[t].left)
  BY <1>1, AnsweredInv DEF Reject
<1>2. CASE ~Expired(call[t].left)
  <2> DEFINE c == [call[t] EXCEPT !.limit = SingleTimeout(call[t].left), !.resp = None]
  <2>1. call[t] \in CallType
    BY DEF Inv, TypeOK, CallType
  <2>2. call[t].left \in Int /\ call[t].left >= 0
    BY <1>2, <2>1 DEF Expired, CallType
  <2>3. c \in CallType
    BY <2>1, <2>2, SingleTimeoutType DEF CallType
  <2>4. /\ pc[t] = "check"
        /\ pc' = [pc EXCEPT ![t] = "lock"]
        /\ result' = result
        /\ UNCHANGED <<lock, counter, wire, occurred, queue>>
    BY <1>2 DEF Reject, Answered
  <2>5. call' = [call EXCEPT ![t] = c]
    BY <1>2, <2>1 DEF Reject, Inv, TypeOK
  <2>6. seen' \subseteq 1..MaxEvents
    <3>1. call[t].resp \in Response
      BY <2>4 DEF Inv, Checks
    <3>2. call[t].resp.events \in Seq(1..MaxEvents)
      BY <3>1 DEF Response
    <3>3. ToSet(call[t].resp.events) \subseteq 1..MaxEvents
      BY <3>2, Elements
    <3> QED  BY <3>3 DEF Inv, TypeOK, Deliver, Reject
  <2> HIDE DEF c
  <2>7. /\ result' \in [Threads -> {"none", "events", "timeout", "api", "error"}]
        /\ \A u \in Threads : result'[u] = "error" => result[u] = "error"
    BY <2>4 DEF Inv, TypeOK
  <2> QED  BY <2>3, <2>4, <2>5, <2>6, <2>7, GoOnInv
<1> QED  BY <1>1, <1>2

-----------------------------------------------------------------------------
(* Sending and reading *)

LEMMA SendRequestInv == ASSUME Inv, NEW t \in Threads, SendRequest(t) PROVE Inv'
<1> DEFINE req == [id |-> counter, by |-> t, op |-> call[t].op, limit |-> call[t].limit]
<1>1. /\ call[t] \in CallType /\ counter \in Nat /\ RpcMax \in Nat
      /\ inbox \in Seq(Request) /\ lock = None /\ lock' = t /\ t # None
  BY RpcAssumption DEF Inv, TypeOK, CallType, Request, SendRequest, LockFree
<1>2. req \in Request
  BY <1>1 DEF Request, CallType
<1>3. Append(inbox, req) \in Seq(Request)
  BY <1>1, <1>2, Appended
<1>4. /\ call' = [call EXCEPT ![t].id = counter]
      /\ pc' = [pc EXCEPT ![t] = "read"]
      /\ inbox' = IF closed THEN inbox ELSE Append(inbox, req)
      /\ counter' = counter + 1 /\ silence' = RpcMax
      /\ UNCHANGED <<result, outbox, timedOut, closed, occurred, queue, seen>>
  BY DEF SendRequest, events
<1> HIDE DEF req
<1>5. /\ call' \in [Threads -> CallType]
      /\ call'[t].id = counter
      /\ \A u \in Threads : u # t => call'[u] = call[u] /\ pc'[u] = pc[u]
      /\ pc' \in [Threads -> {"idle", "lock", "read", "check"}] /\ pc'[t] = "read"
  <2>1. call \in [Threads -> CallType]
    BY DEF Inv, TypeOK, CallType
  <2> QED  BY <1>1, <1>4, <2>1 DEF Inv, TypeOK, CallType
<1>6. TypeOK'
  <2>1. inbox' \in Seq(Request)
    BY <1>1, <1>3, <1>4
  <2>2. counter' \in Nat /\ silence' \in Nat /\ lock' \in Threads \cup {None}
    BY <1>1, <1>4
  <2> QED  BY <1>4, <1>5, <2>1, <2>2 DEF Inv, TypeOK, CallType, Request
<1>7. Holds' /\ Checks'
  BY <1>1, <1>5, RpcAssumption DEF Inv, Holds, Checks
<1>8. Conversation'
  <2> SUFFICES ASSUME ~Faulty' PROVE Conversation'
    BY DEF Conversation
  <2>1. ~Faulty /\ ~closed
    BY <1>4 DEF Faulty
  <2>2. inbox = <<>> /\ outbox = <<>>
    BY <1>1, <2>1 DEF Inv, Conversation
  <2>3. Len(inbox') = 1 /\ inbox'[1] = req /\ outbox' = <<>>
    BY <1>1, <1>2, <1>4, <2>1, <2>2, Appended
  <2>4. inbox'[1].id = call'[lock'].id
    BY <1>1, <1>5, <2>3 DEF req
  <2>5. \A u \in Threads : pc'[u] = "check" => pc[u] = "check" /\ call'[u] = call[u]
    BY <1>5
  <2> QED  BY <1>1, <2>1, <2>3, <2>4, <2>5 DEF Inv, Conversation
<1>9. FailsByFaultOnly'
  BY <1>4 DEF Inv, FailsByFaultOnly, Faulty
<1> QED  BY <1>6, <1>7, <1>8, <1>9 DEF Inv

LEMMA ReceiveInv == ASSUME Inv, NEW t \in Threads, Receive(t) PROVE Inv'
<1>1. /\ outbox \in Seq(Response) /\ outbox # <<>> /\ pc[t] = "read" /\ lock = t
      /\ call \in [Threads -> CallType] /\ lock' = None /\ t # None
  BY RpcAssumption DEF Inv, TypeOK, CallType, Holds, Receive
<1>2. /\ Head(outbox) \in Response /\ Tail(outbox) \in Seq(Response)
      /\ Head(outbox) = outbox[1] /\ (Len(outbox) = 1 => Tail(outbox) = <<>>)
  BY <1>1, RestOf
<1>3. /\ outbox' = Tail(outbox)
      /\ UNCHANGED <<counter, inbox, silence, timedOut, closed, occurred, queue, seen>>
  BY DEF Receive, events
<1>4. ~Faulty => inbox = <<>> /\ Len(outbox) = 1 /\ IdMatches(t, Head(outbox))
  BY <1>1, <1>2 DEF Inv, Conversation, IdMatches
<1>5. Conversation'
  BY <1>1, <1>2, <1>3, <1>4 DEF Conversation, Faulty
<1>6. CASE IdMatches(t, Head(outbox))
  <2>1. /\ call' = [call EXCEPT ![t].resp = Head(outbox)]
        /\ pc' = [pc EXCEPT ![t] = "check"] /\ result' = result
    BY <1>6 DEF Receive
  <2>2. /\ call' \in [Threads -> CallType] /\ call'[t].resp = Head(outbox)
        /\ \A u \in Threads : u # t => call'[u] = call[u] /\ pc'[u] = pc[u]
        /\ pc' \in [Threads -> {"idle", "lock", "read", "check"}] /\ pc'[t] = "check"
    BY <1>1, <1>2, <2>1 DEF Inv, TypeOK, CallType
  <2>3. TypeOK'
    BY <1>1, <1>2, <1>3, <2>1, <2>2 DEF Inv, TypeOK, CallType
  <2>4. Holds' /\ Checks'
    BY <1>1, <1>2, <2>2, RpcAssumption DEF Inv, Holds, Checks
  <2>5. FailsByFaultOnly'
    BY <1>3, <2>1 DEF Inv, FailsByFaultOnly, Faulty
  <2> QED  BY <1>5, <2>3, <2>4, <2>5 DEF Inv
<1>7. CASE ~IdMatches(t, Head(outbox))
  <2>1. End(t, "error")
    BY <1>7 DEF Receive
  <2>2. /\ pc' \in [Threads -> {"idle", "lock", "read", "check"}]
        /\ call' \in [Threads -> CallType]
        /\ result' \in [Threads -> {"none", "events", "timeout", "api", "error"}]
        /\ pc'[t] = "idle"
        /\ \A u \in Threads : u # t => pc'[u] = pc[u] /\ call'[u] = call[u]
    BY <2>1, EndType DEF Inv
  <2>3. TypeOK'
    BY <1>1, <1>2, <1>3, <2>2 DEF Inv, TypeOK, CallType
  <2>4. Holds' /\ Checks'
    BY <1>1, <2>2, RpcAssumption DEF Inv, Holds, Checks
  <2>5. FailsByFaultOnly'
    BY <1>3, <1>4, <1>7 DEF FailsByFaultOnly, Faulty
  <2> QED  BY <1>5, <2>3, <2>4, <2>5 DEF Inv
<1> QED  BY <1>6, <1>7

(* Calls that fail. *)
LEMMA FailsInv ==
  ASSUME Inv, NEW t \in Threads,
         SendFails(t) \/ ReceiveTimesOut(t) \/ ReceiveFails(t)
  PROVE  Inv'
<1>0. counter \in Nat /\ counter + 1 \in Nat /\ timedOut \in BOOLEAN /\ seen \subseteq 1..MaxEvents
  BY DEF Inv, TypeOK
<1>1. CASE SendFails(t)
  BY <1>0, <1>1, EndInv DEF SendFails, wire, events, Faulty
<1>2. CASE ReceiveTimesOut(t)
  BY <1>0, <1>2, EndInv DEF ReceiveTimesOut, Released, events, Faulty
<1>3. CASE ReceiveFails(t)
  BY <1>0, <1>3, EndInv DEF ReceiveFails, Released, wire, events, Faulty
<1> QED  BY <1>1, <1>2, <1>3

-----------------------------------------------------------------------------
(* The server, the world and time *)

(* The first request is answered. *)
LEMMA ServeInv ==
  ASSUME Inv, Serving, NEW kind \in {"events", "timeout", "api"},
         NEW evs \in Seq(1..MaxEvents),
         Respond(kind, evs), queue' \in Seq(1..MaxEvents),
         UNCHANGED <<threadVars, lock, counter, silence, timedOut, closed, occurred, seen>>
  PROVE  Inv'
<1> DEFINE req == Head(inbox)
           resp == [id |-> req.id, by |-> req.by, kind |-> kind, events |-> evs]
<1>1. inbox \in Seq(Request) /\ inbox # <<>> /\ outbox \in Seq(Response)
  BY DEF Inv, TypeOK, Request, Serving
<1>2. /\ req \in Request /\ Tail(inbox) \in Seq(Request) /\ req = inbox[1]
      /\ Len(inbox) = 1 => Tail(inbox) = <<>>
  BY <1>1, RestOf
<1>3. resp \in Response /\ resp.id = req.id
  BY <1>2 DEF Request, Response
<1>4. inbox' = Tail(inbox) /\ outbox' = Append(outbox, resp)
  BY DEF Respond
<1> HIDE DEF resp
<1>5. /\ outbox' \in Seq(Response)
      /\ outbox = <<>> => Len(outbox') = 1 /\ outbox'[1] = resp
  BY <1>1, <1>3, <1>4, Appended
<1>6. TypeOK'
  BY <1>2, <1>4, <1>5 DEF Inv, TypeOK, Request, threadVars
<1>7. Holds' /\ Checks' /\ FailsByFaultOnly'
  BY DEF Inv, Holds, Checks, FailsByFaultOnly, Faulty, threadVars
<1>8. Conversation'
  <2> SUFFICES ASSUME ~Faulty' PROVE Conversation'
    BY DEF Conversation
  <2>1. ~Faulty
    BY DEF Faulty
  <2>2. lock # None /\ Len(inbox) = 1 /\ outbox = <<>> /\ inbox[1].id = call[lock].id
    BY <1>1, <2>1 DEF Inv, Conversation
  <2>3. inbox' = <<>> /\ Len(outbox') = 1 /\ outbox'[1].id = call'[lock'].id
    BY <1>2, <1>3, <1>4, <1>5, <2>2 DEF threadVars
  <2> QED  BY <2>1, <2>2, <2>3 DEF Inv, Conversation, threadVars
<1> QED  BY <1>6, <1>7, <1>8 DEF Inv

LEMMA ServesInv ==
  ASSUME Inv, ServeAll \/ ServeEvent \/ ServeTimeout \/ ServeError PROVE Inv'
<1>1. queue \in Seq(1..MaxEvents) /\ <<>> \in Seq(1..MaxEvents)
  BY DEF Inv, TypeOK
<1>2. CASE ServeAll
  BY <1>1, <1>2, ServeInv DEF ServeAll
<1>3. CASE ServeEvent
  <2>1. queue # <<>>
    BY <1>3 DEF ServeEvent
  <2>2. Head(queue) \in 1..MaxEvents /\ Tail(queue) \in Seq(1..MaxEvents)
    BY <1>1, <2>1, RestOf, Zenon
  <2>3. <<Head(queue)>> \in Seq(1..MaxEvents)
    BY <2>2
  <2> QED  BY <1>3, <2>2, <2>3, ServeInv DEF ServeEvent
<1>4. CASE ServeTimeout
  BY <1>1, <1>4, ServeInv DEF ServeTimeout, events
<1>5. CASE ServeError
  BY <1>1, <1>5, ServeInv DEF ServeError, events
<1> QED  BY <1>2, <1>3, <1>4, <1>5

LEMMA OccurInv == ASSUME Inv, Occur PROVE Inv'
<1>1. occurred' \in 1..MaxEvents /\ queue \in Seq(1..MaxEvents)
  BY RpcAssumption DEF Inv, TypeOK, Occur
<1>2. Append(queue, occurred') \in Seq(1..MaxEvents)
  BY <1>1, Appended
<1>3. queue' = Append(queue, occurred') /\ UNCHANGED <<threadVars, lock, counter, wire, seen>>
  BY DEF Occur
<1>4. TypeOK'
  BY <1>1, <1>2, <1>3 DEF Inv, TypeOK, threadVars, wire
<1> QED
  BY <1>3, <1>4
  DEF Inv, Holds, Checks, Conversation, FailsByFaultOnly, Faulty, threadVars, wire

LEMMA CloseInv == ASSUME Inv, Close PROVE Inv'
<1>1. TypeOK'
  BY DEF Inv, TypeOK, Close, threadVars, events
<1> QED
  BY <1>1 DEF Inv, Close, Holds, Checks, Conversation, FailsByFaultOnly, Faulty, threadVars

(* Time passes: the time a waiting call has left stays an integer, and      *)
(* nothing else of the call changes.                                        *)
LEMMA CountDownInt == ASSUME NEW n \in Int PROVE CountDown(n, -1) \in Int
BY DEF CountDown

(* A call whose time left is counted down remains the same call.            *)
LEMMA LeftSet ==
  ASSUME NEW c \in CallType, CountDown(c.left, -1) \in Int
  PROVE  /\ [c EXCEPT !.left = CountDown(@, -1)] \in CallType
         /\ [c EXCEPT !.left = CountDown(@, -1)].id = c.id
         /\ [c EXCEPT !.left = CountDown(@, -1)].resp = c.resp
<1> DEFINE l == CountDown(c.left, -1)
<1>1. l \in Int
  OBVIOUS
<1> HIDE DEF l
<1>2. [c EXCEPT !.left = l] \in CallType /\ [c EXCEPT !.left = l].id = c.id
      /\ [c EXCEPT !.left = l].resp = c.resp
  BY <1>1 DEF CallType
<1> QED  BY <1>2 DEF l

LEMMA TickInv == ASSUME Inv, Tick PROVE Inv'
<1>1. /\ UNCHANGED <<pc, result, lock, counter, outbox, timedOut, closed, occurred, queue, seen>>
      /\ call \in [Threads -> CallType] /\ inbox \in Seq(Request) /\ silence \in Nat
  BY DEF Inv, TypeOK, CallType, Request, Tick, events
<1>2. /\ call' \in [Threads -> CallType]
      /\ \A t \in Threads : call'[t].id = call[t].id /\ call'[t].resp = call[t].resp
  <2>1. ASSUME NEW t \in Threads
        PROVE  /\ call'[t] \in CallType
               /\ call'[t].id = call[t].id /\ call'[t].resp = call[t].resp
    <3>1. call[t] \in CallType
      BY <1>1
    <3>2. CASE Waiting(t)
      <4>1. call'[t] = [call[t] EXCEPT !.left = CountDown(@, -1)]
        BY <3>2 DEF Tick
      <4>2. CountDown(call[t].left, -1) \in Int
        BY <3>1, CountDownInt DEF CallType
      <4> QED  BY <3>1, <4>1, <4>2, LeftSet, Zenon
    <3>3. CASE ~Waiting(t)
      BY <3>1, <3>3 DEF Tick
    <3> QED  BY <3>2, <3>3
  <2>2. DOMAIN call' = Threads /\ call' = [t \in Threads |-> call'[t]]
    BY DEF Tick
  <2> QED  BY <2>1, <2>2
<1>3. /\ inbox' \in Seq(Request) /\ Len(inbox') = Len(inbox)
      /\ inbox = <<>> => inbox' = <<>>
      /\ inbox # <<>> => inbox'[1].id = inbox[1].id
  <2>1. CASE inbox = <<>>
    BY <1>1, <2>1 DEF Tick
  <2>2. CASE inbox # <<>>
    <3> DEFINE r == [inbox[1] EXCEPT !.limit = CountDown(@, 0)]
    <3>1. inbox[1] \in Request /\ 1 \in 1..Len(inbox)
      BY <1>1, <2>2
    <3>2. r \in Request /\ r.id = inbox[1].id
      BY <3>1, RpcAssumption DEF Request, CountDown
    <3>3. inbox' = [inbox EXCEPT ![1] = r]
      BY <2>2, <3>1 DEF Tick
    <3> HIDE DEF r
    <3> QED  BY <1>1, <2>2, <3>1, <3>2, <3>3
  <2> QED  BY <2>1, <2>2
<1>4. silence' \in Nat
  BY <1>1 DEF Tick, CountDown
<1>5. TypeOK'
  BY <1>1, <1>2, <1>3, <1>4 DEF Inv, TypeOK, CallType, Request
<1>6. Holds' /\ Checks' /\ FailsByFaultOnly'
  BY <1>1, <1>2 DEF Inv, Holds, Checks, FailsByFaultOnly, Faulty
<1>7. Conversation'
  <2>1. lock # None => call'[lock].id = call[lock].id
    BY <1>2 DEF Inv, TypeOK
  <2>2. Len(inbox) = 1 => inbox # <<>>
    OBVIOUS
  <2> QED  BY <1>1, <1>2, <1>3, <2>1, <2>2 DEF Inv, Conversation, Faulty
<1> QED  BY <1>5, <1>6, <1>7 DEF Inv

LEMMA StutterInv == ASSUME Inv, UNCHANGED vars PROVE Inv'
<1>1. TypeOK'
  BY DEF Inv, TypeOK, vars, threadVars, wire, events
<1> QED
  BY <1>1 DEF Inv, Holds, Checks, Conversation, FailsByFaultOnly, Faulty,
              vars, threadVars, wire

LEMMA NextInv == Inv /\ [Next]_vars => Inv'
<1> SUFFICES ASSUME Inv, [Next]_vars PROVE Inv'
  OBVIOUS
<1>1. ASSUME NEW t \in Threads, NEW op \in Ops, NEW timeout \in Timeouts,
             Begin(t, op, timeout)
      PROVE  Inv'
  BY <1>1, BeginInv
<1>2. ASSUME NEW t \in Threads, ThreadStep(t) PROVE Inv'
  BY <1>2, SendRequestInv, ReceiveInv, FailsInv, ReturnInv, RejectInv DEF ThreadStep
<1>3. CASE ServeAll \/ ServeEvent \/ ServeTimeout \/ ServeError
  BY <1>3, ServesInv
<1>4. CASE Occur
  BY <1>4, OccurInv
<1>5. CASE Close
  BY <1>5, CloseInv
<1>6. CASE Tick
  BY <1>6, TickInv
<1>7. CASE UNCHANGED vars
  BY <1>7, StutterInv
<1> QED  BY <1>1, <1>2, <1>3, <1>4, <1>5, <1>6, <1>7 DEF Next

-----------------------------------------------------------------------------
(* No server is asked to wait for less than no time or for more than the      *)
(* maximum of one RPC, and every variable keeps its type.                    *)
THEOREM TypeCorrect == Spec => []TypeOK
<1>1. Inv => TypeOK
  BY DEF Inv
<1> QED  BY <1>1, InitInv, NextInv, PTL DEF Spec

(* ClientBase._rpc: any number of threads may share a connection, and any     *)
(* number of calls be made on it: a call ends with an error, such as a        *)
(* response with the id of another call, only after a timeout or the end of  *)
(* the connection.                                                           *)
THEOREM CallsUndisturbed == Spec => []FailsByFaultOnly
<1>1. Inv => FailsByFaultOnly
  BY DEF Inv
<1> QED  BY <1>1, InitInv, NextInv, PTL DEF Spec

-----------------------------------------------------------------------------
(* What is on the wire, and for whom: the invariant behind TimeoutKept and    *)
(* the queue of events that the calls implement.                             *)

(* Ids grow along the wire: those of the responses that were not read yet,    *)
(* then those of the requests at the server, then the next id.               *)
Numbered ==
  /\ \A i \in DOMAIN inbox : inbox[i].id < counter
  /\ \A i \in DOMAIN outbox : outbox[i].id < counter
  /\ \A i, j \in DOMAIN inbox : i < j => inbox[i].id < inbox[j].id
  /\ \A i, j \in DOMAIN outbox : i < j => outbox[i].id < outbox[j].id
  /\ \A i \in DOMAIN outbox, j \in DOMAIN inbox : outbox[i].id < inbox[j].id

(* What bears the id of the RPC a thread is in is of that thread. *)
Addressed ==
  \A t \in Threads : pc[t] = "read" =>
    /\ call[t].id < counter
    /\ \A i \in DOMAIN inbox : inbox[i].id = call[t].id =>
         inbox[i].by = t /\ inbox[i].op = call[t].op
    /\ \A i \in DOMAIN outbox : outbox[i].id = call[t].id => outbox[i].by = t

(* A response that reports an error brings no events. *)
EmptyHanded ==
  /\ \A i \in DOMAIN outbox : outbox[i].kind # "events" => outbox[i].events = <<>>
  /\ \A t \in Threads : pc[t] = "check" /\ call[t].resp.kind # "events" =>
       call[t].resp.events = <<>>

(* No time is left to the call, or it asked for as much as one RPC can. *)
Spent(c) == c.left <= 0 \/ c.limit = RpcMax

(* The timeout sent, and what is left of it at the server, is no less than the *)
(* time left to the call, unless it is the maximum.                          *)
InTime ==
  \A t \in Threads : Waiting(t) =>
    /\ call[t].left <= call[t].limit \/ call[t].limit = RpcMax
    /\ pc[t] = "read" =>
         /\ \A i \in DOMAIN inbox : inbox[i].id = call[t].id =>
              call[t].left <= inbox[i].limit \/ call[t].limit = RpcMax
         /\ \A i \in DOMAIN outbox : outbox[i].id = call[t].id /\ outbox[i].kind = "timeout" =>
              Spent(call[t])
    /\ pc[t] = "check" /\ call[t].resp.kind = "timeout" => Spent(call[t])

Linked == Inv /\ Numbered /\ Addressed /\ EmptyHanded /\ InTime

LEMMA LinkedTypes ==
  ASSUME Linked
  PROVE  /\ inbox \in Seq(Request) /\ outbox \in Seq(Response)
         /\ call \in [Threads -> CallType] /\ counter \in Nat
         /\ pc \in [Threads -> {"idle", "lock", "read", "check"}]
         /\ lock \in Threads \cup {None} /\ queue \in Seq(1..MaxEvents)
         /\ RpcMax \in Nat /\ None \notin Threads
BY RpcAssumption DEF Linked, Inv, TypeOK, CallType, Request

LEMMA TailAt ==
  ASSUME NEW S, NEW s \in Seq(S), s # <<>>, NEW i \in DOMAIN Tail(s)
  PROVE  i \in Int /\ i + 1 \in DOMAIN s /\ Tail(s)[i] = s[i + 1] /\ s[i + 1] \in S
OBVIOUS

LEMMA HeadAt ==
  ASSUME NEW S, NEW s \in Seq(S), s # <<>>
  PROVE  1 \in DOMAIN s /\ Head(s) = s[1] /\ s[1] \in S /\ DOMAIN s \subseteq Nat
         /\ \A i \in DOMAIN s : i # 1 => 1 < i
OBVIOUS

LEMMA AppendAt ==
  ASSUME NEW S, NEW s \in Seq(S), NEW e, NEW i \in DOMAIN Append(s, e)
  PROVE  /\ i \in Int
         /\ \/ i \in DOMAIN s /\ i < Len(s) + 1 /\ Append(s, e)[i] = s[i] /\ s[i] \in S
            \/ i = Len(s) + 1 /\ Append(s, e)[i] = e
OBVIOUS

LEMMA ElementsAre ==
  ASSUME NEW S, NEW s \in Seq(S) PROVE \A i \in DOMAIN s : s[i] \in S /\ i \in Nat
OBVIOUS

(* Ids are numbers. *)
LEMMA IdTypes ==
  ASSUME Linked
  PROVE  /\ \A i \in DOMAIN inbox : inbox[i] \in Request /\ inbox[i].id \in Nat
         /\ \A i \in DOMAIN outbox : outbox[i] \in Response /\ outbox[i].id \in Nat
<1>1. \A i \in DOMAIN inbox : inbox[i] \in Request
  BY LinkedTypes, ElementsAre
<1>2. \A i \in DOMAIN outbox : outbox[i] \in Response
  BY LinkedTypes, ElementsAre
<1> QED  BY <1>1, <1>2 DEF Request, Response

LEMMA InitLinked == Init => Linked
<1> SUFFICES ASSUME Init PROVE Linked
  OBVIOUS
<1>1. /\ Inv /\ inbox = <<>> /\ outbox = <<>>
      /\ \A t \in Threads : pc[t] = "idle"
  BY InitInv DEF Init
<1> QED  BY <1>1 DEF Linked, Numbered, Addressed, EmptyHanded, InTime, Waiting

(* The call of one thread has ended. *)
LEMMA EndLinked ==
  ASSUME Linked, NEW t \in Threads, NEW how \in {"events", "timeout", "api", "error"},
         End(t, how), Inv', counter' \in {counter, counter + 1},
         UNCHANGED <<inbox, outbox>>
  PROVE  Linked'
<1>1. /\ pc'[t] = "idle"
      /\ \A u \in Threads : u # t => pc'[u] = pc[u] /\ call'[u] = call[u]
  BY EndType DEF Linked, Inv
<1>2. Numbered'
  <2>1. counter \in Nat /\ counter' >= counter
    BY LinkedTypes
  <2> QED  BY <2>1, IdTypes DEF Linked, Numbered
<1>3. Addressed'
  <2>1. \A u \in Threads : pc'[u] = "read" =>
          u # t /\ pc[u] = "read" /\ call'[u] = call[u] /\ call[u].id \in Nat
    BY <1>1, LinkedTypes DEF CallType
  <2>2. counter \in Nat /\ counter' >= counter
    BY LinkedTypes
  <2> QED  BY <2>1, <2>2 DEF Linked, Addressed
<1>4. EmptyHanded'
  BY <1>1 DEF Linked, EmptyHanded
<1>5. InTime'
  BY <1>1 DEF Linked, InTime, Waiting, Spent
<1> QED  BY <1>2, <1>3, <1>4, <1>5 DEF Linked

(* A call goes for the lock. *)
LEMMA GoOnLinked ==
  ASSUME Linked, NEW t \in Threads, NEW c \in CallType,
         pc' = [pc EXCEPT ![t] = "lock"], call' = [call EXCEPT ![t] = c],
         c.op = "waitForEvent" => c.left <= c.limit \/ c.limit = RpcMax,
         UNCHANGED <<inbox, outbox, counter>>, Inv'
  PROVE  Linked'
<1>1. /\ pc'[t] = "lock" /\ call'[t] = c
      /\ \A u \in Threads : u # t => pc'[u] = pc[u] /\ call'[u] = call[u]
  BY LinkedTypes
<1>2. Numbered' /\ Addressed' /\ EmptyHanded'
  BY <1>1 DEF Linked, Numbered, Addressed, EmptyHanded
<1>3. InTime'
  BY <1>1 DEF Linked, InTime, Waiting, Spent
<1> QED  BY <1>2, <1>3 DEF Linked

(* Nothing of what Linked speaks of changes. *)
LEMMA SameLinked ==
  ASSUME Linked, UNCHANGED <<pc, call, counter, inbox, outbox>>, Inv'
  PROVE  Linked'
BY DEF Linked, Numbered, Addressed, EmptyHanded, InTime, Waiting, Spent

LEMMA BeginLinked ==
  ASSUME Linked, NEW t \in Threads, NEW op \in Ops, NEW timeout \in Timeouts,
         Begin(t, op, timeout), Inv'
  PROVE  Linked'
<1> DEFINE limit == IF op = "waitForEvent" THEN SingleTimeout(timeout)
                    ELSE IF op = "waitAndGet" THEN timeout ELSE 0
           c == [NoCall EXCEPT !.op = op, !.left = timeout, !.limit = limit]
<1>1. timeout \in Nat /\ RpcMax \in Nat
  BY RpcAssumption
<1>2. limit \in 0..RpcMax
  BY <1>1, SingleTimeoutType DEF Begin, Ops
<1>3. /\ pc' = [pc EXCEPT ![t] = "lock"] /\ call' = [call EXCEPT ![t] = c]
      /\ UNCHANGED <<inbox, outbox, counter>>
  BY DEF Begin, wire
<1>4. op = "waitForEvent" => timeout <= limit \/ limit = RpcMax
  BY <1>1 DEF SingleTimeout, Lesser
<1> HIDE DEF limit
<1>5. c \in CallType /\ c.op = op /\ c.left = timeout /\ c.limit = limit
  <2>1. timeout \in Int
    BY <1>1
  <2>2. c \in CallType
    BY <1>2, <2>1, NoCallType, BegunType, Zenon
  <2>3. c.op = op /\ c.left = timeout /\ c.limit = limit
    BY DEF NoCall
  <2> QED  BY <2>2, <2>3
<1> HIDE DEF c
<1> QED  BY <1>3, <1>4, <1>5, GoOnLinked

LEMMA RejectLinked == ASSUME Linked, NEW t \in Threads, Reject(t), Inv' PROVE Linked'
<1>1. UNCHANGED <<inbox, outbox, counter>>
  BY DEF Reject, wire
<1>2. CASE Expired(call[t].left)
  BY <1>1, <1>2, EndLinked DEF Reject
<1>3. CASE ~Expired(call[t].left)
  <2> DEFINE limit == SingleTimeout(call[t].left)
             c == [call[t] EXCEPT !.limit = limit, !.resp = None]
  <2>1. call[t] \in CallType
    BY LinkedTypes
  <2>2. call[t].left \in Int /\ call[t].left >= 0 /\ RpcMax \in Nat
    BY <1>3, <2>1, LinkedTypes DEF Expired, CallType
  <2>3. limit \in 0..RpcMax /\ (call[t].left <= limit \/ limit = RpcMax)
    BY <2>2 DEF SingleTimeout, Lesser
  <2>4. pc' = [pc EXCEPT ![t] = "lock"] /\ call' = [call EXCEPT ![t] = c]
    BY <1>3, LinkedTypes DEF Reject
  <2> HIDE DEF limit
  <2>5. c \in CallType /\ (c.left <= c.limit \/ c.limit = RpcMax)
    BY <2>1, <2>3 DEF CallType
  <2> HIDE DEF c
  <2> QED  BY <1>1, <2>4, <2>5, GoOnLinked
<1> QED  BY <1>2, <1>3

LEMMA SendRequestLinked ==
  ASSUME Linked, NEW t \in Threads, SendRequest(t), Inv' PROVE Linked'
<1> DEFINE req == [id |-> counter, by |-> t, op |-> call[t].op, limit |-> call[t].limit]
<1>1. /\ pc'[t] = "read" /\ call'[t] = [call[t] EXCEPT !.id = counter]
      /\ counter' = counter + 1 /\ outbox' = outbox
      /\ inbox' = IF closed THEN inbox ELSE Append(inbox, req)
      /\ \A u \in Threads : u # t => pc'[u] = pc[u] /\ call'[u] = call[u]
  BY LinkedTypes DEF SendRequest
<1>2. /\ call[t] \in CallType /\ counter \in Nat /\ RpcMax \in Nat
      /\ call'[t].id = counter /\ call'[t].op = call[t].op
      /\ call'[t].left = call[t].left /\ call'[t].limit = call[t].limit
  BY <1>1, LinkedTypes DEF CallType
<1>3. /\ req.id = counter /\ req.by = t /\ req.op = call[t].op
      /\ req.limit = call[t].limit
  OBVIOUS
<1> HIDE DEF req
(* Nobody else reads. *)
<1>4. \A u \in Threads : pc'[u] = "read" => u = t
  BY <1>1, LinkedTypes DEF Linked, Inv, Holds, SendRequest, LockFree
<1>5. \A i \in DOMAIN inbox' :
        \/ i \in DOMAIN inbox /\ i < Len(inbox) + 1 /\ inbox'[i] = inbox[i]
        \/ ~closed /\ i = Len(inbox) + 1 /\ inbox'[i] = req
  <2>1. CASE closed
    BY <1>1, <2>1, LinkedTypes
  <2>2. CASE ~closed
    BY <1>1, <2>2, LinkedTypes, AppendAt
  <2> QED  BY <2>1, <2>2
<1>6. Len(inbox) \in Nat /\ DOMAIN inbox = 1..Len(inbox)
  BY LinkedTypes
<1>7. Numbered'
  <2>1. \A i \in DOMAIN inbox' : inbox'[i].id < counter'
    BY <1>1, <1>2, <1>3, <1>5, IdTypes DEF Linked, Numbered
  <2>2. \A i \in DOMAIN outbox' : outbox'[i].id < counter'
    BY <1>1, <1>2, IdTypes DEF Linked, Numbered
  <2>3. \A i, j \in DOMAIN inbox' : i < j => inbox'[i].id < inbox'[j].id
    BY <1>3, <1>5, <1>6 DEF Linked, Numbered
  <2>4. \A i \in DOMAIN outbox', j \in DOMAIN inbox' : outbox'[i].id < inbox'[j].id
    BY <1>1, <1>3, <1>5 DEF Linked, Numbered
  <2> QED  BY <1>1, <2>1, <2>2, <2>3, <2>4 DEF Linked, Numbered
<1>8. /\ \A i \in DOMAIN inbox' : inbox'[i].id = counter => inbox'[i] = req
      /\ \A i \in DOMAIN outbox' : outbox'[i].id # counter
  BY <1>1, <1>2, <1>5, IdTypes DEF Linked, Numbered
<1>9. Addressed'
  <2>1. /\ call'[t].id < counter'
        /\ \A i \in DOMAIN inbox' : inbox'[i].id = call'[t].id =>
             inbox'[i].by = t /\ inbox'[i].op = call'[t].op
        /\ \A i \in DOMAIN outbox' : outbox'[i].id = call'[t].id => outbox'[i].by = t
    BY <1>1, <1>2, <1>3, <1>8
  <2> QED  BY <1>4, <2>1 DEF Addressed
<1>10. EmptyHanded'
  BY <1>1 DEF Linked, EmptyHanded
<1>11. InTime'
  <2> SUFFICES ASSUME NEW u \in Threads, Waiting(u)'
               PROVE  InTime!(u)!2'
    BY DEF InTime
  <2>1. CASE u = t
    BY <1>1, <1>2, <1>3, <1>8, <2>1 DEF Linked, InTime, Waiting, SendRequest
  <2>2. CASE u # t
    BY <1>1, <1>4, <2>2 DEF Linked, InTime, Waiting, Spent
  <2> QED  BY <2>1, <2>2
<1> QED  BY <1>7, <1>9, <1>10, <1>11 DEF Linked

(* The response in front was read. *)
LEMMA ReadLinked ==
  ASSUME Linked, NEW t \in Threads, pc[t] = "read", pc'[t] # "read", outbox # <<>>,
         outbox' = Tail(outbox), UNCHANGED <<inbox, counter>>,
         \A u \in Threads : u # t => pc'[u] = pc[u] /\ call'[u] = call[u],
         pc'[t] = "check" => /\ call'[t].resp.kind # "events" => call'[t].resp.events = <<>>
                             /\ Waiting(t)' => /\ \/ call'[t].left <= call'[t].limit
                                                   \/ call'[t].limit = RpcMax
                                               /\ call'[t].resp.kind = "timeout" => Spent(call'[t]),
         pc'[t] \in {"check", "idle"}, Inv'
  PROVE  Linked'
<1>1. \A i \in DOMAIN outbox' : /\ i \in Int /\ i + 1 \in DOMAIN outbox
                                /\ outbox'[i] = outbox[i + 1]
  BY LinkedTypes, TailAt
<1>2. Numbered'
  BY <1>1, IdTypes DEF Linked, Numbered
<1>3. \A u \in Threads : pc'[u] # "read"
  BY LinkedTypes DEF Linked, Inv, Holds
<1>4. Addressed'
  BY <1>3 DEF Addressed
<1>5. EmptyHanded'
  BY <1>1 DEF Linked, EmptyHanded
<1>6. InTime'
  <2> SUFFICES ASSUME NEW u \in Threads, Waiting(u)'
               PROVE  InTime!(u)!2'
    BY DEF InTime
  <2>1. CASE u = t
    BY <1>3, <2>1 DEF Waiting
  <2>2. CASE u # t
    BY <1>3, <2>2 DEF Linked, InTime, Waiting, Spent
  <2> QED  BY <2>1, <2>2
<1> QED  BY <1>2, <1>4, <1>5, <1>6 DEF Linked

LEMMA ReceiveLinked == ASSUME Linked, NEW t \in Threads, Receive(t), Inv' PROVE Linked'
<1>1. /\ pc[t] = "read" /\ outbox # <<>> /\ outbox' = Tail(outbox)
      /\ UNCHANGED <<inbox, counter>>
  BY DEF Receive
<1>2. 1 \in DOMAIN outbox /\ Head(outbox) = outbox[1]
  BY <1>1, LinkedTypes, HeadAt
<1>3. CASE IdMatches(t, Head(outbox))
  <2>1. /\ call' = [call EXCEPT ![t].resp = Head(outbox)]
        /\ pc' = [pc EXCEPT ![t] = "check"]
    BY <1>3 DEF Receive
  <2>2. /\ call'[t] = [call[t] EXCEPT !.resp = Head(outbox)] /\ pc'[t] = "check"
        /\ \A u \in Threads : u # t => pc'[u] = pc[u] /\ call'[u] = call[u]
    BY <2>1, LinkedTypes
  <2>3. /\ call'[t].resp = outbox[1] /\ call'[t].op = call[t].op
        /\ call'[t].left = call[t].left /\ call'[t].limit = call[t].limit
        /\ outbox[1].id = call[t].id
    BY <1>2, <1>3, <2>2, LinkedTypes DEF CallType, IdMatches
  <2>4. call'[t].resp.kind # "events" => call'[t].resp.events = <<>>
    BY <1>2, <2>3 DEF Linked, EmptyHanded
  <2>5. Waiting(t)' => /\ call'[t].left <= call'[t].limit \/ call'[t].limit = RpcMax
                       /\ call'[t].resp.kind = "timeout" => Spent(call'[t])
    BY <1>1, <1>2, <2>3 DEF Linked, InTime, Waiting, Spent
  <2> QED  BY <1>1, <2>2, <2>4, <2>5, ReadLinked
<1>4. CASE ~IdMatches(t, Head(outbox))
  <2>1. End(t, "error")
    BY <1>4 DEF Receive
  <2>2. /\ pc'[t] = "idle"
        /\ \A u \in Threads : u # t => pc'[u] = pc[u] /\ call'[u] = call[u]
    BY <2>1, EndType DEF Linked, Inv
  <2> QED  BY <1>1, <2>2, ReadLinked
<1> QED  BY <1>3, <1>4

(* The first request was answered. *)
LEMMA ServeLinked ==
  ASSUME Linked, Serving, NEW kind \in {"events", "timeout", "api"},
         NEW evs \in Seq(1..MaxEvents),
         Respond(kind, evs), kind # "events" => evs = <<>>, kind = "timeout" => ServeTimeout,
         UNCHANGED <<pc, call, counter>>, Inv'
  PROVE  Linked'
<1> DEFINE req == Head(inbox)
           resp == [id |-> req.id, by |-> req.by, kind |-> kind, events |-> evs]
<1>1. /\ inbox # <<>> /\ 1 \in DOMAIN inbox /\ req = inbox[1] /\ req \in Request
      /\ \A i \in DOMAIN inbox : i # 1 => 1 < i
  BY LinkedTypes, HeadAt DEF Serving
<1>2. inbox' = Tail(inbox) /\ outbox' = Append(outbox, resp)
  BY DEF Respond
<1>3. \A i \in DOMAIN inbox' : /\ i \in Int /\ 1 < i + 1 /\ i + 1 \in DOMAIN inbox
                               /\ inbox'[i] = inbox[i + 1]
  <2>1. \A i \in DOMAIN inbox' : /\ i \in Int /\ i + 1 \in DOMAIN inbox
                                 /\ inbox'[i] = inbox[i + 1]
    BY <1>1, <1>2, LinkedTypes, TailAt
  <2>2. DOMAIN inbox' \subseteq 1..Len(Tail(inbox))
    BY <1>1, <1>2, LinkedTypes
  <2> QED  BY <2>1, <2>2
<1>4. \A i \in DOMAIN outbox' :
        /\ i \in Int
        /\ \/ i \in DOMAIN outbox /\ i < Len(outbox) + 1 /\ outbox'[i] = outbox[i]
           \/ i = Len(outbox) + 1 /\ outbox'[i] = resp
  BY <1>2, LinkedTypes, AppendAt
<1>5. /\ resp.id = inbox[1].id /\ resp.by = inbox[1].by /\ resp.kind = kind
      /\ resp.events = evs
  BY <1>1
<1>6. Len(outbox) \in Nat /\ RpcMax \in Nat
  BY LinkedTypes
<1> HIDE DEF resp
<1>7. Numbered'
  <2>1. \A i \in DOMAIN inbox' : inbox'[i].id < counter' /\ inbox[1].id < inbox'[i].id
    BY <1>1, <1>3, IdTypes DEF Linked, Numbered
  <2>2. \A i \in DOMAIN outbox' : outbox'[i].id < counter'
    BY <1>1, <1>4, <1>5, IdTypes DEF Linked, Numbered
  <2>3. \A i, j \in DOMAIN inbox' : i < j => inbox'[i].id < inbox'[j].id
    BY <1>3, IdTypes DEF Linked, Numbered
  <2>4. \A i, j \in DOMAIN outbox' : i < j => outbox'[i].id < outbox'[j].id
    BY <1>1, <1>4, <1>5, <1>6, IdTypes DEF Linked, Numbered
  <2>5. \A i \in DOMAIN outbox', j \in DOMAIN inbox' : outbox'[i].id < inbox'[j].id
    <3> TAKE i \in DOMAIN outbox', j \in DOMAIN inbox'
    <3>1. CASE i \in DOMAIN outbox /\ outbox'[i] = outbox[i]
      BY <1>3, <3>1 DEF Linked, Numbered
    <3>2. CASE outbox'[i] = resp
      BY <1>5, <2>1, <3>2
    <3> QED  BY <1>4, <3>1, <3>2
  <2> QED  BY <2>1, <2>2, <2>3, <2>4, <2>5 DEF Numbered
<1>8. Addressed'
  BY <1>1, <1>3, <1>4, <1>5 DEF Linked, Addressed
<1>9. EmptyHanded'
  BY <1>4, <1>5 DEF Linked, EmptyHanded
<1>10. InTime'
  <2> SUFFICES ASSUME NEW u \in Threads, Waiting(u)'
               PROVE  InTime!(u)!2'
    BY DEF InTime
  <2>1. Waiting(u) /\ call[u] \in CallType
    BY LinkedTypes DEF Waiting
  <2>2. pc[u] = "read" /\ kind = "timeout" /\ inbox[1].id = call[u].id => Spent(call[u])
    <3>1. kind = "timeout" => inbox[1].limit = 0
      BY <1>1 DEF ServeTimeout
    <3> QED  BY <1>1, <2>1, <3>1 DEF Linked, InTime, Spent
  <2>3. pc'[u] = "read" => \A i \in DOMAIN inbox' : inbox'[i].id = call'[u].id =>
              call'[u].left <= inbox'[i].limit \/ call'[u].limit = RpcMax
    BY <1>3, <2>1 DEF Linked, InTime
  <2>4. pc'[u] = "read" =>
          \A i \in DOMAIN outbox' : outbox'[i].id = call'[u].id /\ outbox'[i].kind = "timeout" =>
              Spent(call'[u])
    BY <1>4, <1>5, <2>1, <2>2 DEF Linked, InTime, Spent
  <2> QED  BY <2>1, <2>3, <2>4 DEF Linked, InTime, Spent
<1> QED  BY <1>7, <1>8, <1>9, <1>10 DEF Linked

LEMMA ServesLinked ==
  ASSUME Linked, ServeAll \/ ServeEvent \/ ServeTimeout \/ ServeError, Inv' PROVE Linked'
<1>1. queue \in Seq(1..MaxEvents) /\ <<>> \in Seq(1..MaxEvents)
  BY LinkedTypes
<1>2. CASE ServeAll
  BY <1>1, <1>2, ServeLinked DEF ServeAll, threadVars
<1>3. CASE ServeEvent
  <2>1. queue # <<>>
    BY <1>3 DEF ServeEvent
  <2>2. Head(queue) \in 1..MaxEvents
    BY <1>1, <2>1, RestOf, Zenon
  <2>3. <<Head(queue)>> \in Seq(1..MaxEvents)
    BY <2>2
  <2> QED  BY <1>3, <2>3, ServeLinked DEF ServeEvent, threadVars
<1>4. CASE ServeTimeout
  BY <1>1, <1>4, ServeLinked DEF ServeTimeout, threadVars
<1>5. CASE ServeError
  BY <1>1, <1>5, ServeLinked DEF ServeError, threadVars
<1> QED  BY <1>2, <1>3, <1>4, <1>5

(* Time passes: the time left to a call shrinks as fast as what is left of the *)
(* timeout of the request that is being served, and stops at one unit below.  *)
LEMMA TickLinked == ASSUME Linked, Tick, Inv' PROVE Linked'
<1>1. UNCHANGED <<pc, counter, outbox>>
  BY DEF Tick
<1>2. \A t \in Threads :
        /\ call'[t].id = call[t].id /\ call'[t].resp = call[t].resp
        /\ call'[t].op = call[t].op /\ call'[t].limit = call[t].limit
        /\ call[t].left \in Int /\ call[t].limit \in Int
        /\ Waiting(t) => call'[t].left = CountDown(call[t].left, -1)
  <2> SUFFICES ASSUME NEW t \in Threads PROVE <1>2!(t)
    OBVIOUS
  <2> DEFINE left == CountDown(call[t].left, -1)
  <2>1. call[t] \in CallType
    BY LinkedTypes
  <2>2. call'[t] = IF Waiting(t) THEN [call[t] EXCEPT !.left = left] ELSE call[t]
    BY DEF Tick
  <2> HIDE DEF left
  <2>3. /\ call'[t].id = call[t].id /\ call'[t].resp = call[t].resp
        /\ call'[t].op = call[t].op /\ call'[t].limit = call[t].limit
        /\ Waiting(t) => call'[t].left = left
    BY <2>1, <2>2 DEF CallType
  <2> QED  BY <2>1, <2>3 DEF CallType, left
<1>3. /\ DOMAIN inbox' = DOMAIN inbox
      /\ \A i \in DOMAIN inbox :
           /\ inbox'[i].id = inbox[i].id /\ inbox'[i].by = inbox[i].by
           /\ inbox'[i].op = inbox[i].op
           /\ inbox[i].limit \in Nat
           /\ inbox'[i].limit = IF i = 1 THEN CountDown(inbox[1].limit, 0) ELSE inbox[i].limit
  <2>1. CASE inbox = <<>>
    BY <2>1, LinkedTypes DEF Tick
  <2>2. CASE inbox # <<>>
    <3> DEFINE limit == CountDown(inbox[1].limit, 0)
    <3>1. inbox' = [inbox EXCEPT ![1] = [inbox[1] EXCEPT !.limit = limit]]
      BY <2>2, LinkedTypes, HeadAt DEF Tick
    <3> HIDE DEF limit
    <3>2. 1 \in DOMAIN inbox
      BY <2>2, LinkedTypes, HeadAt
    <3>3. DOMAIN inbox' = DOMAIN inbox
      BY <3>1, LinkedTypes
    <3>4. ASSUME NEW i \in DOMAIN inbox PROVE <1>3!2!(i)
      <4>1. inbox[i] \in Request /\ inbox[i].limit \in Nat
        BY IdTypes, RpcAssumption DEF Request
      <4>2. inbox'[i] = IF i = 1 THEN [inbox[1] EXCEPT !.limit = limit] ELSE inbox[i]
        BY <3>1, LinkedTypes
      <4>3. inbox'[i].limit = IF i = 1 THEN limit ELSE inbox[i].limit
        BY <4>1, <4>2 DEF Request
      <4>4. /\ inbox'[i].id = inbox[i].id /\ inbox'[i].by = inbox[i].by
            /\ inbox'[i].op = inbox[i].op
        BY <4>1, <4>2 DEF Request
      <4> QED  BY <4>1, <4>3, <4>4 DEF limit
    <3> QED  BY <3>3, <3>4
  <2> QED  BY <2>1, <2>2
<1>4. Numbered' /\ Addressed' /\ EmptyHanded'
  <2>1. Numbered'
    BY <1>1, <1>3 DEF Linked, Numbered
  <2>2. Addressed'
    BY <1>1, <1>2, <1>3 DEF Linked, Addressed
  <2>3. EmptyHanded'
    BY <1>1, <1>2 DEF Linked, EmptyHanded
  <2> QED  BY <2>1, <2>2, <2>3
<1>5. InTime'
  <2> SUFFICES ASSUME NEW t \in Threads, Waiting(t)'
               PROVE  InTime!(t)!2'
    BY DEF InTime
  <2>1. /\ Waiting(t) /\ RpcMax \in Nat
        /\ call'[t].left \in Int /\ call'[t].left <= call[t].left
        /\ call'[t].left = CountDown(call[t].left, -1)
    BY <1>1, <1>2, LinkedTypes DEF Waiting, CountDown
  <2>2. Spent(call[t]) => Spent(call'[t])
    BY <1>2, <2>1 DEF Spent
  <2>3. call'[t].left <= call'[t].limit \/ call'[t].limit = RpcMax
    BY <1>2, <2>1 DEF Linked, InTime
  <2>4. ASSUME pc[t] = "read", NEW i \in DOMAIN inbox, inbox[i].id = call[t].id
        PROVE  call'[t].left <= inbox'[i].limit \/ call'[t].limit = RpcMax
    <3>1. call[t].left <= inbox[i].limit \/ call[t].limit = RpcMax
      BY <2>1, <2>4 DEF Linked, InTime
    <3>2. call[t].left <= inbox[i].limit => call'[t].left <= inbox'[i].limit
      BY <1>2, <1>3, <2>1 DEF CountDown
    <3> QED  BY <1>2, <3>1, <3>2
  <2>5. pc[t] = "read" =>
          \A i \in DOMAIN outbox : outbox[i].id = call[t].id /\ outbox[i].kind = "timeout" =>
              Spent(call'[t])
    BY <2>1, <2>2 DEF Linked, InTime
  <2>6. pc[t] = "check" /\ call[t].resp.kind = "timeout" => Spent(call'[t])
    BY <2>1, <2>2 DEF Linked, InTime
  <2> QED  BY <1>1, <1>2, <1>3, <2>3, <2>4, <2>5, <2>6
<1> QED  BY <1>4, <1>5 DEF Linked

LEMMA NextLinked == Linked /\ [Next]_vars => Linked'
<1> SUFFICES ASSUME Linked, [Next]_vars PROVE Linked'
  OBVIOUS
<1>0. Inv'
  BY NextInv DEF Linked
<1>1. ASSUME NEW t \in Threads, NEW op \in Ops, NEW timeout \in Timeouts,
             Begin(t, op, timeout)
      PROVE  Linked'
  BY <1>0, <1>1, BeginLinked
<1>2. ASSUME NEW t \in Threads, ThreadStep(t) PROVE Linked'
  <2>1. CASE SendRequest(t)
    BY <1>0, <2>1, SendRequestLinked
  <2>2. CASE Receive(t)
    BY <1>0, <2>2, ReceiveLinked
  <2>3. CASE Reject(t)
    BY <1>0, <2>3, RejectLinked
  <2>4. CASE SendFails(t)
    BY <1>0, <2>4, EndLinked DEF SendFails, wire
  <2>5. CASE ReceiveTimesOut(t)
    BY <1>0, <2>5, EndLinked DEF ReceiveTimesOut
  <2>6. CASE ReceiveFails(t)
    BY <1>0, <2>6, EndLinked DEF ReceiveFails, wire
  <2>7. CASE Return(t) \/ TimeOut(t) \/ RaiseApiError(t) \/ Accept(t)
    BY <1>0, <2>7, EndLinked DEF Return, TimeOut, RaiseApiError, Accept, wire
  <2> QED  BY <1>2, <2>1, <2>2, <2>3, <2>4, <2>5, <2>6, <2>7 DEF ThreadStep
<1>3. CASE ServeAll \/ ServeEvent \/ ServeTimeout \/ ServeError
  BY <1>0, <1>3, ServesLinked
<1>4. CASE Tick
  BY <1>0, <1>4, TickLinked
<1>5. CASE Occur \/ Close \/ UNCHANGED vars
  BY <1>0, <1>5, SameLinked DEF Occur, Close, vars, threadVars, wire
<1> QED  BY <1>1, <1>2, <1>3, <1>4, <1>5 DEF Next

(* waitForEvent, however long the calls of other threads keep it waiting for  *)
(* the lock: a timeout is reported when the time asked for has passed, or by  *)
(* an RPC that was given the maximum.                                        *)
THEOREM WaitsItsTime == Spec => TimeoutKept
<1>1. ASSUME Linked, [Next]_vars, NEW t \in Threads, result[t] = "none",
             result'[t] = "timeout", Waiting(t)
      PROVE  Spent(call[t])
  <2>1. result \in [Threads -> {"none", "events", "timeout", "api", "error"}]
    BY <1>1 DEF Linked, Inv, TypeOK
  <2>2. ASSUME NEW u \in Threads, NEW how \in {"events", "timeout", "api", "error"}, End(u, how)
        PROVE  u = t /\ how = "timeout"
    BY <1>1, <2>1, <2>2 DEF End
  <2>3. result' # result
    BY <1>1
  <2>4. \/ \E u \in Threads : ThreadStep(u)
        \/ \E u \in Threads : result' = [result EXCEPT ![u] = "none"]
    BY <1>1, <2>3 DEF Next, Begin, Occur, ServeAll, ServeEvent, ServeTimeout, ServeError,
                      Close, Tick, vars, threadVars
  <2>5. PICK u \in Threads : ThreadStep(u)
    BY <1>1, <2>1, <2>4
  <2>6. TimeOut(t) \/ (Reject(t) /\ Expired(call[t].left))
    BY <2>2, <2>3, <2>5 DEF ThreadStep, SendRequest, SendFails, Receive, ReceiveTimesOut,
                            ReceiveFails, Return, TimeOut, RaiseApiError, Accept, Reject
  <2>7. CASE TimeOut(t)
    BY <1>1, <2>7 DEF TimeOut, Answered, Linked, InTime
  <2>8. CASE Expired(call[t].left)
    <3>1. call[t].left \in Int
      BY <1>1, LinkedTypes DEF CallType
    <3> QED  BY <2>8, <3>1 DEF Expired, Spent
  <2> QED  BY <2>6, <2>7, <2>8
<1>2. Linked /\ [Next]_vars =>
        [\A t \in Threads :
           result[t] = "none" /\ result'[t] = "timeout" /\ Waiting(t) =>
             call[t].left <= 0 \/ call[t].limit = RpcMax]_vars
  BY <1>1 DEF Spent
<1> QED  BY <1>2, InitLinked, NextLinked, PTL DEF Spec, TimeoutKept

-----------------------------------------------------------------------------
(* The calls implement the queue of events: what each step does to the        *)
(* abstract variables.                                                       *)

Waits == {t \in Threads : pc[t] # "idle"}

Taken == [t \in Threads |-> InTransit(t)]

(* What InTransit is: the ids of the responses differ, so that it does not    *)
(* matter which of the thread's it chooses.                                  *)
TransitIs ==
  \A t \in Threads :
    /\ pc[t] = "read" =>
         /\ \A i \in DOMAIN outbox : outbox[i].id = call[t].id => InTransit(t) = outbox[i].events
         /\ (\A i \in DOMAIN outbox : outbox[i].id # call[t].id) => InTransit(t) = <<>>
    /\ pc[t] = "check" => InTransit(t) = call[t].resp.events
    /\ pc[t] \in {"idle", "lock"} => InTransit(t) = <<>>

LEMMA Transits == Linked => TransitIs
<1> SUFFICES ASSUME Linked, NEW t \in Threads PROVE TransitIs!(t)
  BY DEF TransitIs
<1> DEFINE mine == {i \in DOMAIN outbox : outbox[i].by = t /\ outbox[i].id = call[t].id}
<1>1. pc[t] = "read" =>
        InTransit(t) = IF mine = {} THEN <<>> ELSE outbox[CHOOSE i \in mine : TRUE].events
  BY DEF InTransit
<1>2. ASSUME pc[t] = "read", NEW i \in DOMAIN outbox, outbox[i].id = call[t].id
      PROVE  InTransit(t) = outbox[i].events
  <2>1. i \in mine
    BY <1>2 DEF Linked, Addressed
  <2>2. ASSUME NEW j \in mine PROVE j = i
    <3>1. j \in DOMAIN outbox /\ outbox[j].id = outbox[i].id /\ i \in Nat /\ j \in Nat
      BY <1>2, <2>2, LinkedTypes, ElementsAre
    <3>2. outbox[i].id \in Nat /\ ~(i < j) /\ ~(j < i)
      BY <3>1, IdTypes DEF Linked, Numbered
    <3> QED  BY <3>1, <3>2
  <2>3. mine # {} /\ (CHOOSE j \in mine : TRUE) = i
    BY <2>1, <2>2
  <2> QED  BY <1>1, <1>2, <2>3
<1>3. pc[t] = "read" /\ (\A i \in DOMAIN outbox : outbox[i].id # call[t].id) =>
        InTransit(t) = <<>>
  <2>1. (\A i \in DOMAIN outbox : outbox[i].id # call[t].id) => mine = {}
    OBVIOUS
  <2> QED  BY <1>1, <2>1
<1>4. /\ pc[t] = "check" => InTransit(t) = call[t].resp.events
      /\ pc[t] \in {"idle", "lock"} => InTransit(t) = <<>>
  BY DEF InTransit
<1> QED  BY <1>2, <1>3, <1>4

LEMMA TransitsNext == Linked' => TransitIs'
BY Transits, PTL

(* What is on its way to a thread is not changed by the steps of others. *)
LEMMA TransitKept ==
  ASSUME Linked, Linked', NEW u \in Threads, pc'[u] = pc[u],
         call'[u].id = call[u].id, call'[u].resp = call[u].resp,
         pc[u] = "read" => outbox' = outbox
  PROVE  InTransit(u)' = InTransit(u)
<1>1. TransitIs /\ TransitIs' /\ pc[u] \in {"idle", "lock", "read", "check"}
  BY Transits, TransitsNext, LinkedTypes
<1>2. CASE pc[u] = "read"
  <2>1. CASE \E i \in DOMAIN outbox : outbox[i].id = call[u].id
    BY <1>1, <1>2, <2>1 DEF TransitIs
  <2>2. CASE \A i \in DOMAIN outbox : outbox[i].id # call[u].id
    BY <1>1, <1>2, <2>2 DEF TransitIs
  <2> QED  BY <2>1, <2>2
<1>3. CASE pc[u] \in {"idle", "lock"}
  BY <1>1, <1>3 DEF TransitIs
<1>4. CASE pc[u] = "check"
  BY <1>1, <1>4 DEF TransitIs
<1> QED  BY <1>1, <1>2, <1>3, <1>4

(* The abstract steps, in terms of Waits and Taken. *)

LEMMA MapsToCall ==
  ASSUME NEW t \in Threads, t \notin Waits, Waits' = Waits \cup {t}, Taken' = Taken,
         UNCHANGED <<occurred, queue, seen, timedOut, closed>>
  PROVE  Abstract!Next
<1>1. Abstract!Call(t)
  BY DEF Abstract!Call, Waits, Taken, Faulty
<1> QED  BY <1>1 DEF Abstract!Next

LEMMA MapsToHand ==
  ASSUME NEW t \in Threads, t \in Waits, Waits' \in {Waits, Waits \ {t}},
         seen' = seen \cup ToSet(InTransit(t)), Taken' = [Taken EXCEPT ![t] = <<>>],
         UNCHANGED <<occurred, queue, timedOut, closed>>
  PROVE  Abstract!Next
<1>1. Abstract!Hand(t)
  BY DEF Abstract!Hand, Abstract!ToSet, ToSet, Waits, Taken, Faulty
<1> QED  BY <1>1 DEF Abstract!Next

LEMMA MapsToFail ==
  ASSUME NEW t \in Threads, t \in Waits, Waits' = Waits \ {t},
         Taken' = [Taken EXCEPT ![t] = <<>>], Faulty' = TRUE,
         UNCHANGED <<occurred, queue, seen>>
  PROVE  Abstract!Next
<1>1. Abstract!Fail(t)
  BY DEF Abstract!Fail, Waits, Taken
<1> QED  BY <1>1 DEF Abstract!Next

LEMMA MapsToStutter ==
  ASSUME Waits' = Waits, Taken' = Taken,
         UNCHANGED <<occurred, queue, seen, timedOut, closed>>
  PROVE  UNCHANGED Abstract!vars
BY DEF Abstract!vars, Waits, Taken, Faulty

LEMMA MapsToTake ==
  ASSUME NEW t \in Threads, t \in Waits, InTransit(t) = <<>>, queue # <<>>,
         \/ Taken' = [Taken EXCEPT ![t] = <<Head(queue)>>] /\ queue' = Tail(queue)
         \/ Taken' = [Taken EXCEPT ![t] = queue] /\ queue' = <<>>,
         Waits' = Waits, UNCHANGED <<occurred, seen, timedOut, closed>>
  PROVE  Abstract!Next
<1>1. Abstract!Take(t)
  BY DEF Abstract!Take, Waits, Taken, Faulty
<1> QED  BY <1>1 DEF Abstract!Next

LEMMA MapsToLose ==
  ASSUME Faulty = TRUE, queue # <<>>, queue' \in {Tail(queue), <<>>},
         Waits' = Waits, Taken' = Taken, UNCHANGED <<occurred, seen, timedOut, closed>>
  PROVE  Abstract!Next
<1>1. Abstract!Lose
  BY DEF Abstract!Lose, Waits, Taken, Faulty
<1> QED  BY <1>1 DEF Abstract!Next

LEMMA InitMaps == Init => Abstract!Init
<1> SUFFICES ASSUME Init PROVE Abstract!Init
  OBVIOUS
<1>1. \A t \in Threads : pc[t] = "idle"
  BY DEF Init
<1>2. \A t \in Threads : InTransit(t) = <<>>
  BY <1>1, InitLinked, Transits DEF TransitIs
<1>3. [t \in Threads |-> InTransit(t)] = [t \in Threads |-> <<>>]
  BY <1>2
<1>4. {t \in Threads : pc[t] # "idle"} = {}
  BY <1>1
<1>5. Faulty = FALSE
  BY DEF Init, Faulty
<1> QED  BY <1>3, <1>4, <1>5 DEF Init, Abstract!Init

(* A call that ends, or goes for the lock again, hands over what it was given *)
(* or was given nothing.                                                     *)
LEMMA LeavesMaps ==
  ASSUME Linked, Linked', NEW t \in Threads, pc[t] # "idle", pc'[t] \in {"idle", "lock"},
         \A u \in Threads : u # t => pc'[u] = pc[u] /\ call'[u] = call[u],
         outbox' = outbox \/ \A u \in Threads : u # t => pc[u] # "read"
  PROVE  /\ t \in Waits /\ Taken' = [Taken EXCEPT ![t] = <<>>]
         /\ pc'[t] = "idle" => Waits' = Waits \ {t}
         /\ pc'[t] = "lock" => Waits' = Waits
<1>1. InTransit(t)' = <<>>
  BY TransitsNext DEF TransitIs
<1>2. \A u \in Threads : u # t => InTransit(u)' = InTransit(u)
  BY TransitKept
<1>3. Taken' = [Taken EXCEPT ![t] = <<>>]
  BY <1>1, <1>2 DEF Taken
<1> QED  BY <1>3 DEF Waits

(* A step of a call that leaves it in the call, and what was taken for it      *)
(* where it is.                                                              *)
LEMMA StaysMaps ==
  ASSUME Linked, Linked', NEW t \in Threads, pc[t] # "idle", pc'[t] # "idle",
         InTransit(t)' = InTransit(t),
         \A u \in Threads : u # t => pc'[u] = pc[u] /\ call'[u] = call[u],
         outbox' = outbox \/ \A u \in Threads : u # t => pc[u] # "read"
  PROVE  Waits' = Waits /\ Taken' = Taken
<1>1. \A u \in Threads : u # t => InTransit(u)' = InTransit(u)
  BY TransitKept
<1>2. \A u \in Threads : InTransit(u)' = InTransit(u)
  BY <1>1
<1> QED  BY <1>2 DEF Taken, Waits

LEMMA BeginMaps ==
  ASSUME Linked, Linked', NEW t \in Threads, NEW op \in Ops, NEW timeout \in Timeouts,
         Begin(t, op, timeout)
  PROVE  Abstract!Next
<1>1. /\ pc[t] = "idle" /\ pc'[t] = "lock"
      /\ \A u \in Threads : u # t => pc'[u] = pc[u] /\ call'[u] = call[u]
      /\ UNCHANGED <<outbox, occurred, queue, seen, timedOut, closed>>
  BY LinkedTypes DEF Begin, wire, events
<1>2. InTransit(t) = <<>> /\ InTransit(t)' = <<>>
  BY <1>1, Transits, TransitsNext DEF TransitIs
<1>3. \A u \in Threads : u # t => InTransit(u)' = InTransit(u)
  BY <1>1, TransitKept
<1>4. \A u \in Threads : InTransit(u)' = InTransit(u)
  BY <1>2, <1>3
<1>5. Taken' = Taken
  BY <1>4 DEF Taken
<1>6. t \notin Waits /\ Waits' = Waits \cup {t}
  BY <1>1 DEF Waits
<1> QED  BY <1>1, <1>5, <1>6, MapsToCall

(* The calls that fail, and those that read a response of another call. *)
LEMMA FailsMaps ==
  ASSUME Linked, Linked', NEW t \in Threads,
         SendFails(t) \/ ReceiveTimesOut(t) \/ ReceiveFails(t)
           \/ (Receive(t) /\ ~IdMatches(t, Head(outbox)))
  PROVE  Abstract!Next
<1>1. End(t, "error") /\ UNCHANGED <<occurred, queue, seen, closed>>
  BY DEF SendFails, ReceiveTimesOut, ReceiveFails, Receive, wire, events
<1>2. pc[t] # "idle" /\ (outbox' = outbox \/ pc[t] = "read")
  BY DEF SendFails, ReceiveTimesOut, ReceiveFails, Receive, wire
<1>3. /\ pc'[t] = "idle" /\ result'[t] = "error"
      /\ \A u \in Threads : u # t => pc'[u] = pc[u] /\ call'[u] = call[u]
  BY <1>1, EndType DEF Linked, Inv
<1>4. outbox' = outbox \/ \A u \in Threads : u # t => pc[u] # "read"
  BY <1>2, LinkedTypes DEF Linked, Inv, Holds
<1>5. /\ t \in Waits /\ Taken' = [Taken EXCEPT ![t] = <<>>]
      /\ Waits' = Waits \ {t}
  BY <1>2, <1>3, <1>4, LeavesMaps
<1>6. Faulty' = TRUE
  BY <1>3 DEF Linked, Inv, FailsByFaultOnly, Faulty
<1> QED  BY <1>1, <1>5, <1>6, MapsToFail

(* What was returned, raised on or tested is handed over. *)
LEMMA AnsweredMaps ==
  ASSUME Linked, Linked', NEW t \in Threads,
         Return(t) \/ TimeOut(t) \/ RaiseApiError(t) \/ Accept(t) \/ Reject(t)
  PROVE  Abstract!Next
<1>1. /\ pc[t] = "check"
      /\ UNCHANGED <<outbox, occurred, queue, timedOut, closed>>
  BY DEF Return, TimeOut, RaiseApiError, Accept, Reject, Answered, wire, events
<1>2. InTransit(t) = call[t].resp.events
  BY <1>1, Transits DEF TransitIs
<1>3. seen' = seen \cup ToSet(InTransit(t))
  <2>1. CASE TimeOut(t) \/ RaiseApiError(t)
    <3>1. InTransit(t) = <<>>
      BY <1>2, <2>1 DEF TimeOut, RaiseApiError, Answered, Linked, EmptyHanded
    <3> QED  BY <2>1, <3>1 DEF TimeOut, RaiseApiError, events, ToSet
  <2>2. CASE Return(t) \/ Accept(t) \/ Reject(t)
    BY <1>2, <2>2 DEF Return, Accept, Reject, Deliver
  <2> QED  BY <2>1, <2>2
<1>4. /\ pc'[t] \in {"idle", "lock"}
      /\ \A u \in Threads : u # t => pc'[u] = pc[u] /\ call'[u] = call[u]
  BY LinkedTypes DEF Return, TimeOut, RaiseApiError, Accept, Reject, End
<1>5. /\ t \in Waits /\ Taken' = [Taken EXCEPT ![t] = <<>>]
      /\ Waits' \in {Waits, Waits \ {t}}
  BY <1>1, <1>4, LeavesMaps
<1> QED  BY <1>1, <1>3, <1>5, MapsToHand

LEMMA SendRequestMaps ==
  ASSUME Linked, Linked', NEW t \in Threads, SendRequest(t)
  PROVE  UNCHANGED Abstract!vars
<1>1. /\ pc[t] = "lock" /\ pc'[t] = "read" /\ call'[t].id = counter
      /\ UNCHANGED <<outbox, occurred, queue, seen, timedOut, closed>>
      /\ \A u \in Threads : u # t => pc'[u] = pc[u] /\ call'[u] = call[u]
  BY LinkedTypes DEF SendRequest, events, CallType
<1>2. \A i \in DOMAIN outbox : outbox[i].id # counter
  BY IdTypes, LinkedTypes DEF Linked, Numbered
<1>3. InTransit(t) = <<>> /\ InTransit(t)' = <<>>
  BY <1>1, <1>2, Transits, TransitsNext DEF TransitIs
<1>4. Waits' = Waits /\ Taken' = Taken
  BY <1>1, <1>3, StaysMaps
<1> QED  BY <1>1, <1>4, MapsToStutter

(* The response moves from the wire to the thread. *)
LEMMA ReceiveMaps ==
  ASSUME Linked, Linked', NEW t \in Threads, Receive(t), IdMatches(t, Head(outbox))
  PROVE  UNCHANGED Abstract!vars
<1>1. /\ pc[t] = "read" /\ pc'[t] = "check" /\ outbox # <<>>
      /\ call'[t].resp = Head(outbox)
      /\ UNCHANGED <<occurred, queue, seen, timedOut, closed>>
      /\ \A u \in Threads : u # t => pc'[u] = pc[u] /\ call'[u] = call[u]
  BY LinkedTypes DEF Receive, events, CallType
<1>2. 1 \in DOMAIN outbox /\ Head(outbox) = outbox[1]
  BY <1>1, LinkedTypes, HeadAt
<1>3. InTransit(t) = outbox[1].events
  BY <1>1, <1>2, Transits DEF TransitIs, IdMatches
<1>4. InTransit(t)' = outbox[1].events
  BY <1>1, <1>2, TransitsNext DEF TransitIs
<1>5. \A u \in Threads : u # t => pc[u] # "read"
  BY <1>1, LinkedTypes DEF Linked, Inv, Holds
<1>6. Waits' = Waits /\ Taken' = Taken
  BY <1>1, <1>3, <1>4, <1>5, StaysMaps
<1> QED  BY <1>1, <1>6, MapsToStutter

(* A step of the server: the events are on their way to the reader whose      *)
(* request it was, or, if nobody reads it any more, lost.                    *)
LEMMA ServeMaps ==
  ASSUME Linked, Linked', Serving, NEW kind \in {"events", "timeout", "api"}, NEW evs,
         Respond(kind, evs),
         \/ evs = <<>> /\ queue' = queue
         \/ evs = queue /\ queue' = <<>>
         \/ queue # <<>> /\ evs = <<Head(queue)>> /\ queue' = Tail(queue),
         UNCHANGED <<pc, call, occurred, seen, timedOut, closed>>
  PROVE  Abstract!Next \/ UNCHANGED Abstract!vars
<1>0. queue = <<>> \/ evs = <<>> => evs = <<>> /\ queue' = queue
  <2>1. \A e : <<e>> # <<>>
    OBVIOUS
  <2> QED  BY <2>1
<1> DEFINE req == Head(inbox)
           resp == [id |-> req.id, by |-> req.by, kind |-> kind, events |-> evs]
<1>1. inbox # <<>> /\ 1 \in DOMAIN inbox /\ req = inbox[1]
  BY LinkedTypes, HeadAt DEF Serving
<1>2. outbox' = Append(outbox, resp)
  BY DEF Respond
<1>3. /\ DOMAIN outbox \subseteq DOMAIN outbox'
      /\ \A i \in DOMAIN outbox : outbox'[i] = outbox[i]
      /\ Len(outbox) + 1 \in DOMAIN outbox' /\ outbox'[Len(outbox) + 1] = resp
  BY <1>2, LinkedTypes
<1>4. \A i \in DOMAIN outbox' :
        \/ i \in DOMAIN outbox /\ outbox'[i] = outbox[i]
        \/ outbox'[i] = resp
  BY <1>2, LinkedTypes, AppendAt
<1>5. resp.id = inbox[1].id /\ resp.events = evs
  BY <1>1
<1> HIDE DEF resp
<1>6. Waits' = Waits
  BY DEF Waits
<1>7. ASSUME NEW u \in Threads, pc[u] = "read" => call[u].id # resp.id
      PROVE  InTransit(u)' = InTransit(u)
  <2>1. CASE pc[u] # "read"
    BY <2>1, TransitKept
  <2>2. CASE pc[u] = "read" /\ \E i \in DOMAIN outbox : outbox[i].id = call[u].id
    BY <1>3, <2>2, Transits, TransitsNext DEF TransitIs
  <2>3. CASE pc[u] = "read" /\ \A i \in DOMAIN outbox : outbox[i].id # call[u].id
    BY <1>4, <1>7, <2>3, Transits, TransitsNext DEF TransitIs
  <2> QED  BY <2>1, <2>2, <2>3
<1>8. ASSUME NEW t \in Threads, pc[t] = "read", call[t].id = resp.id
      PROVE  Abstract!Next \/ UNCHANGED Abstract!vars
  <2>1. InTransit(t)' = evs
    BY <1>3, <1>5, <1>8, TransitsNext DEF TransitIs
  <2>2. \A i \in DOMAIN outbox : outbox[i].id # call[t].id
    BY <1>1, <1>5, <1>8, IdTypes DEF Linked, Numbered
  <2>3. InTransit(t) = <<>>
    BY <1>8, <2>2, Transits DEF TransitIs
  <2>4. \A u \in Threads : u # t => InTransit(u)' = InTransit(u)
    BY <1>7, <1>8, LinkedTypes DEF Linked, Inv, Holds
  <2>5. Taken' = [Taken EXCEPT ![t] = evs]
    BY <2>1, <2>4 DEF Taken
  <2>6. t \in Waits
    BY <1>8 DEF Waits
  <2>7. CASE queue # <<>> /\ evs # <<>>
    BY <1>6, <2>3, <2>5, <2>6, <2>7, MapsToTake
  <2>8. CASE queue = <<>> \/ evs = <<>>
    <3>1. evs = <<>> /\ queue' = queue
      BY <1>0, <2>8
    <3>2. Taken' = Taken
      BY <2>3, <2>5, <3>1 DEF Taken
    <3> QED  BY <1>6, <3>1, <3>2, MapsToStutter
  <2> QED  BY <2>7, <2>8
<1>9. ASSUME \A u \in Threads : pc[u] = "read" => call[u].id # resp.id
      PROVE  Abstract!Next \/ UNCHANGED Abstract!vars
  <2>1. Taken' = Taken
    BY <1>7, <1>9 DEF Taken
  <2>2. Faulty = TRUE
    <3>1. ~Faulty => lock \in Threads /\ inbox[1].id = call[lock].id /\ pc[lock] = "read"
      BY <1>1, LinkedTypes DEF Linked, Inv, Conversation, Holds
    <3>2. Faulty
      BY <1>5, <1>9, <3>1
    <3> QED  BY <3>2 DEF Faulty
  <2>3. CASE queue # <<>> /\ evs # <<>>
    BY <1>6, <2>1, <2>2, <2>3, MapsToLose
  <2>4. CASE queue = <<>> \/ evs = <<>>
    <3>1. queue' = queue
      BY <1>0, <2>4
    <3> QED  BY <1>6, <2>1, <3>1, MapsToStutter
  <2> QED  BY <2>3, <2>4
<1> QED  BY <1>8, <1>9

(* Steps that leave every call where it is. *)
LEMMA CallsStay ==
  ASSUME Linked, Linked', UNCHANGED <<pc, outbox>>,
         \A u \in Threads : call'[u].id = call[u].id /\ call'[u].resp = call[u].resp
  PROVE  Waits' = Waits /\ Taken' = Taken
<1>1. \A u \in Threads : InTransit(u)' = InTransit(u)
  BY TransitKept
<1> QED  BY <1>1 DEF Waits, Taken

LEMMA WorldMaps ==
  ASSUME Linked, Linked', Occur \/ Close \/ Tick \/ UNCHANGED vars
  PROVE  Abstract!Next \/ UNCHANGED Abstract!vars
<1>1. UNCHANGED <<pc, outbox, seen>>
  BY DEF Occur, Close, Tick, vars, threadVars, wire, events
<1>2. \A u \in Threads : call'[u].id = call[u].id /\ call'[u].resp = call[u].resp
  <2> SUFFICES ASSUME NEW u \in Threads
               PROVE  call'[u].id = call[u].id /\ call'[u].resp = call[u].resp
    OBVIOUS
  <2> DEFINE left == CountDown(call[u].left, -1)
  <2>1. CASE Tick
    <3>1. call[u] \in CallType
      BY LinkedTypes
    <3>2. call'[u] = IF Waiting(u) THEN [call[u] EXCEPT !.left = left] ELSE call[u]
      BY <2>1 DEF Tick
    <3> HIDE DEF left
    <3> QED  BY <3>1, <3>2 DEF CallType
  <2>2. CASE Occur \/ Close \/ UNCHANGED vars
    BY <2>2 DEF Occur, Close, vars, threadVars
  <2> QED  BY <2>1, <2>2
<1>3. Waits' = Waits /\ Taken' = Taken
  BY <1>1, <1>2, CallsStay
<1>4. CASE Occur
  <2>1. Abstract!Occur
    BY <1>3, <1>4 DEF Occur, Abstract!Occur, Waits, Taken, Faulty, wire
  <2> QED  BY <2>1 DEF Abstract!Next
<1>5. CASE Close
  <2>1. Abstract!Break
    BY <1>3, <1>5 DEF Close, Abstract!Break, Waits, Taken, Faulty, events
  <2> QED  BY <2>1 DEF Abstract!Next
<1>6. CASE Tick \/ UNCHANGED vars
  BY <1>3, <1>6, MapsToStutter DEF Tick, vars, wire, events
<1> QED  BY <1>4, <1>5, <1>6

LEMMA NextMaps == Linked /\ Linked' /\ [Next]_vars => [Abstract!Next]_(Abstract!vars)
<1> SUFFICES ASSUME Linked, Linked', [Next]_vars
             PROVE  Abstract!Next \/ UNCHANGED Abstract!vars
  OBVIOUS
<1>1. ASSUME NEW t \in Threads, NEW op \in Ops, NEW timeout \in Timeouts,
             Begin(t, op, timeout)
      PROVE  Abstract!Next
  BY <1>1, BeginMaps
<1>2. ASSUME NEW t \in Threads, ThreadStep(t)
      PROVE  Abstract!Next \/ UNCHANGED Abstract!vars
  <2>1. CASE SendRequest(t)
    BY <2>1, SendRequestMaps
  <2>2. CASE Receive(t) /\ IdMatches(t, Head(outbox))
    BY <2>2, ReceiveMaps
  <2>3. CASE SendFails(t) \/ ReceiveTimesOut(t) \/ ReceiveFails(t)
               \/ (Receive(t) /\ ~IdMatches(t, Head(outbox)))
    BY <2>3, FailsMaps
  <2>4. CASE Return(t) \/ TimeOut(t) \/ RaiseApiError(t) \/ Accept(t) \/ Reject(t)
    BY <2>4, AnsweredMaps
  <2> QED  BY <1>2, <2>1, <2>2, <2>3, <2>4 DEF ThreadStep
<1>3. CASE ServeAll
  BY <1>3, ServeMaps DEF ServeAll, threadVars
<1>4. CASE ServeEvent
  BY <1>4, ServeMaps DEF ServeEvent, threadVars
<1>5. CASE ServeTimeout
  BY <1>5, ServeMaps DEF ServeTimeout, threadVars, events
<1>6. CASE ServeError
  BY <1>6, ServeMaps DEF ServeError, threadVars, events
<1>7. CASE Occur \/ Close \/ Tick \/ UNCHANGED vars
  BY <1>7, WorldMaps
<1> QED  BY <1>1, <1>2, <1>3, <1>4, <1>5, <1>6, <1>7 DEF Next

(* The calls of any number of threads on one connection, with its lock, ids,  *)
(* responses left over from calls that failed and timeouts on either side,   *)
(* implement the queue of events that EventQueue describes.                  *)
THEOREM CallsImplementQueue == Spec => ImplementsQueue
<1>1. Init => Abstract!Init
  BY InitMaps
<1>2. Linked /\ Linked' /\ [Next]_vars => [Abstract!Next]_(Abstract!vars)
  BY NextMaps
<1> QED
  BY <1>1, <1>2, InitLinked, NextLinked, PTL DEF Spec, ImplementsQueue, Abstract!Spec

(* So what is proved of the queue holds of the calls. *)
Queue == INSTANCE EventQueueProofs WITH
  waits <- {t \in Threads : pc[t] # "idle"},
  taken <- [t \in Threads |-> InTransit(t)],
  failed <- Faulty

LEMMA QueueSpec == Abstract!Spec => Queue!Spec
<1>1. Abstract!Init => Queue!Init
  BY DEF Abstract!Init, Queue!Init
<1>2. [Abstract!Next]_(Abstract!vars) => [Queue!Next]_(Queue!vars)
  BY DEF Abstract!Next, Queue!Next, Abstract!vars, Queue!vars,
         Abstract!Occur, Queue!Occur, Abstract!Break, Queue!Break, Abstract!Lose, Queue!Lose,
         Abstract!Call, Queue!Call, Abstract!Take, Queue!Take, Abstract!Hand, Queue!Hand,
         Abstract!Fail, Queue!Fail, Abstract!ToSet, Queue!ToSet
<1> QED  BY <1>1, <1>2, PTL DEF Abstract!Spec, Queue!Spec

(* No event is lost between the device and the callers unless the connection  *)
(* failed.                                                                   *)
THEOREM CallsLoseNothing ==
  Spec => [](~Faulty => 1..occurred = ToSet(queue) \cup seen
                                      \cup UNION {ToSet(InTransit(t)) : t \in Threads})
<1>1. Queue!Conserved =>
        (~Faulty => 1..occurred = ToSet(queue) \cup seen
                                  \cup UNION {ToSet(InTransit(t)) : t \in Threads})
  BY DEF Queue!Conserved, Queue!ToSet, ToSet
<1>2. Queue!Spec => []Queue!Conserved
  BY Queue!EventsConserved
<1> QED  BY <1>1, <1>2, CallsImplementQueue, QueueSpec, PTL DEF ImplementsQueue

(* No event reaches two callers: what is on its way to one thread is neither  *)
(* at the server nor with a caller nor on its way to another thread, whether  *)
(* or not the connection failed.                                             *)
THEOREM EventsToOneCaller ==
  Spec => [](/\ \A t \in Threads : ToSet(InTransit(t)) \cap (ToSet(queue) \cup seen) = {}
             /\ \A t, u \in Threads : t # u => ToSet(InTransit(t)) \cap ToSet(InTransit(u)) = {}
             /\ ToSet(queue) \cap seen = {})
<1>1. Queue!TakenOnce =>
        (/\ \A t \in Threads : ToSet(InTransit(t)) \cap (ToSet(queue) \cup seen) = {}
         /\ \A t, u \in Threads : t # u => ToSet(InTransit(t)) \cap ToSet(InTransit(u)) = {}
         /\ ToSet(queue) \cap seen = {})
  BY DEF Queue!TakenOnce, Queue!ToSet, ToSet
<1>2. Queue!Spec => []Queue!TakenOnce
  BY Queue!EventsTakenOnce
<1> QED  BY <1>1, <1>2, CallsImplementQueue, QueueSpec, PTL DEF ImplementsQueue
=============================================================================

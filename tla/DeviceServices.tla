--------------------------- MODULE DeviceServices ---------------------------
(***************************************************************************)
(* The services of an Android device: ServiceManager of mobly/controllers/ *)
(* android_device_lib/service_manager.py, and the contexts of              *)
(* mobly/controllers/android_device.py that stop or pause the services     *)
(* around a reboot or a USB disconnect, with the build_info cache.         *)
(*                                                                         *)
(* One thread calls the manager and enters the contexts.  Loops over the   *)
(* services take one service a step, since each call into a service may    *)
(* raise.  A service is user code, of which the manager sees is_alive: what *)
(* it is after a call that raised is open.  Other threads read build_info.  *)
(***************************************************************************)
EXTENDS Integers, Sequences, SequencesExt

CONSTANTS
  Aliases,   \* the aliases services are registered with
  Builtin,   \* the services AndroidDevice.__init__ registers
  Readers,   \* threads that read build_info
  MaxDepth   \* bound: contexts entered one in the other

ASSUME DeviceAssumption ==
  /\ Builtin \in Seq(Aliases)
  /\ \A i, j \in DOMAIN Builtin : Builtin[i] = Builtin[j] => i = j
  /\ MaxDepth \in Nat

(* Values of build_info: those of the running system, those of before the   *)
(* last reboot, or None.                                                    *)
Values == {"new", "old", "none"}

VARIABLES
  registry,  \* _service_objects: the aliases in the order of registration
  alive,     \* aliases whose service, the last one created, is_alive
  current,   \* aliases started or resumed since the device last booted
  faulty,    \* history: aliases whose object had a call that raised
  call,      \* the loop of the manager that is running
  frames,    \* the contexts entered, the innermost last
  rebooting, \* _is_rebooting
  cache,     \* _build_info
  reader,    \* per thread where it is in build_info and what it fetched
  nested,    \* history: was a handle_reboot entered in another one
  late,      \* history: is what the cache holds an old value that a thread
             \* stored
  gone       \* destroy returned

services == <<registry, alive, current, faulty>>
info == <<rebooting, cache, reader, nested, late>>
vars == <<services, call, frames, info, gone>>

(* op: the loop; by: who called it; todo: the services left; spared: those  *)
(* whose stop or pause raised, for start_services those running already.    *)
(* list_live is list_live_services, which begins a context.                 *)
Idle == [op |-> "none", by |-> "user", todo |-> <<>>, spared |-> {}]

Swallowing == {"start_all", "stop_all", "pause_all", "resume_all", "unregister_all"}
Strict == {"start_services", "resume_services"}

Running == ToSet(registry) \cap alive

Loop(op, by, todo) ==
  [op |-> op, by |-> by, todo |-> todo,
   spared |-> IF op = "start_services" THEN Running ELSE {}]

(* A context entered, with its live_service_names; before: history.         *)
Frame(op) == [op |-> op, live |-> <<>>, before |-> Running]

UserTurn == call = Idle /\ ~gone

Innermost == frames[Len(frames)]

(* A handle_reboot is not yet left. *)
Rebooting == \E i \in DOMAIN frames : frames[i].op = "reboot"

-----------------------------------------------------------------------------
(* Calls into a service *)

(* What is_alive may be after a method.  (The snippet management service has *)
(* nothing to start before it has a client; here it is a service once it has.) *)
After(method, raises) == IF raises THEN BOOLEAN ELSE {method \in {"start", "resume"}}

SetAlive(a, on) == IF on THEN alive \cup {a} ELSE alive \ {a}

(* The call of a method of the object registered under a. *)
Invoke(a, method, raises) ==
  /\ \E on \in After(method, raises) : alive' = SetAlive(a, on)
  /\ current' = IF method \in {"start", "resume"} /\ ~raises
                THEN current \cup {a} ELSE current
  /\ faulty' = IF raises THEN faulty \cup {a} ELSE faulty

NotInvoked == UNCHANGED <<alive, current, faulty>>

Method(op) ==
  CASE op \in {"start_all", "start_services"} -> "start"
    [] op \in {"stop_all", "unregister_all"} -> "stop"
    [] op = "pause_all" -> "pause"
    [] op \in {"resume_all", "resume_services"} -> "resume"

(* start and stop ask is_alive first, pause and resume do not. *)
Needs(op, a) ==
  /\ Method(op) = "start" => a \notin alive
  /\ Method(op) = "stop" => a \in alive

-----------------------------------------------------------------------------
Init ==
  /\ registry = Builtin
  /\ alive = {} /\ current = {} /\ faulty = {}
  /\ call = Idle /\ frames = <<>>
  /\ rebooting = FALSE /\ cache = "none"
  /\ reader = [t \in Readers |-> [pc |-> "idle", got |-> "none"]]
  /\ nested = FALSE /\ late = FALSE /\ gone = FALSE

(* Mutant: aliases are not checked. *)
FreeUnchecked(a) == TRUE

Free(a) == a \notin ToSet(registry)

(* register: an alias is used once; an object whose start raised is not added. *)
Register(a, start, raises) ==
  /\ UserTurn
  /\ Free(a)
  /\ raises => start
  /\ registry' = IF raises THEN registry ELSE Append(registry, a)
  /\ \E on \in IF start THEN After("start", raises) ELSE {FALSE} :
       alive' = SetAlive(a, on)
  /\ current' = IF start /\ ~raises THEN current \cup {a} ELSE current \ {a}
  /\ faulty' = IF raises THEN faulty \cup {a} ELSE faulty \ {a}
  /\ UNCHANGED <<call, frames, info, gone>>

(* An alias that is there once is taken out of a sequence. *)
Without(s, a) == RemoveAt(s, CHOOSE i \in DOMAIN s : s[i] = a)

(* Mutant: stop only what could be stopped is taken out. *)
UnregisterWithoutStop(a, raises) ==
  /\ a \in ToSet(registry) /\ ~raises
  /\ registry' = Without(registry, a)
  /\ NotInvoked

(* unregister: taken out before it is stopped. *)
TakeOut(a, raises) ==
  /\ a \in ToSet(registry)
  /\ registry' = Without(registry, a)
  /\ \/ /\ Needs("unregister_all", a)
        /\ Invoke(a, "stop", raises)
     \/ /\ ~Needs("unregister_all", a) /\ ~raises
        /\ NotInvoked

Unregister(a, raises) ==
  /\ UserTurn
  /\ TakeOut(a, raises)
  /\ UNCHANGED <<call, frames, info, gone>>

(* The user calls a loop of the manager for all services. *)
CallAll(op) ==
  /\ UserTurn
  /\ call' = Loop(op, "user", IF op \in {"stop_all", "pause_all"}
                              THEN Reverse(registry) ELSE registry)
  /\ UNCHANGED <<services, frames, info, gone>>

-----------------------------------------------------------------------------
(* The steps of a loop *)

(* Mutant: the loop ends at the first call that raised. *)
NextTodoStops(raises) == IF raises THEN <<>> ELSE Tail(call.todo)

NextTodo(raises) == Tail(call.todo)

(* The next service, when errors are recorded and swallowed. *)
Tolerate(raises) ==
  /\ call.op \in Swallowing \ {"unregister_all"} /\ call.todo # <<>>
  /\ LET a == Head(call.todo) IN
     /\ \/ Needs(call.op, a) /\ Invoke(a, Method(call.op), raises)
        \/ ~Needs(call.op, a) /\ ~raises /\ NotInvoked
     /\ call' = [call EXCEPT !.todo = NextTodo(raises),
                             !.spared = IF raises /\ Method(call.op) # "start"
                                        THEN @ \cup {a} ELSE @]
  /\ UNCHANGED <<registry, frames, info, gone>>

UnregisterNext(raises) ==
  /\ call.op = "unregister_all" /\ call.todo # <<>>
  /\ TakeOut(Head(call.todo), raises)
  /\ call' = [call EXCEPT !.todo = Tail(@)]
  /\ UNCHANGED <<frames, info, gone>>

(* The next named service, when the first error ends the loop. *)
Insist ==
  /\ call.op \in Strict /\ call.todo # <<>>
  /\ LET a == Head(call.todo) IN
     /\ a \in ToSet(registry)
     /\ \/ Needs(call.op, a) /\ Invoke(a, Method(call.op), FALSE)
        \/ ~Needs(call.op, a) /\ NotInvoked
     /\ call' = [call EXCEPT !.todo = Tail(@)]
  /\ UNCHANGED <<registry, frames, info, gone>>

(* It raised, or is not registered any more: the exception leaves the context. *)
InsistRaises ==
  /\ call.op \in Strict /\ call.todo # <<>>
  /\ LET a == Head(call.todo) IN
     \/ a \notin ToSet(registry) /\ NotInvoked
     \/ a \in ToSet(registry) /\ Needs(call.op, a)
          /\ Invoke(a, Method(call.op), TRUE)
  /\ call' = Idle
  /\ frames' = Front(frames)
  /\ UNCHANGED <<registry, info, gone>>

(* Mutant: only the last live service is listed. *)
WithLiveLast(live, a) == IF a \in alive THEN <<a>> ELSE live

WithLive(live, a) == IF a \in alive THEN Append(live, a) ELSE live

ListNext ==
  /\ call.op = "list_live" /\ call.todo # <<>>
  /\ frames' = [frames EXCEPT ![Len(frames)].live = WithLive(@, Head(call.todo))]
  /\ call' = [call EXCEPT !.todo = Tail(@)]
  /\ UNCHANGED <<services, info, gone>>

(* The live services are listed, all are stopped or paused. *)
Listed ==
  /\ call.op = "list_live" /\ call.todo = <<>>
  /\ call' = Loop(IF Innermost.op = "reboot" THEN "stop_all" ELSE "pause_all",
                  "enter", Reverse(registry))
  /\ UNCHANGED <<services, frames, info, gone>>

LoopEnds ==
  /\ call.op \notin {"none", "list_live"}
  /\ call.todo = <<>> /\ call' = Idle

UserLoopEnds ==
  /\ LoopEnds /\ call.by = "user"
  /\ UNCHANGED <<services, frames, info, gone>>

(* The services are stopped or paused, the body of the context begins. *)
BodyBegins ==
  /\ LoopEnds /\ call.by = "enter"
  /\ rebooting' = (rebooting \/ Innermost.op = "reboot")
  /\ UNCHANGED <<services, frames, cache, reader, nested, late, gone>>

ContextEnds ==
  /\ LoopEnds /\ call.by = "leave"
  /\ frames' = Front(frames)
  /\ UNCHANGED <<services, info, gone>>

Destroyed ==
  /\ LoopEnds /\ call.by = "destroy"
  /\ gone' = TRUE
  /\ UNCHANGED <<services, frames, info>>

-----------------------------------------------------------------------------
(* The contexts, and destroy *)

EnterReboot ==
  /\ UserTurn /\ Len(frames) < MaxDepth
  /\ frames' = Append(frames, Frame("reboot"))
  /\ call' = Loop("list_live", "enter", registry)
  /\ nested' = (nested \/ Rebooting)
  /\ UNCHANGED <<services, rebooting, cache, reader, late, gone>>

EnterUsb ==
  /\ UserTurn /\ Len(frames) < MaxDepth
  /\ frames' = Append(frames, Frame("usb"))
  /\ call' = Loop("list_live", "enter", registry)
  /\ UNCHANGED <<services, info, gone>>

Aged(value) == IF value = "new" THEN "old" ELSE value

(* The body reboots the device.  No Python object notices: what is running    *)
(* stays so by name, and values read before are old.                         *)
Reboot ==
  /\ UserTurn /\ frames # <<>> /\ Innermost.op = "reboot"
  /\ current' = {}
  /\ cache' = Aged(cache)
  /\ reader' = [t \in Readers |-> [reader[t] EXCEPT !.got = Aged(@)]]
  /\ UNCHANGED <<registry, alive, faulty, call, frames, rebooting, nested, late, gone>>

(* Mutant: the cache is invalidated only if the device can be rooted. *)
InvalidatedLazily(read) ==
  /\ cache' = IF read THEN "new" ELSE cache
  /\ rebooting' = FALSE /\ late' = FALSE

(* The cache is invalidated, then is_rootable reads build_info if it can.    *)
Invalidated(read) ==
  /\ cache' = IF read THEN "new" ELSE "none"
  /\ rebooting' = FALSE /\ late' = FALSE

(* The body of handle_reboot returned or raised and the device boots.  The   *)
(* services are started unless the body, or the query whether the device can *)
(* be rooted, raised.                                                        *)
BootCompletes(raises, read) ==
  /\ UserTurn /\ frames # <<>> /\ Innermost.op = "reboot"
  /\ Invalidated(read)
  /\ IF raises THEN frames' = Front(frames) /\ call' = Idle
     ELSE /\ call' = Loop("start_services", "leave", Innermost.live)
          /\ UNCHANGED frames
  /\ UNCHANGED <<services, reader, nested, gone>>

(* wait_for_boot_completion raises. *)
BootTimesOut ==
  /\ UserTurn /\ frames # <<>> /\ Innermost.op = "reboot"
  /\ frames' = Front(frames)
  /\ UNCHANGED <<services, call, info, gone>>

(* The body of handle_usb_disconnect returned or raised. *)
LeaveUsb ==
  /\ UserTurn /\ frames # <<>> /\ Innermost.op = "usb"
  /\ call' = Loop("resume_services", "leave", Innermost.live)
  /\ UNCHANGED <<services, frames, info, gone>>

Destroy ==
  /\ UserTurn /\ frames = <<>>
  /\ call' = Loop("stop_all", "destroy", Reverse(registry))
  /\ UNCHANGED <<services, frames, info, gone>>

-----------------------------------------------------------------------------
(* build_info, read by the thread of the manager and by others *)

Stale == cache = "none" \/ rebooting

ReadHere ==
  /\ UserTurn /\ Stale
  /\ cache' = "new"
  /\ late' = FALSE
  /\ UNCHANGED <<services, call, frames, rebooting, reader, nested, gone>>

(* Another thread finds nothing to use in the cache. *)
ReadMisses(t) ==
  /\ reader[t].pc = "idle" /\ Stale
  /\ reader' = [reader EXCEPT ![t].pc = "fetch"]
  /\ UNCHANGED <<services, call, frames, rebooting, cache, nested, late, gone>>

(* getprops returns the properties of the running system. *)
ReadFetches(t) ==
  /\ reader[t].pc = "fetch"
  /\ reader' = [reader EXCEPT ![t] = [pc |-> "store", got |-> "new"]]
  /\ UNCHANGED <<services, call, frames, rebooting, cache, nested, late, gone>>

ReadStores(t) ==
  /\ reader[t].pc = "store"
  /\ cache' = reader[t].got
  /\ late' = (reader[t].got = "old")
  /\ reader' = [reader EXCEPT ![t] = [pc |-> "idle", got |-> "none"]]
  /\ UNCHANGED <<services, call, frames, rebooting, nested, gone>>

-----------------------------------------------------------------------------
Next ==
  \/ \E a \in Aliases, start, raises \in BOOLEAN : Register(a, start, raises)
  \/ \E a \in Aliases, raises \in BOOLEAN : Unregister(a, raises)
  \/ \E op \in Swallowing : CallAll(op)
  \/ \E raises \in BOOLEAN : Tolerate(raises) \/ UnregisterNext(raises)
  \/ ListNext
  \/ Listed
  \/ Insist
  \/ InsistRaises
  \/ UserLoopEnds
  \/ BodyBegins
  \/ ContextEnds
  \/ Destroyed
  \/ EnterReboot
  \/ EnterUsb
  \/ Reboot
  \/ \E raises, read \in BOOLEAN : BootCompletes(raises, read)
  \/ BootTimesOut
  \/ LeaveUsb
  \/ Destroy
  \/ ReadHere
  \/ \E t \in Readers : ReadMisses(t) \/ ReadFetches(t) \/ ReadStores(t)

Spec == Init /\ [][Next]_vars

-----------------------------------------------------------------------------
(* Properties *)

LoopType ==
  [op : Swallowing \cup Strict \cup {"none", "list_live"},
   by : {"user", "enter", "leave", "destroy"}, todo : Seq(Aliases),
   spared : SUBSET Aliases]

(* Every variable has a value its Python counterpart can have; no alias is   *)
(* registered twice.                                                         *)
TypeOK ==
  /\ registry \in Seq(Aliases)
  /\ \A i, j \in DOMAIN registry : registry[i] = registry[j] => i = j
  /\ alive \subseteq Aliases /\ current \subseteq Aliases /\ faulty \subseteq Aliases
  /\ call \in LoopType
  /\ frames \in Seq([op : {"reboot", "usb"}, live : Seq(Aliases),
                    before : SUBSET Aliases])
  /\ cache \in Values
  /\ reader \in [Readers -> [pc : {"idle", "fetch", "store"}, got : Values]]
  /\ {rebooting, nested, late, gone} \subseteq BOOLEAN

(* stop_all, pause_all: one service failing to stop or pause keeps none of    *)
(* the others running, before a reboot, a disconnect or at the end.          *)
StopsOthers ==
  call.op \in {"stop_all", "pause_all"} =>
    Running \subseteq ToSet(call.todo) \cup call.spared

(* handle_reboot, handle_usb_disconnect: when the context ends without an     *)
(* exception every service that was live when it was entered is live again,  *)
(* and was started in the boot the device is in, unless it was running       *)
(* already (its stop had failed, or the body started it).                    *)
ContextRestores ==
  [][\A i \in DOMAIN frames : ContextEnds /\ i = Len(frames) =>
       \A a \in frames[i].before :
         /\ a \in Running
         /\ frames[i].op = "reboot" => a \in current \cup call.spared]_vars

(* build_info: a cache that readers use holds nothing older than the running  *)
(* system, also after a reboot that timed out.  The exceptions are           *)
(* nested reboots, which handle_reboot warns of, and a thread that stores    *)
(* after the invalidation what it fetched before the reboot.                 *)
CacheFresh ==
  ~rebooting /\ ~nested => cache # "old" \/ late

(* unregister, stop_all, destroy: after destroy nothing runs but services     *)
(* that raised, those taken out of the registry before included.             *)
NothingLeftRunning ==
  gone => \A a \in Aliases : a \in alive => a \in faulty
=============================================================================

------------------------ MODULE DeviceServicesProofs ------------------------
(***************************************************************************)
(* The services of a device and its build_info cache, for any services,     *)
(* contexts entered one in the other to any depth and any number of readers:*)
(* types, what is stopped, what is left running, what a context brings back *)
(* and how old the cache may be.                                            *)
(***************************************************************************)
EXTENDS DeviceServices, SequenceTheorems, TLAPS

Once(s) == \A i, j \in DOMAIN s : s[i] = s[j] => i = j

FrameType == [op : {"reboot", "usb"}, live : Seq(Aliases), before : SUBSET Aliases]

(* The loop of a context and the context belong together. *)
LoopOfContext ==
  /\ call.by \in {"enter", "leave"} => frames # <<>>
  /\ call.op = "list_live" => call.by = "enter"
  /\ call.op \in Strict => call.by = "leave"
  /\ call.by = "leave" =>
       call.op = IF Innermost.op = "reboot" THEN "start_services" ELSE "resume_services"
  /\ call.by = "destroy" => call.op = "stop_all"
  /\ gone => call = Idle

(* A service runs out of the registry only if its stop or its start raised, *)
(* what a loop that stops left running raised, and a loop over all services *)
(* starts none that is not registered.                                      *)
Accounted ==
  /\ alive \subseteq ToSet(registry) \cup faulty
  /\ call.op \in {"start_all", "resume_all"} => ToSet(call.todo) \subseteq ToSet(registry)
  /\ call.op \in {"stop_all", "pause_all"} => call.spared \subseteq faulty

(* Each context has listed what it must bring back, or is about to. *)
Remembered ==
  \A i \in DOMAIN frames :
    IF i = Len(frames) /\ call.op = "list_live"
    THEN /\ frames[i].before \subseteq alive
         /\ frames[i].before \subseteq ToSet(frames[i].live) \cup ToSet(call.todo)
    ELSE frames[i].before \subseteq ToSet(frames[i].live)

(* As the context is left, what it listed is back or still to be started;    *)
(* what runs was started since the boot or ran before.                       *)
Restoring ==
  call.by = "leave" =>
    /\ \A a \in Innermost.before : a \in ToSet(call.todo) \/ a \in Running
    /\ call.op = "start_services" => Running \subseteq current \cup call.spared

(* Unless reboots are nested, build_info is not used from the moment the body *)
(* of handle_reboot begins, nor before a boot is complete.                   *)
CacheDisabled ==
  ~nested =>
    /\ \A i, j \in DOMAIN frames :
         frames[i].op = "reboot" /\ frames[j].op = "reboot" => i = j
    /\ \A i \in DOMAIN frames :
         frames[i].op = "reboot" /\ ~(i = Len(frames) /\ call.by \in {"enter", "leave"}) =>
           rebooting
    /\ cache = "old" /\ ~late => rebooting

Inv ==
  /\ TypeOK
  /\ StopsOthers
  /\ LoopOfContext
  /\ Accounted
  /\ Remembered
  /\ Restoring
  /\ CacheDisabled

-----------------------------------------------------------------------------
(* Sequences *)

LEMMA EmptySet == ToSet(<<>>) = {}
BY DEF ToSet

LEMMA ElementIn ==
  ASSUME NEW S, NEW s \in Seq(S) PROVE ToSet(s) \subseteq S
BY DEF ToSet

LEMMA TailSet ==
  ASSUME NEW S, NEW s \in Seq(S), s # <<>>
  PROVE  /\ Head(s) \in S /\ Tail(s) \in Seq(S) /\ Head(s) \in ToSet(s)
         /\ ToSet(s) = {Head(s)} \cup ToSet(Tail(s))
<1>1. /\ Head(s) \in S /\ Tail(s) \in Seq(S) /\ Head(s) = s[1]
      /\ Len(s) \in Nat /\ Len(s) >= 1 /\ DOMAIN s = 1..Len(s)
      /\ DOMAIN Tail(s) = 1..(Len(s) - 1)
      /\ \A i \in 1..(Len(s) - 1) : Tail(s)[i] = s[i + 1]
  OBVIOUS
<1>2. ASSUME NEW x \in ToSet(s) PROVE x \in {Head(s)} \cup ToSet(Tail(s))
  <2>1. PICK i \in 1..Len(s) : x = s[i]
    BY <1>1, <1>2 DEF ToSet
  <2>2. CASE i = 1
    BY <1>1, <2>1, <2>2
  <2>3. CASE i # 1
    <3>1. i - 1 \in 1..(Len(s) - 1) /\ Tail(s)[i - 1] = x
      BY <1>1, <2>1, <2>3
    <3> QED  BY <1>1, <3>1 DEF ToSet
  <2> QED  BY <2>2, <2>3
<1>3. Head(s) \in ToSet(s) /\ ToSet(Tail(s)) \subseteq ToSet(s)
  BY <1>1 DEF ToSet
<1> QED  BY <1>1, <1>2, <1>3

LEMMA AppendSet ==
  ASSUME NEW S, NEW s \in Seq(S), NEW e \in S
  PROVE  /\ Append(s, e) \in Seq(S) /\ ToSet(Append(s, e)) = ToSet(s) \cup {e}
         /\ Len(Append(s, e)) = Len(s) + 1 /\ Append(s, e)[Len(s) + 1] = e
         /\ DOMAIN Append(s, e) = DOMAIN s \cup {Len(s) + 1} /\ Len(s) + 1 \notin DOMAIN s
         /\ \A i \in DOMAIN s : Append(s, e)[i] = s[i]
<1>1. /\ Append(s, e) \in Seq(S)
      /\ Len(Append(s, e)) = Len(s) + 1 /\ Append(s, e)[Len(s) + 1] = e
      /\ DOMAIN Append(s, e) = DOMAIN s \cup {Len(s) + 1} /\ Len(s) + 1 \notin DOMAIN s
      /\ \A i \in DOMAIN s : Append(s, e)[i] = s[i]
  OBVIOUS
<1>2. ToSet(Append(s, e)) = ToSet(s) \cup {e}
  BY <1>1 DEF ToSet
<1> QED  BY <1>1, <1>2

LEMMA ReverseSet ==
  ASSUME NEW S, NEW s \in Seq(S)
  PROVE  Reverse(s) \in Seq(S) /\ ToSet(Reverse(s)) = ToSet(s)
<1>1. /\ Len(s) \in Nat /\ DOMAIN s = 1..Len(s) /\ \A i \in 1..Len(s) : s[i] \in S
  OBVIOUS
<1>2. /\ DOMAIN Reverse(s) = 1..Len(s)
      /\ \A i \in 1..Len(s) : Reverse(s)[i] = s[Len(s) - i + 1]
      /\ \A i \in 1..Len(s) : Len(s) - i + 1 \in 1..Len(s)
  BY <1>1 DEF Reverse
<1>3. Reverse(s) \in Seq(S)
  BY <1>1, <1>2 DEF Reverse
<1>4. ASSUME NEW i \in 1..Len(s) PROVE s[i] = Reverse(s)[Len(s) - i + 1]
  <2>1. Len(s) - (Len(s) - i + 1) + 1 = i /\ Len(s) - i + 1 \in 1..Len(s)
    BY <1>1
  <2> QED  BY <1>2, <2>1
<1>5. ToSet(Reverse(s)) \subseteq ToSet(s)
  BY <1>1, <1>2 DEF ToSet
<1>6. ToSet(s) \subseteq ToSet(Reverse(s))
  BY <1>1, <1>2, <1>4 DEF ToSet
<1> QED  BY <1>3, <1>5, <1>6

LEMMA FrontOf ==
  ASSUME NEW S, NEW s \in Seq(S), s # <<>>
  PROVE  /\ Front(s) \in Seq(S) /\ Len(s) \in DOMAIN s
         /\ DOMAIN Front(s) = DOMAIN s \ {Len(s)}
         /\ \A i \in DOMAIN Front(s) : Front(s)[i] = s[i]
BY DEF Front

(* An alias that is registered once. *)
LEMMA WithoutSet ==
  ASSUME NEW S, NEW s \in Seq(S), Once(s), NEW a \in ToSet(s)
  PROVE  /\ Without(s, a) \in Seq(S) /\ Once(Without(s, a))
         /\ ToSet(Without(s, a)) = ToSet(s) \ {a}
<1> DEFINE i == CHOOSE k \in DOMAIN s : s[k] = a
           w == Without(s, a)
<1>1. /\ Len(s) \in Nat /\ DOMAIN s = 1..Len(s) /\ \A k \in 1..Len(s) : s[k] \in S
  OBVIOUS
<1>2. i \in 1..Len(s) /\ s[i] = a
  BY <1>1 DEF ToSet
<1> DEFINE first == SubSeq(s, 1, i - 1)
           rest == SubSeq(s, i + 1, Len(s))
<1>3. w = first \o rest
  BY DEF Without, RemoveAt
<1> HIDE DEF i, w
<1>4. /\ first \in Seq(S) /\ Len(first) = i - 1
      /\ \A k \in 1..(i - 1) : first[k] = s[k]
  <2>1. \A k \in 1..(i - 1) : s[k] \in S
    BY <1>1, <1>2
  <2>2. /\ first \in Seq(S) /\ Len(first) = IF 1 <= i - 1 THEN (i - 1) - 1 + 1 ELSE 0
        /\ \A k \in 1..((i - 1) - 1 + 1) : first[k] = s[1 + k - 1]
    BY <1>1, <1>2, <2>1, SubSeqProperties
  <2> HIDE DEF first
  <2> QED  BY <1>1, <1>2, <2>2
<1>5. /\ rest \in Seq(S) /\ Len(rest) = Len(s) - i
      /\ \A k \in 1..(Len(s) - i) : rest[k] = s[k + i]
  <2>1. \A k \in (i + 1)..Len(s) : s[k] \in S
    BY <1>1, <1>2
  <2>2. /\ rest \in Seq(S) /\ Len(rest) = IF i + 1 <= Len(s) THEN Len(s) - (i + 1) + 1 ELSE 0
        /\ \A k \in 1..(Len(s) - (i + 1) + 1) : rest[k] = s[(i + 1) + k - 1]
    BY <1>1, <1>2, <2>1, SubSeqProperties
  <2> HIDE DEF rest
  <2>3. \A k \in 1..(Len(s) - i) : (i + 1) + k - 1 = k + i
    BY <1>1, <1>2
  <2> QED  BY <1>1, <1>2, <2>2, <2>3
<1> HIDE DEF first, rest
<1>9. /\ w \in Seq(S) /\ Len(w) = Len(s) - 1 /\ DOMAIN w = 1..(Len(s) - 1)
      /\ \A k \in 1..(Len(s) - 1) : w[k] = IF k < i THEN s[k] ELSE s[k + 1]
  <2>1. /\ w \in Seq(S) /\ Len(w) = Len(first) + Len(rest)
        /\ \A k \in 1..(Len(first) + Len(rest)) :
             w[k] = IF k <= Len(first) THEN first[k] ELSE rest[k - Len(first)]
    BY <1>3, <1>4, <1>5, ConcatProperties
  <2>2. Len(first) + Len(rest) = Len(s) - 1
    BY <1>1, <1>2, <1>4, <1>5
  <2>3. ASSUME NEW k \in 1..(Len(s) - 1) PROVE w[k] = IF k < i THEN s[k] ELSE s[k + 1]
    <3>1. CASE k < i
      BY <1>1, <1>2, <1>4, <2>1, <2>2, <3>1
    <3>2. CASE ~(k < i)
      <4>1. k - (i - 1) \in 1..(Len(s) - i) /\ (k - (i - 1)) + i = k + 1 /\ ~(k <= i - 1)
        BY <1>1, <1>2, <3>2
      <4>2. w[k] = rest[k - (i - 1)]
        BY <1>4, <2>1, <2>2, <4>1
      <4>3. rest[k - (i - 1)] = s[(k - (i - 1)) + i]
        BY <1>5, <4>1
      <4> QED  BY <3>2, <4>1, <4>2, <4>3
    <3> QED  BY <3>1, <3>2
  <2>4. w \in Seq(S) /\ Len(w) = Len(s) - 1
    BY <2>1, <2>2
  <2>5. DOMAIN w = 1..Len(w)
    BY <2>4
  <2>6. DOMAIN w = 1..(Len(s) - 1)
    BY <2>4, <2>5
  <2> QED  BY <2>3, <2>4, <2>6
<1>6. Once(w)
  BY <1>1, <1>2, <1>9 DEF Once
<1>7. ASSUME NEW k \in 1..(Len(s) - 1)
      PROVE  \E l \in 1..Len(s) : w[k] = s[l] /\ l # i
  <2>1. CASE k < i
    <3>1. k \in 1..Len(s) /\ k # i /\ w[k] = s[k]
      BY <1>1, <1>2, <1>9, <2>1
    <3> QED  BY <3>1
  <2>2. CASE ~(k < i)
    <3>1. k + 1 \in 1..Len(s) /\ k + 1 # i /\ w[k] = s[k + 1]
      BY <1>1, <1>2, <1>9, <2>2
    <3> QED  BY <3>1
  <2> QED  BY <2>1, <2>2
<1>10. a \notin ToSet(w) /\ ToSet(w) \subseteq ToSet(s)
  <2> SUFFICES ASSUME NEW x \in ToSet(w) PROVE x \in ToSet(s) /\ x # a
    OBVIOUS
  <2>1. PICK k \in 1..(Len(s) - 1) : x = w[k]
    BY <1>9 DEF ToSet
  <2>2. PICK l \in 1..Len(s) : w[k] = s[l] /\ l # i
    BY <1>7
  <2> QED  BY <1>1, <1>2, <2>1, <2>2 DEF Once, ToSet
<1>8. ASSUME NEW x \in ToSet(s), x # a PROVE x \in ToSet(w)
  <2>1. PICK k \in 1..Len(s) : s[k] = x
    BY <1>1, <1>8 DEF ToSet
  <2>2. k # i
    BY <1>2, <1>8, <2>1
  <2>3. CASE k < i
    <3>1. k \in 1..(Len(s) - 1) /\ w[k] = x
      BY <1>1, <1>2, <1>9, <2>1, <2>3
    <3> QED  BY <1>9, <3>1 DEF ToSet
  <2>4. CASE k > i
    <3>1. k - 1 \in 1..(Len(s) - 1) /\ w[k - 1] = x
      BY <1>1, <1>2, <1>9, <2>1, <2>4
    <3> QED  BY <1>9, <3>1 DEF ToSet
  <2> QED  BY <1>1, <1>2, <2>2, <2>3, <2>4
<1> QED  BY <1>9, <1>6, <1>8, <1>10 DEF w

-----------------------------------------------------------------------------
(* Types *)

LEMMA Types ==
  ASSUME TypeOK
  PROVE  /\ registry \in Seq(Aliases) /\ Once(registry)
         /\ alive \subseteq Aliases /\ current \subseteq Aliases /\ faulty \subseteq Aliases
         /\ call \in LoopType /\ call.todo \in Seq(Aliases) /\ call.spared \subseteq Aliases
         /\ frames \in Seq(FrameType)
         /\ ToSet(registry) \subseteq Aliases /\ ToSet(call.todo) \subseteq Aliases
<1>1. /\ registry \in Seq(Aliases) /\ Once(registry)
      /\ alive \subseteq Aliases /\ current \subseteq Aliases /\ faulty \subseteq Aliases
      /\ call \in LoopType /\ frames \in Seq(FrameType)
  BY DEF TypeOK, Once, FrameType
<1>2. call.todo \in Seq(Aliases) /\ call.spared \subseteq Aliases
  BY <1>1 DEF LoopType
<1> QED  BY <1>1, <1>2, ElementIn

LEMMA IdleFields ==
  /\ Idle \in LoopType /\ Idle.op = "none" /\ Idle.by = "user"
  /\ Idle.todo = <<>> /\ Idle.spared = {}
BY DEF Idle, LoopType

LEMMA LoopFields ==
  ASSUME TypeOK, NEW op \in Swallowing \cup Strict \cup {"list_live"},
         NEW by \in {"user", "enter", "leave", "destroy"}, NEW todo \in Seq(Aliases)
  PROVE  /\ Loop(op, by, todo) \in LoopType /\ Loop(op, by, todo).op = op
         /\ Loop(op, by, todo).by = by /\ Loop(op, by, todo).todo = todo
         /\ op = "start_services" => Loop(op, by, todo).spared = Running
         /\ op # "start_services" => Loop(op, by, todo).spared = {}
<1>1. Running \subseteq Aliases
  BY Types DEF Running
<1> QED  BY <1>1 DEF Loop, LoopType

(* What a method may have changed. *)
LEMMA Invoked ==
  ASSUME TypeOK, NEW a \in Aliases, NEW raises \in BOOLEAN,
         NEW method \in {"start", "stop", "pause", "resume"}, Invoke(a, method, raises)
  PROVE  /\ alive' \subseteq Aliases /\ current' \subseteq Aliases /\ faulty' \subseteq Aliases
         /\ alive' \in {alive \cup {a}, alive \ {a}}
         /\ raises => faulty' = faulty \cup {a} /\ current' = current
         /\ ~raises => faulty' = faulty
         /\ ~raises /\ method \in {"stop", "pause"} =>
              alive' = alive \ {a} /\ current' = current
         /\ ~raises /\ method \in {"start", "resume"} =>
              alive' = alive \cup {a} /\ current' = current \cup {a}
<1>1. /\ alive \subseteq Aliases /\ current \subseteq Aliases /\ faulty \subseteq Aliases
  BY Types
<1>2. PICK on \in After(method, raises) : alive' = SetAlive(a, on)
  BY DEF Invoke
<1>3. /\ ~raises /\ method \in {"stop", "pause"} => on = FALSE
      /\ ~raises /\ method \in {"start", "resume"} => on = TRUE
  BY <1>2 DEF After
<1>4. /\ alive' \in {alive \cup {a}, alive \ {a}}
      /\ ~raises /\ method \in {"stop", "pause"} => alive' = alive \ {a}
      /\ ~raises /\ method \in {"start", "resume"} => alive' = alive \cup {a}
  BY <1>2, <1>3 DEF SetAlive
<1> QED  BY <1>1, <1>4 DEF Invoke

(* An alias taken out of the registry: what still runs raised. *)
LEMMA TakenOut ==
  ASSUME TypeOK, NEW a, NEW raises \in BOOLEAN, TakeOut(a, raises)
  PROVE  /\ a \in ToSet(registry) /\ a \in Aliases
         /\ registry' \in Seq(Aliases) /\ Once(registry')
         /\ ToSet(registry') = ToSet(registry) \ {a}
         /\ alive' \subseteq Aliases /\ current' \subseteq Aliases /\ faulty' \subseteq Aliases
         /\ faulty \subseteq faulty'
         /\ alive' \subseteq alive \cup {a} /\ (a \in alive' => a \in faulty')
<1>1. a \in ToSet(registry) /\ registry' = Without(registry, a)
  BY DEF TakeOut
<1>2. /\ registry' \in Seq(Aliases) /\ Once(registry')
      /\ ToSet(registry') = ToSet(registry) \ {a} /\ a \in Aliases
  BY <1>1, Types, WithoutSet
<1>3. CASE Invoke(a, "stop", raises)
  BY <1>1, <1>2, <1>3, Invoked
<1>4. CASE a \notin alive /\ NotInvoked
  BY <1>1, <1>2, <1>4, Types DEF NotInvoked
<1> QED  BY <1>3, <1>4 DEF TakeOut, Needs, Method

(* Types are kept when the variables of a context and of build_info are. *)
LEMMA KeepsTypes ==
  ASSUME TypeOK, registry' \in Seq(Aliases), Once(registry'),
         alive' \subseteq Aliases, current' \subseteq Aliases, faulty' \subseteq Aliases,
         call' \in LoopType, frames' \in Seq(FrameType),
         UNCHANGED <<info, gone>>
  PROVE  TypeOK'
BY DEF TypeOK, Once, FrameType, info

LEMMA InitInv == Init => Inv
<1> SUFFICES ASSUME Init PROVE Inv
  OBVIOUS
<1>1. /\ registry \in Seq(Aliases) /\ Once(registry) /\ frames = <<>> /\ call = Idle
      /\ alive = {} /\ current = {} /\ faulty = {} /\ gone = FALSE /\ cache = "none"
  BY DeviceAssumption DEF Init, Once
<1>2. TypeOK
  <2>1. call \in LoopType /\ frames \in Seq(FrameType)
    BY <1>1, IdleFields
  <2>2. reader \in [Readers -> [pc : {"idle", "fetch", "store"}, got : Values]]
    BY DEF Init, Values
  <2>3. {rebooting, nested, late, gone} \subseteq BOOLEAN /\ cache \in Values
    BY DEF Init, Values
  <2> QED  BY <1>1, <2>1, <2>2, <2>3 DEF TypeOK, Once, FrameType
<1>3. StopsOthers /\ LoopOfContext /\ Accounted /\ Restoring
  BY <1>1, IdleFields DEF StopsOthers, LoopOfContext, Accounted, Restoring, Strict
<1>4. Remembered /\ CacheDisabled
  BY <1>1 DEF Remembered, CacheDisabled
<1> QED  BY <1>2, <1>3, <1>4 DEF Inv

-----------------------------------------------------------------------------
(* Parts of the invariant that a step leaves alone *)

LEMMA KeepsCache ==
  ASSUME Inv, DOMAIN frames' = DOMAIN frames, Len(frames') = Len(frames),
         \A i \in DOMAIN frames : frames'[i].op = frames[i].op,
         call'.by \in {"enter", "leave"} \/ call.by \notin {"enter", "leave"},
         UNCHANGED <<rebooting, nested>>, cache' = "old" /\ ~late' => cache = "old" /\ ~late
  PROVE  CacheDisabled'
BY DEF Inv, CacheDisabled

LEMMA KeepsRemembered ==
  ASSUME Inv, frames' = frames, call.op # "list_live", call'.op # "list_live"
  PROVE  Remembered'
BY DEF Inv, Remembered

(* The innermost context is gone. *)
LEMMA FrontRemembered ==
  ASSUME Inv, frames # <<>>, frames' = Front(frames), call'.op # "list_live"
  PROVE  Remembered'
<1>1. \A i \in DOMAIN frames' : /\ i \in DOMAIN frames /\ i # Len(frames)
                                /\ frames'[i] = frames[i]
  BY Types, FrontOf DEF Inv
<1> QED  BY <1>1 DEF Inv, Remembered

LEMMA FrontCache ==
  ASSUME Inv, frames # <<>>, frames' = Front(frames), UNCHANGED <<rebooting, nested>>,
         cache' = "old" /\ ~late' => cache = "old" /\ ~late
  PROVE  CacheDisabled'
<1>1. \A i \in DOMAIN frames' : /\ i \in DOMAIN frames /\ i # Len(frames)
                                /\ frames'[i] = frames[i]
  BY Types, FrontOf DEF Inv
<1> QED  BY <1>1 DEF Inv, CacheDisabled

(* No loop runs. *)
LEMMA IdleParts ==
  ASSUME call' = Idle
  PROVE  StopsOthers' /\ LoopOfContext' /\ Restoring' /\ call'.op # "list_live"
         /\ call'.by \notin {"enter", "leave"}
BY IdleFields DEF StopsOthers, LoopOfContext, Restoring, Strict

LEMMA UserFields ==
  ASSUME UserTurn
  PROVE  call = Idle /\ call.op = "none" /\ call.by = "user" /\ call.op # "list_live"
BY IdleFields DEF UserTurn

-----------------------------------------------------------------------------
(* The manager called by its user *)

LEMMA RegisterInv ==
  ASSUME Inv, NEW a \in Aliases, NEW start \in BOOLEAN, NEW raises \in BOOLEAN,
         Register(a, start, raises)
  PROVE  Inv'
<1>1. /\ call' = call /\ call = Idle /\ UNCHANGED <<frames, info, gone>>
      /\ a \notin ToSet(registry)
  BY DEF Register, UserTurn, Free
<1>2. PICK on \in IF start THEN After("start", raises) ELSE {FALSE} : alive' = SetAlive(a, on)
  BY DEF Register
<1>3. (on => start) /\ on \in BOOLEAN /\ (raises => start)
  BY <1>2 DEF After, Register
<1>4. /\ alive \subseteq Aliases /\ current \subseteq Aliases /\ faulty \subseteq Aliases
      /\ registry \in Seq(Aliases) /\ Once(registry)
  BY Types DEF Inv
<1>5. /\ alive' \subseteq Aliases /\ alive' \subseteq alive \cup {a}
      /\ a \notin alive' \/ on
  BY <1>2, <1>3, <1>4 DEF SetAlive
<1>6. /\ current' \subseteq Aliases /\ faulty' \subseteq Aliases
      /\ faulty' = IF raises THEN faulty \cup {a} ELSE faulty \ {a}
  BY <1>4 DEF Register
<1>7. /\ registry' \in Seq(Aliases) /\ Once(registry')
      /\ ToSet(registry') = IF raises THEN ToSet(registry) ELSE ToSet(registry) \cup {a}
  <2>1. CASE raises
    BY <1>4, <2>1 DEF Register
  <2>2. CASE ~raises
    <3>1. registry' = Append(registry, a)
      BY <2>2 DEF Register
    <3>2. \A i \in DOMAIN registry : registry[i] # a
      BY <1>1 DEF ToSet
    <3> QED  BY <1>4, <2>2, <3>1, <3>2, AppendSet DEF Once
  <2> QED  BY <2>1, <2>2
<1>8. TypeOK'
  <2>1. call' \in LoopType /\ frames' \in Seq(FrameType)
    BY <1>1, Types DEF Inv
  <2> QED  BY <1>1, <1>5, <1>6, <1>7, <2>1, KeepsTypes DEF Inv
<1>9. Accounted'
  BY <1>1, <1>5, <1>6, <1>7, IdleFields DEF Inv, Accounted
<1>10. Remembered' /\ CacheDisabled'
  BY <1>1, IdleFields, KeepsRemembered, KeepsCache DEF info
<1> QED  BY <1>1, <1>8, <1>9, <1>10, IdleParts DEF Inv

LEMMA UnregisterInv ==
  ASSUME Inv, NEW a \in Aliases, NEW raises \in BOOLEAN, Unregister(a, raises)
  PROVE  Inv'
<1>1. call' = call /\ call = Idle /\ UNCHANGED <<frames, info, gone>> /\ TakeOut(a, raises)
  BY DEF Unregister, UserTurn
<1>2. TypeOK'
  <2>1. call' \in LoopType /\ frames' \in Seq(FrameType)
    BY <1>1, Types DEF Inv
  <2> QED  BY <1>1, <2>1, TakenOut, KeepsTypes DEF Inv
<1>3. Accounted'
  BY <1>1, TakenOut, IdleFields DEF Inv, Accounted
<1>4. Remembered' /\ CacheDisabled'
  BY <1>1, IdleFields, KeepsRemembered, KeepsCache DEF info
<1> QED  BY <1>1, <1>2, <1>3, <1>4, IdleParts DEF Inv

(* A loop begins that is not the first of a context. *)
LEMMA CalledInv ==
  ASSUME Inv, UserTurn, NEW op \in Swallowing \cup Strict,
         NEW by \in {"user", "leave", "destroy"}, NEW todo \in Seq(Aliases),
         call' = Loop(op, by, todo), UNCHANGED <<services, frames, reader, nested, gone>>,
         cache' \in Values, late' \in BOOLEAN, rebooting' \in BOOLEAN,
         op \in {"stop_all", "pause_all"} => ToSet(registry) \subseteq ToSet(todo),
         op \in {"start_all", "resume_all"} => ToSet(todo) \subseteq ToSet(registry),
         by = "destroy" => op = "stop_all", op \in Strict <=> by = "leave",
         by = "leave" =>
           /\ frames # <<>>
           /\ op = IF Innermost.op = "reboot" THEN "start_services" ELSE "resume_services"
           /\ ToSet(Innermost.live) \subseteq ToSet(todo),
         CacheDisabled'
  PROVE  Inv'
<1>1. call = Idle /\ gone = FALSE
  BY DEF UserTurn, Inv, TypeOK
<1>2. /\ call' \in LoopType /\ call'.op = op /\ call'.by = by /\ call'.todo = todo
      /\ op = "start_services" => call'.spared = Running
      /\ op # "start_services" => call'.spared = {}
  BY LoopFields DEF Inv
<1>3. TypeOK'
  BY <1>2 DEF Inv, TypeOK, services
<1>4. StopsOthers'
  BY <1>2 DEF StopsOthers, Running, services
<1>5. LoopOfContext'
  BY <1>1, <1>2 DEF LoopOfContext, Innermost, Swallowing, Strict
<1>6. Accounted'
  BY <1>2 DEF Inv, Accounted, services
<1>7. Remembered'
  BY <1>1, <1>2, IdleFields, KeepsRemembered DEF Swallowing, Strict
<1>8. Restoring'
  <2>1. by = "leave" => Innermost.before \subseteq ToSet(Innermost.live)
    <3>1. frames # <<>> => Len(frames) \in DOMAIN frames
      BY Types, FrontOf DEF Inv
    <3> QED  BY <1>1, <3>1, IdleFields DEF Inv, Remembered, Innermost
  <2> QED  BY <1>2, <2>1 DEF Restoring, Running, Innermost, services
<1> QED  BY <1>3, <1>4, <1>5, <1>6, <1>7, <1>8 DEF Inv

LEMMA CallAllInv == ASSUME Inv, NEW op \in Swallowing, CallAll(op) PROVE Inv'
<1> DEFINE todo == IF op \in {"stop_all", "pause_all"} THEN Reverse(registry) ELSE registry
<1>1. todo \in Seq(Aliases) /\ ToSet(todo) = ToSet(registry)
  BY Types, ReverseSet DEF Inv
<1>2. /\ UserTurn /\ call' = Loop(op, "user", todo)
      /\ UNCHANGED <<services, frames, info, gone>>
  BY DEF CallAll
<1>3. CacheDisabled'
  BY <1>2, UserFields, KeepsCache DEF info
<1>4. cache' \in Values /\ late' \in BOOLEAN /\ rebooting' \in BOOLEAN
  BY <1>2 DEF Inv, TypeOK, info
<1> HIDE DEF todo
<1> QED  BY <1>1, <1>2, <1>3, <1>4, CalledInv DEF Swallowing, Strict, info

LEMMA DestroyInv == ASSUME Inv, Destroy PROVE Inv'
<1>1. Reverse(registry) \in Seq(Aliases) /\ ToSet(Reverse(registry)) = ToSet(registry)
  BY Types, ReverseSet DEF Inv
<1>2. /\ UserTurn /\ call' = Loop("stop_all", "destroy", Reverse(registry))
      /\ UNCHANGED <<services, frames, info, gone>>
  BY DEF Destroy
<1>3. CacheDisabled'
  BY <1>2, UserFields, KeepsCache DEF info
<1>4. cache' \in Values /\ late' \in BOOLEAN /\ rebooting' \in BOOLEAN
  BY <1>2 DEF Inv, TypeOK, info
<1> QED  BY <1>1, <1>2, <1>3, <1>4, CalledInv DEF Swallowing, Strict, info

(* The innermost context. *)
LEMMA InnermostType ==
  ASSUME Inv, frames # <<>>
  PROVE  /\ Innermost \in FrameType /\ Innermost.live \in Seq(Aliases)
         /\ Innermost.op \in {"reboot", "usb"} /\ Len(frames) \in DOMAIN frames
         /\ Innermost.before \subseteq Aliases
<1>1. frames \in Seq(FrameType) /\ Len(frames) \in DOMAIN frames
  BY Types, FrontOf DEF Inv
<1>2. Innermost \in FrameType
  BY <1>1 DEF Innermost
<1> QED  BY <1>1, <1>2 DEF FrameType

LEMMA LeaveUsbInv == ASSUME Inv, LeaveUsb PROVE Inv'
<1>1. /\ UserTurn /\ frames # <<>> /\ Innermost.op = "usb"
      /\ call' = Loop("resume_services", "leave", Innermost.live)
      /\ UNCHANGED <<services, frames, info, gone>>
  BY DEF LeaveUsb
<1>2. CacheDisabled'
  BY <1>1, UserFields, KeepsCache DEF info
<1>3. cache' \in Values /\ late' \in BOOLEAN /\ rebooting' \in BOOLEAN
  BY <1>1 DEF Inv, TypeOK, info
<1> QED  BY <1>1, <1>2, <1>3, InnermostType, CalledInv DEF Strict, info

LEMMA BootCompletesInv ==
  ASSUME Inv, NEW raises \in BOOLEAN, NEW read \in BOOLEAN, BootCompletes(raises, read)
  PROVE  Inv'
<1>1. /\ UserTurn /\ frames # <<>> /\ Innermost.op = "reboot"
      /\ cache' \in {"new", "none"} /\ rebooting' = FALSE /\ late' = FALSE
      /\ UNCHANGED <<services, reader, nested, gone>>
  BY DEF BootCompletes, Invalidated
<1>2. cache' \in Values /\ late' \in BOOLEAN /\ rebooting' \in BOOLEAN
  BY <1>1 DEF Values
<1>3. CASE raises
  <2>1. frames' = Front(frames) /\ call' = Idle
    BY <1>3 DEF BootCompletes
  <2>2. \A i \in DOMAIN frames' : /\ i \in DOMAIN frames /\ i # Len(frames)
                                  /\ frames'[i] = frames[i]
    BY <1>1, <2>1, Types, FrontOf DEF Inv
  <2>3. CacheDisabled'
    BY <1>1, <2>2, InnermostType DEF Inv, CacheDisabled, Innermost
  <2>4. TypeOK'
    <3>1. frames' \in Seq(FrameType) /\ call' \in LoopType
      BY <1>1, <2>1, Types, FrontOf, IdleFields DEF Inv
    <3> QED  BY <1>1, <1>2, <3>1 DEF Inv, TypeOK, FrameType, services
  <2>5. Accounted'
    BY <1>1, <2>1, IdleFields DEF Inv, Accounted, services
  <2>6. Remembered'
    BY <1>1, <2>1, IdleFields, FrontRemembered
  <2> QED  BY <2>1, <2>3, <2>4, <2>5, <2>6, IdleParts DEF Inv
<1>4. CASE ~raises
  <2>1. frames' = frames /\ call' = Loop("start_services", "leave", Innermost.live)
    BY <1>4 DEF BootCompletes
  <2>2. call'.by = "leave"
    BY <2>1 DEF Loop
  <2>3. CacheDisabled'
    BY <1>1, <2>1, <2>2, InnermostType DEF Inv, CacheDisabled, Innermost
  <2> QED  BY <1>1, <1>2, <2>1, <2>3, InnermostType, CalledInv DEF Strict
<1> QED  BY <1>3, <1>4

-----------------------------------------------------------------------------
(* The steps of a loop *)

(* The fields of the loop at its next service. *)
LEMMA NextFields ==
  ASSUME Inv, call.todo # <<>>
  PROVE  /\ Head(call.todo) \in Aliases /\ Tail(call.todo) \in Seq(Aliases)
         /\ ToSet(call.todo) = {Head(call.todo)} \cup ToSet(Tail(call.todo))
         /\ [call EXCEPT !.todo = Tail(@)] \in LoopType
         /\ [call EXCEPT !.todo = Tail(@)].op = call.op
         /\ [call EXCEPT !.todo = Tail(@)].by = call.by
         /\ [call EXCEPT !.todo = Tail(@)].todo = Tail(call.todo)
         /\ [call EXCEPT !.todo = Tail(@)].spared = call.spared
<1>1. /\ Head(call.todo) \in Aliases /\ Tail(call.todo) \in Seq(Aliases)
      /\ ToSet(call.todo) = {Head(call.todo)} \cup ToSet(Tail(call.todo))
      /\ call \in LoopType
  BY Types, TailSet DEF Inv
<1> QED  BY <1>1 DEF LoopType

(* A loop goes on. *)
LEMMA GoesOn ==
  ASSUME Inv, call.op # "list_live", call'.op = call.op, call'.by = call.by,
         UNCHANGED <<frames, info, gone>>
  PROVE  Remembered' /\ CacheDisabled' /\ (call # Idle => LoopOfContext')
<1>1. Remembered' /\ CacheDisabled'
  BY KeepsRemembered, KeepsCache DEF info
<1>2. ASSUME call # Idle PROVE LoopOfContext'
  BY <1>2 DEF Inv, LoopOfContext, Innermost
<1> QED  BY <1>1, <1>2

LEMMA TolerateInv == ASSUME Inv, NEW raises \in BOOLEAN, Tolerate(raises) PROVE Inv'
<1> DEFINE a == Head(call.todo)
           spared == IF raises /\ Method(call.op) # "start"
                     THEN call.spared \cup {a} ELSE call.spared
<1>1. /\ call.op \in {"start_all", "stop_all", "pause_all", "resume_all"}
      /\ call.todo # <<>> /\ UNCHANGED <<registry, frames, info, gone>>
      /\ call' = [call EXCEPT !.todo = Tail(call.todo), !.spared = spared]
      /\ \/ Needs(call.op, a) /\ Invoke(a, Method(call.op), raises)
         \/ ~Needs(call.op, a) /\ ~raises /\ NotInvoked
  BY DEF Tolerate, NextTodo, Swallowing
<1>2. /\ a \in Aliases /\ Tail(call.todo) \in Seq(Aliases) /\ call \in LoopType
      /\ ToSet(call.todo) = {a} \cup ToSet(Tail(call.todo))
      /\ call.spared \subseteq Aliases
  BY <1>1, NextFields, Types DEF Inv
<1>3. Method(call.op) \in {"start", "stop", "pause", "resume"}
  BY <1>1 DEF Method
<1>4. spared \subseteq Aliases
  BY <1>2
<1> HIDE DEF spared
<1>5. /\ call' \in LoopType /\ call'.op = call.op /\ call'.by = call.by
      /\ call'.todo = Tail(call.todo) /\ call'.spared = spared
  BY <1>1, <1>2, <1>4 DEF LoopType
<1> HIDE DEF a
<1>6. /\ alive' \subseteq Aliases /\ current' \subseteq Aliases /\ faulty' \subseteq Aliases
      /\ raises => faulty' = faulty \cup {a}
      /\ ~raises => faulty' = faulty
      /\ alive' \subseteq alive \cup {a}
  BY <1>1, <1>2, <1>3, Invoked, Types DEF Inv, NotInvoked
<1>7. TypeOK'
  <2>1. registry' \in Seq(Aliases) /\ Once(registry') /\ frames' \in Seq(FrameType)
    BY <1>1, Types DEF Inv
  <2> QED  BY <1>1, <1>5, <1>6, <2>1, KeepsTypes DEF Inv
<1>8. call.op \in {"stop_all", "pause_all"} =>
        Method(call.op) # "start" /\ (~raises => a \notin alive')
  <2>1. CASE call.op = "stop_all"
    BY <1>1, <1>2, <2>1, Invoked DEF Inv, Needs, Method, NotInvoked
  <2>2. CASE call.op = "pause_all"
    BY <1>1, <1>2, <2>2, Invoked DEF Inv, Needs, Method, NotInvoked
  <2> QED  BY <2>1, <2>2
<1>9. StopsOthers'
  BY <1>1, <1>2, <1>5, <1>6, <1>8 DEF Inv, StopsOthers, Running, spared
<1>10. Accounted'
  <2>1. alive' \subseteq ToSet(registry) \cup faulty'
    <3>1. a \in alive' => a \in ToSet(registry) \cup faulty'
      <4>1. CASE raises
        BY <1>6, <4>1
      <4>2. CASE ~raises /\ call.op \in {"stop_all", "pause_all"}
        BY <1>8, <4>2
      <4>3. CASE call.op \in {"start_all", "resume_all"}
        BY <1>2, <4>3 DEF Inv, Accounted
      <4> QED  BY <1>1, <4>1, <4>2, <4>3
    <3> QED  BY <1>6, <3>1 DEF Inv, Accounted
  <2>2. call.op \in {"stop_all", "pause_all"} => spared \subseteq faulty'
    BY <1>6 DEF Inv, Accounted, spared
  <2>3. call.op \in {"start_all", "resume_all"} =>
          ToSet(Tail(call.todo)) \subseteq ToSet(registry)
    BY <1>2 DEF Inv, Accounted
  <2> QED  BY <1>1, <1>5, <2>1, <2>2, <2>3 DEF Accounted
<1>11. Remembered' /\ CacheDisabled' /\ LoopOfContext'
  BY <1>1, <1>5, GoesOn, IdleFields
<1>12. Restoring'
  BY <1>1, <1>5 DEF Inv, LoopOfContext, Restoring
<1> QED  BY <1>7, <1>9, <1>10, <1>11, <1>12 DEF Inv

LEMMA UnregisterNextInv ==
  ASSUME Inv, NEW raises \in BOOLEAN, UnregisterNext(raises) PROVE Inv'
<1>1. /\ call.op = "unregister_all" /\ call.todo # <<>> /\ UNCHANGED <<frames, info, gone>>
      /\ TakeOut(Head(call.todo), raises)
      /\ call' = [call EXCEPT !.todo = Tail(@)]
  BY DEF UnregisterNext
<1>2. call' \in LoopType /\ call'.op = call.op /\ call'.by = call.by
  BY <1>1, NextFields
<1>3. TypeOK'
  <2>1. frames' \in Seq(FrameType)
    BY <1>1, Types DEF Inv
  <2> QED  BY <1>1, <1>2, <2>1, TakenOut, KeepsTypes DEF Inv
<1>4. Accounted'
  BY <1>1, <1>2, TakenOut DEF Inv, Accounted
<1>5. Remembered' /\ CacheDisabled' /\ LoopOfContext'
  BY <1>1, <1>2, GoesOn, IdleFields
<1>6. StopsOthers' /\ Restoring'
  BY <1>1, <1>2 DEF Inv, LoopOfContext, StopsOthers, Restoring
<1> QED  BY <1>3, <1>4, <1>5, <1>6 DEF Inv

LEMMA ListNextInv == ASSUME Inv, ListNext PROVE Inv'
<1> DEFINE a == Head(call.todo)
           n == Len(frames)
           live == WithLive(frames[n].live, a)
<1>1. /\ call.op = "list_live" /\ call.by = "enter" /\ call.todo # <<>> /\ frames # <<>>
      /\ UNCHANGED <<services, info, gone>>
      /\ call' = [call EXCEPT !.todo = Tail(@)]
      /\ frames' = [frames EXCEPT ![n].live = live]
  BY DEF ListNext, Inv, LoopOfContext
<1>2. /\ call' \in LoopType /\ call'.op = call.op /\ call'.by = call.by
      /\ call'.todo = Tail(call.todo) /\ call'.spared = call.spared
      /\ a \in Aliases /\ ToSet(call.todo) = {a} \cup ToSet(Tail(call.todo))
  BY <1>1, NextFields
<1>3. /\ frames \in Seq(FrameType) /\ n \in DOMAIN frames /\ frames[n] \in FrameType
      /\ frames[n].live \in Seq(Aliases)
  BY <1>1, Types, InnermostType DEF Inv, Innermost
<1>4. /\ live \in Seq(Aliases) /\ ToSet(frames[n].live) \subseteq ToSet(live)
      /\ a \in alive => a \in ToSet(live)
  <2>1. CASE a \in alive
    BY <1>2, <1>3, <2>1, AppendSet DEF WithLive
  <2>2. CASE a \notin alive
    BY <1>3, <2>2 DEF WithLive
  <2> QED  BY <2>1, <2>2
<1> HIDE DEF live, a
<1>5. /\ frames' \in Seq(FrameType) /\ DOMAIN frames' = DOMAIN frames /\ Len(frames') = n
      /\ \A i \in DOMAIN frames : i # n => frames'[i] = frames[i]
      /\ frames'[n].live = live /\ frames'[n].op = frames[n].op
      /\ frames'[n].before = frames[n].before
  <2> DEFINE f == [frames[n] EXCEPT !.live = live]
  <2>1. /\ f \in FrameType /\ f.live = live /\ f.op = frames[n].op
        /\ f.before = frames[n].before
    BY <1>3, <1>4 DEF FrameType
  <2>2. frames' = [frames EXCEPT ![n] = f]
    BY <1>1, <1>3
  <2> HIDE DEF f
  <2> QED  BY <1>3, <2>1, <2>2
<1>6. TypeOK'
  BY <1>1, <1>2, <1>5 DEF Inv, TypeOK, Once, FrameType, services, info
<1>7. StopsOthers' /\ LoopOfContext' /\ Restoring' /\ Accounted'
  <2>1. StopsOthers' /\ Restoring'
    BY <1>1, <1>2 DEF StopsOthers, Restoring
  <2>2. LoopOfContext'
    <3>1. frames' # <<>>
      BY <1>3, <1>5
    <3>2. gone' = FALSE
      BY <1>1, IdleFields DEF Inv, LoopOfContext, TypeOK
    <3> QED  BY <1>1, <1>2, <3>1, <3>2 DEF LoopOfContext, Strict
  <2>3. Accounted'
    BY <1>1, <1>2 DEF Inv, Accounted, services
  <2> QED  BY <2>1, <2>2, <2>3
<1>8. Remembered'
  <2> SUFFICES ASSUME NEW i \in DOMAIN frames' PROVE Remembered!(i)'
    BY DEF Remembered
  <2>1. CASE i = n
    <3>1. frames[n].before \subseteq alive /\
          frames[n].before \subseteq ToSet(frames[n].live) \cup ToSet(call.todo)
      BY <1>1, <1>3 DEF Inv, Remembered
    <3>2. frames[n].before \subseteq ToSet(live) \cup ToSet(Tail(call.todo))
      BY <1>2, <1>4, <3>1
    <3> QED  BY <1>1, <1>2, <1>5, <2>1, <3>1, <3>2 DEF services
  <2>2. CASE i # n
    BY <1>5, <2>2 DEF Inv, Remembered
  <2> QED  BY <2>1, <2>2
<1>9. CacheDisabled'
  BY <1>1, <1>2, <1>5, KeepsCache DEF info
<1> QED  BY <1>6, <1>7, <1>8, <1>9 DEF Inv

LEMMA ListedInv == ASSUME Inv, Listed PROVE Inv'
<1> DEFINE op == IF Innermost.op = "reboot" THEN "stop_all" ELSE "pause_all"
           todo == Reverse(registry)
<1>1. /\ call.op = "list_live" /\ call.by = "enter" /\ call.todo = <<>> /\ frames # <<>>
      /\ UNCHANGED <<services, frames, info, gone>>
      /\ call' = Loop(op, "enter", todo)
  BY DEF Listed, Inv, LoopOfContext
<1>2. todo \in Seq(Aliases) /\ ToSet(todo) = ToSet(registry)
  BY Types, ReverseSet DEF Inv
<1>3. op \in {"stop_all", "pause_all"}
  OBVIOUS
<1> HIDE DEF op, todo
<1>4. /\ call' \in LoopType /\ call'.op = op /\ call'.by = "enter" /\ call'.todo = todo
      /\ call'.spared = {}
  BY <1>1, <1>2, <1>3, LoopFields DEF Inv, Swallowing
<1>5. TypeOK'
  BY <1>1, <1>4 DEF Inv, TypeOK, services, info
<1>6. StopsOthers' /\ Accounted' /\ Restoring'
  BY <1>1, <1>2, <1>3, <1>4 DEF Inv, StopsOthers, Accounted, Restoring, Running, services
<1>7. LoopOfContext'
  <2>1. gone' = FALSE
    BY <1>1, IdleFields DEF Inv, LoopOfContext, TypeOK
  <2> QED  BY <1>1, <1>3, <1>4, <2>1 DEF LoopOfContext, Strict
<1>8. Remembered'
  BY <1>1, <1>3, <1>4, EmptySet DEF Inv, Remembered
<1>9. CacheDisabled'
  BY <1>1, <1>4, KeepsCache DEF info
<1> QED  BY <1>5, <1>6, <1>7, <1>8, <1>9 DEF Inv

LEMMA InsistInv == ASSUME Inv, Insist PROVE Inv'
<1> DEFINE a == Head(call.todo)
<1>1. /\ call.op \in Strict /\ call.by = "leave" /\ call.todo # <<>>
      /\ a \in ToSet(registry) /\ UNCHANGED <<registry, frames, info, gone>>
      /\ call' = [call EXCEPT !.todo = Tail(@)]
      /\ \/ Needs(call.op, a) /\ Invoke(a, Method(call.op), FALSE)
         \/ ~Needs(call.op, a) /\ NotInvoked
  BY DEF Insist, Inv, LoopOfContext
<1>2. /\ call' \in LoopType /\ call'.op = call.op /\ call'.by = call.by
      /\ call'.todo = Tail(call.todo) /\ call'.spared = call.spared
      /\ a \in Aliases /\ ToSet(call.todo) = {a} \cup ToSet(Tail(call.todo))
  BY <1>1, NextFields
<1> HIDE DEF a
<1>3. Method(call.op) \in {"start", "resume"}
  BY <1>1 DEF Method, Strict
<1>4. /\ alive' = alive \cup {a} /\ faulty' = faulty /\ current \subseteq current'
      /\ a \in alive \/ a \in current'
      /\ alive' \subseteq Aliases /\ current' \subseteq Aliases
  <2>1. CASE Invoke(a, Method(call.op), FALSE)
    BY <1>2, <1>3, <2>1, Invoked DEF Inv
  <2>2. CASE ~Needs(call.op, a) /\ NotInvoked
    BY <1>1, <1>3, <2>2, Types DEF Inv, Needs, NotInvoked
  <2> QED  BY <1>1, <2>1, <2>2
<1>5. TypeOK'
  <2>1. /\ registry' \in Seq(Aliases) /\ Once(registry') /\ frames' \in Seq(FrameType)
        /\ faulty' \subseteq Aliases
    BY <1>1, <1>4, Types DEF Inv
  <2> QED  BY <1>1, <1>2, <1>4, <2>1, KeepsTypes DEF Inv
<1>6. StopsOthers' /\ Accounted'
  BY <1>1, <1>2, <1>4 DEF Inv, StopsOthers, Accounted, Strict
<1>7. Remembered' /\ CacheDisabled' /\ LoopOfContext'
  BY <1>1, <1>2, GoesOn, IdleFields DEF Strict
<1>8. Restoring'
  BY <1>1, <1>2, <1>4 DEF Inv, Restoring, Running, Innermost
<1> QED  BY <1>5, <1>6, <1>7, <1>8 DEF Inv

LEMMA InsistRaisesInv == ASSUME Inv, InsistRaises PROVE Inv'
<1> DEFINE a == Head(call.todo)
<1>1. /\ call.op \in Strict /\ call.by = "leave" /\ call.todo # <<>> /\ frames # <<>>
      /\ UNCHANGED <<registry, info, gone>> /\ call' = Idle /\ frames' = Front(frames)
      /\ \/ NotInvoked
         \/ a \in ToSet(registry) /\ Invoke(a, Method(call.op), TRUE)
  BY DEF InsistRaises, Inv, LoopOfContext
<1>2. a \in Aliases
  BY <1>1, NextFields
<1> HIDE DEF a
<1>3. Method(call.op) \in {"start", "resume"}
  BY <1>1 DEF Method, Strict
<1>4. /\ alive' \subseteq Aliases /\ current' \subseteq Aliases /\ faulty' \subseteq Aliases
      /\ alive' \subseteq alive \cup {a} /\ faulty \subseteq faulty'
      /\ a \in alive' => a \in alive \/ a \in faulty'
  <2>1. CASE NotInvoked
    BY <2>1, Types DEF Inv, NotInvoked
  <2>2. CASE Invoke(a, Method(call.op), TRUE)
    BY <1>2, <1>3, <2>2, Invoked DEF Inv
  <2> QED  BY <1>1, <2>1, <2>2
<1>5. TypeOK'
  <2>1. /\ registry' \in Seq(Aliases) /\ Once(registry') /\ frames' \in Seq(FrameType)
        /\ call' \in LoopType
    BY <1>1, Types, FrontOf, IdleFields DEF Inv
  <2> QED  BY <1>1, <1>4, <2>1, KeepsTypes DEF Inv
<1>6. Accounted'
  BY <1>1, <1>4, IdleFields DEF Inv, Accounted
<1>7. Remembered' /\ CacheDisabled'
  BY <1>1, IdleFields, FrontRemembered, FrontCache DEF info
<1> QED  BY <1>1, <1>5, <1>6, <1>7, IdleParts DEF Inv

(* A loop has come to its end. *)
LEMMA LoopEndsInv ==
  ASSUME Inv, UserLoopEnds \/ BodyBegins \/ ContextEnds \/ Destroyed PROVE Inv'
<1>1. /\ call' = Idle /\ call.op # "list_live" /\ UNCHANGED <<services, cache, late, nested, reader>>
  BY DEF UserLoopEnds, BodyBegins, ContextEnds, Destroyed, LoopEnds, info
<1>2. Accounted'
  BY <1>1, IdleFields DEF Inv, Accounted, services
<1>3. CASE UserLoopEnds \/ Destroyed
  <2>1. /\ call.by \in {"user", "destroy"} /\ UNCHANGED <<frames, info>> /\ gone' \in BOOLEAN
    BY <1>3 DEF UserLoopEnds, Destroyed, Inv, TypeOK
  <2>2. Remembered' /\ CacheDisabled'
    BY <1>1, <2>1, IdleFields, KeepsRemembered, KeepsCache DEF info
  <2>3. TypeOK'
    BY <1>1, <2>1, IdleFields DEF Inv, TypeOK, services, info
  <2> QED  BY <1>1, <1>2, <2>2, <2>3, IdleParts DEF Inv
<1>4. CASE BodyBegins
  <2>1. /\ call.by = "enter" /\ UNCHANGED <<frames, gone>> /\ frames # <<>>
        /\ rebooting' = (rebooting \/ Innermost.op = "reboot")
    BY <1>4 DEF BodyBegins, Inv, LoopOfContext
  <2>2. Remembered'
    BY <1>1, <2>1, IdleFields, KeepsRemembered
  <2>3. TypeOK'
    <3>1. rebooting' \in BOOLEAN
      BY <2>1
    <3> QED  BY <1>1, <2>1, <3>1, IdleFields DEF Inv, TypeOK, services
  <2>4. CacheDisabled'
    BY <1>1, <2>1, IdleFields DEF Inv, CacheDisabled, Innermost
  <2> QED  BY <1>1, <1>2, <2>2, <2>3, <2>4, IdleParts DEF Inv
<1>5. CASE ContextEnds
  <2>1. /\ frames # <<>> /\ frames' = Front(frames) /\ UNCHANGED <<info, gone>>
    BY <1>5 DEF ContextEnds, Inv, LoopOfContext
  <2>2. Remembered' /\ CacheDisabled'
    BY <1>1, <2>1, IdleFields, FrontRemembered, FrontCache DEF info
  <2>3. TypeOK'
    <3>1. frames' \in Seq(FrameType) /\ call' \in LoopType
      BY <1>1, <2>1, Types, FrontOf, IdleFields DEF Inv
    <3> QED  BY <1>1, <2>1, <3>1 DEF Inv, TypeOK, FrameType, services, info
  <2> QED  BY <1>1, <1>2, <2>2, <2>3, IdleParts DEF Inv
<1> QED  BY <1>3, <1>4, <1>5

-----------------------------------------------------------------------------
(* The contexts, and build_info *)

LEMMA EnterInv == ASSUME Inv, EnterReboot \/ EnterUsb PROVE Inv'
<1>1. PICK op \in {"reboot", "usb"} :
        /\ frames' = Append(frames, Frame(op))
        /\ nested' = IF op = "reboot" THEN nested \/ Rebooting ELSE nested
  BY DEF EnterReboot, EnterUsb, info
<1>2. /\ UserTurn /\ call' = Loop("list_live", "enter", registry)
      /\ UNCHANGED <<services, rebooting, cache, reader, late, gone>>
  BY DEF EnterReboot, EnterUsb, info
<1>3. /\ call' \in LoopType /\ call'.op = "list_live" /\ call'.by = "enter"
      /\ call'.todo = registry /\ call'.spared = {}
  <2>1. TypeOK /\ registry \in Seq(Aliases)
    BY Types DEF Inv
  <2> QED  BY <1>2, <2>1, LoopFields
<1>4. /\ Frame(op) \in FrameType /\ Frame(op).op = op /\ Frame(op).before = Running
  <2>1. Running \subseteq Aliases
    BY Types DEF Inv, Running
  <2> QED  BY <2>1 DEF Frame, FrameType
<1> DEFINE n == Len(frames) + 1
<1>5. /\ frames' \in Seq(FrameType) /\ Len(frames') = n /\ frames' # <<>>
      /\ DOMAIN frames' = DOMAIN frames \cup {n} /\ n \notin DOMAIN frames
      /\ \A i \in DOMAIN frames : frames'[i] = frames[i]
      /\ frames'[n] = Frame(op)
  <2>1. frames \in Seq(FrameType)
    BY Types DEF Inv
  <2>2. Append(frames, Frame(op)) # <<>>
    BY <1>4, <2>1
  <2> QED  BY <1>1, <1>4, <2>1, <2>2, AppendSet
<1> HIDE DEF n
<1>6. call = Idle /\ gone = FALSE
  BY <1>2 DEF UserTurn, Inv, TypeOK
<1>7. TypeOK'
  <2>1. nested' \in BOOLEAN
    BY <1>1 DEF Inv, TypeOK
  <2> QED  BY <1>2, <1>3, <1>5, <2>1 DEF Inv, TypeOK, Once, FrameType, services
<1>8. StopsOthers' /\ LoopOfContext' /\ Restoring'
  BY <1>2, <1>3, <1>5, <1>6 DEF StopsOthers, LoopOfContext, Restoring, Strict
<1>9. Accounted'
  BY <1>2, <1>3 DEF Inv, Accounted, services
<1>10. Remembered'
  BY <1>2, <1>3, <1>4, <1>5, <1>6, IdleFields DEF Inv, Remembered, Running, services
<1>11. CacheDisabled'
  <2> SUFFICES ASSUME ~nested' PROVE
        /\ \A i, j \in DOMAIN frames' :
             frames'[i].op = "reboot" /\ frames'[j].op = "reboot" => i = j
        /\ \A i \in DOMAIN frames' :
             frames'[i].op = "reboot" /\ ~(i = Len(frames') /\ call'.by \in {"enter", "leave"})
             => rebooting'
        /\ cache' = "old" /\ ~late' => rebooting'
    BY DEF CacheDisabled
  <2>1. ~nested /\ (op = "reboot" => ~Rebooting)
    BY <1>1
  <2>2. /\ \A i, j \in DOMAIN frames :
             frames[i].op = "reboot" /\ frames[j].op = "reboot" => i = j
        /\ \A i \in DOMAIN frames : frames[i].op = "reboot" => rebooting
        /\ cache = "old" /\ ~late => rebooting
    BY <1>6, <2>1, IdleFields DEF Inv, CacheDisabled
  <2>3. op = "reboot" => \A i \in DOMAIN frames : frames[i].op # "reboot"
    BY <2>1 DEF Rebooting
  <2>4. \A i, j \in DOMAIN frames' :
          frames'[i].op = "reboot" /\ frames'[j].op = "reboot" => i = j
    BY <1>4, <1>5, <2>2, <2>3
  <2>5. \A i \in DOMAIN frames' :
          frames'[i].op = "reboot" /\ ~(i = Len(frames') /\ call'.by \in {"enter", "leave"})
          => rebooting'
    BY <1>2, <1>3, <1>5, <2>2
  <2> QED  BY <1>2, <2>2, <2>4, <2>5
<1> QED  BY <1>7, <1>8, <1>9, <1>10, <1>11 DEF Inv

LEMMA RebootInv == ASSUME Inv, Reboot PROVE Inv'
<1>1. /\ UserTurn /\ frames # <<>> /\ Innermost.op = "reboot" /\ current' = {}
      /\ cache' = Aged(cache)
      /\ reader' = [t \in Readers |-> [reader[t] EXCEPT !.got = Aged(@)]]
      /\ UNCHANGED <<registry, alive, faulty, call, frames, rebooting, nested, late, gone>>
  BY DEF Reboot
<1>2. TypeOK'
  <2>1. \A v \in Values : Aged(v) \in Values
    BY DEF Aged, Values
  <2>2. \A t \in Readers : reader[t] \in [pc : {"idle", "fetch", "store"}, got : Values]
    BY DEF Inv, TypeOK
  <2>3. ASSUME NEW t \in Readers
        PROVE  reader'[t] \in [pc : {"idle", "fetch", "store"}, got : Values]
    <3> DEFINE v == Aged(reader[t].got)
    <3>1. v \in Values
      BY <2>1, <2>2
    <3>2. reader'[t] = [reader[t] EXCEPT !.got = v]
      BY <1>1
    <3> HIDE DEF v
    <3> QED  BY <2>2, <3>1, <3>2
  <2>4. reader' \in [Readers -> [pc : {"idle", "fetch", "store"}, got : Values]]
    <3>1. reader' = [t \in Readers |-> reader'[t]]
      BY <1>1
    <3> QED  BY <2>3, <3>1
  <2>5. cache' \in Values
    BY <1>1, <2>1 DEF Inv, TypeOK
  <2> QED  BY <1>1, <2>4, <2>5 DEF Inv, TypeOK
<1>3. Accounted' /\ Remembered'
  BY <1>1, UserFields, KeepsRemembered DEF Inv, Accounted
<1>4. CacheDisabled'
  <2>1. ~nested => rebooting
    BY <1>1, UserFields, InnermostType DEF Inv, CacheDisabled, Innermost
  <2> QED  BY <1>1, <2>1 DEF Inv, CacheDisabled
<1> QED  BY <1>1, <1>2, <1>3, <1>4, UserFields, IdleParts DEF Inv

LEMMA BootTimesOutInv == ASSUME Inv, BootTimesOut PROVE Inv'
<1>1. /\ UserTurn /\ frames # <<>> /\ frames' = Front(frames)
      /\ UNCHANGED <<services, call, info, gone>> /\ call' = Idle
  BY DEF BootTimesOut, UserTurn
<1>2. TypeOK'
  <2>1. frames' \in Seq(FrameType)
    BY <1>1, Types, FrontOf DEF Inv
  <2> QED  BY <1>1, <2>1 DEF Inv, TypeOK, FrameType, services, info
<1>3. Accounted' /\ Remembered' /\ CacheDisabled'
  BY <1>1, IdleFields, FrontRemembered, FrontCache DEF Inv, Accounted, services, info
<1> QED  BY <1>1, <1>2, <1>3, IdleParts DEF Inv

(* Steps that change the cache and its readers only. *)
LEMMA ReadInv ==
  ASSUME Inv, UNCHANGED <<services, call, frames, rebooting, nested, gone>>,
         cache' \in Values, late' \in BOOLEAN,
         reader' \in [Readers -> [pc : {"idle", "fetch", "store"}, got : Values]],
         cache' = "old" /\ ~late' => cache = "old" /\ ~late
  PROVE  Inv'
<1>1. TypeOK'
  BY DEF Inv, TypeOK, services
<1>2. CacheDisabled'
  BY KeepsCache
<1> QED
  BY <1>1, <1>2
  DEF Inv, StopsOthers, LoopOfContext, Accounted, Remembered, Restoring, Running, Innermost,
      services

LEMMA ReaderInv ==
  ASSUME Inv,
         ReadHere \/ \E t \in Readers : ReadMisses(t) \/ ReadFetches(t) \/ ReadStores(t)
  PROVE  Inv'
<1>1. /\ cache \in Values /\ late \in BOOLEAN
      /\ reader \in [Readers -> [pc : {"idle", "fetch", "store"}, got : Values]]
  BY DEF Inv, TypeOK
<1>2. CASE ReadHere
  BY <1>1, <1>2, ReadInv DEF ReadHere, Values
<1>3. ASSUME NEW t \in Readers, ReadMisses(t) PROVE Inv'
  <2>1. reader' \in [Readers -> [pc : {"idle", "fetch", "store"}, got : Values]]
    BY <1>1, <1>3 DEF ReadMisses
  <2> QED  BY <1>1, <1>3, <2>1, ReadInv DEF ReadMisses
<1>4. ASSUME NEW t \in Readers, ReadFetches(t) PROVE Inv'
  <2>1. reader' \in [Readers -> [pc : {"idle", "fetch", "store"}, got : Values]]
    BY <1>1, <1>4 DEF ReadFetches, Values
  <2> QED  BY <1>1, <1>4, <2>1, ReadInv DEF ReadFetches
<1>5. ASSUME NEW t \in Readers, ReadStores(t) PROVE Inv'
  <2>1. reader' \in [Readers -> [pc : {"idle", "fetch", "store"}, got : Values]]
    BY <1>1, <1>5 DEF ReadStores, Values
  <2>2. cache' \in Values /\ late' \in BOOLEAN /\ (cache' = "old" => late')
    BY <1>1, <1>5 DEF ReadStores
  <2> QED  BY <1>5, <2>1, <2>2, ReadInv DEF ReadStores
<1> QED  BY <1>2, <1>3, <1>4, <1>5

LEMMA NextInv == Inv /\ [Next]_vars => Inv'
<1> SUFFICES ASSUME Inv, [Next]_vars PROVE Inv'
  OBVIOUS
<1>1. ASSUME NEW a \in Aliases, NEW start \in BOOLEAN, NEW raises \in BOOLEAN,
             Register(a, start, raises) \/ Unregister(a, raises)
      PROVE  Inv'
  BY <1>1, RegisterInv, UnregisterInv
<1>2. ASSUME NEW op \in Swallowing, CallAll(op) PROVE Inv'
  BY <1>2, CallAllInv
<1>3. ASSUME NEW raises \in BOOLEAN, Tolerate(raises) \/ UnregisterNext(raises) PROVE Inv'
  BY <1>3, TolerateInv, UnregisterNextInv
<1>4. CASE ListNext \/ Listed \/ Insist \/ InsistRaises
  BY <1>4, ListNextInv, ListedInv, InsistInv, InsistRaisesInv
<1>5. CASE UserLoopEnds \/ BodyBegins \/ ContextEnds \/ Destroyed
  BY <1>5, LoopEndsInv
<1>6. CASE EnterReboot \/ EnterUsb \/ Reboot \/ BootTimesOut
  BY <1>6, EnterInv, RebootInv, BootTimesOutInv
<1>7. ASSUME NEW raises \in BOOLEAN, NEW read \in BOOLEAN, BootCompletes(raises, read)
      PROVE  Inv'
  BY <1>7, BootCompletesInv
<1>8. CASE LeaveUsb \/ Destroy
  BY <1>8, LeaveUsbInv, DestroyInv
<1>9. CASE ReadHere \/ \E t \in Readers : ReadMisses(t) \/ ReadFetches(t) \/ ReadStores(t)
  BY <1>9, ReaderInv
<1>10. CASE UNCHANGED vars
  <2>1. UNCHANGED <<services, call, frames, info, gone>>
    BY <1>10 DEF vars
  <2> QED  BY <2>1, ReadInv DEF Inv, TypeOK, info
<1> QED
  BY <1>1, <1>2, <1>3, <1>4, <1>5, <1>6, <1>7, <1>8, <1>9, <1>10 DEF Next

-----------------------------------------------------------------------------
(* Every variable keeps a type its Python counterpart can have, and no alias  *)
(* is ever registered twice.                                                 *)
THEOREM TypeCorrect == Spec => []TypeOK
<1>1. Inv => TypeOK
  BY DEF Inv
<1> QED  BY <1>1, InitInv, NextInv, PTL DEF Spec

(* stop_all, pause_all: whichever services fail to stop or pause, every other *)
(* one is stopped or paused or has its turn still to come.                   *)
THEOREM OthersStopped == Spec => []StopsOthers
<1>1. Inv => StopsOthers
  BY DEF Inv
<1> QED  BY <1>1, InitInv, NextInv, PTL DEF Spec

(* build_info: where the cache is used it is not from before a reboot, however *)
(* reboots, timeouts and readers interleave, unless reboots are nested or a   *)
(* reader stored too late.                                                   *)
THEOREM CacheNotStale == Spec => []CacheFresh
<1>1. Inv => CacheFresh
  BY DEF Inv, CacheDisabled, CacheFresh
<1> QED  BY <1>1, InitInv, NextInv, PTL DEF Spec

LEMMA NextLeaves == Inv /\ NothingLeftRunning /\ [Next]_vars => NothingLeftRunning'
<1> SUFFICES ASSUME Inv, NothingLeftRunning, [Next]_vars, gone' PROVE NothingLeftRunning'
  BY DEF NothingLeftRunning
<1>1. CASE Destroyed
  <2>1. /\ call.op = "stop_all" /\ call.todo = <<>> /\ UNCHANGED services
    BY <1>1 DEF Destroyed, LoopEnds, Inv, LoopOfContext
  <2>2. Running \subseteq faulty
    BY <2>1, EmptySet DEF Inv, StopsOthers, Accounted
  <2>3. alive \subseteq faulty
    BY <2>2 DEF Inv, Accounted, Running
  <2> QED  BY <2>1, <2>3 DEF NothingLeftRunning, services
<1>2. CASE ~Destroyed
  <2>1. gone
    BY <1>2 DEF Next, vars, Register, Unregister, CallAll, Tolerate, UnregisterNext, ListNext,
                Listed, Insist, InsistRaises, UserLoopEnds, BodyBegins, ContextEnds,
                EnterReboot, EnterUsb, Reboot, BootCompletes, BootTimesOut, LeaveUsb, Destroy,
                ReadHere, ReadMisses, ReadFetches, ReadStores
  <2>2. call.op = "none" /\ ~UserTurn
    BY <2>1, IdleFields DEF Inv, LoopOfContext, UserTurn
  <2>3. UNCHANGED services
    BY <1>2, <2>2
    DEF Next, vars, Register, Unregister, CallAll, Tolerate, UnregisterNext, ListNext, Listed,
        Insist, InsistRaises, UserLoopEnds, BodyBegins, ContextEnds, LoopEnds,
        EnterReboot, EnterUsb, Reboot, BootCompletes, BootTimesOut, LeaveUsb, Destroy,
        ReadHere, ReadMisses, ReadFetches, ReadStores, Swallowing, Strict
  <2> QED  BY <2>1, <2>3 DEF NothingLeftRunning, services
<1> QED  BY <1>1, <1>2

(* unregister, unregister_all, stop_all, destroy: whatever was registered,     *)
(* taken out, started, stopped and failed before, after destroy no service   *)
(* runs but those that raised.                                               *)
THEOREM DestroyLeavesNothing == Spec => []NothingLeftRunning
<1>1. Init => NothingLeftRunning
  BY DEF Init, NothingLeftRunning
<1> QED  BY <1>1, InitInv, NextInv, NextLeaves, PTL DEF Spec

(* handle_reboot, handle_usb_disconnect: a context that ends without an        *)
(* exception has brought back every service it found, also when other         *)
(* contexts, services that fail and calls of the manager came in between.     *)
THEOREM ContextsRestore == Spec => ContextRestores
<1>1. ASSUME Inv, ContextEnds, NEW i \in DOMAIN frames, i = Len(frames),
             NEW a \in frames[i].before
      PROVE  /\ a \in Running
             /\ frames[i].op = "reboot" => a \in current \cup call.spared
  <2>1. call.by = "leave" /\ call.todo = <<>>
    BY <1>1 DEF ContextEnds, LoopEnds
  <2>2. a \in Running
    BY <1>1, <2>1, EmptySet DEF Inv, Restoring, Innermost
  <2>3. frames[i].op = "reboot" => call.op = "start_services"
    BY <1>1, <2>1 DEF Inv, LoopOfContext, Innermost
  <2> QED  BY <1>1, <2>1, <2>2, <2>3 DEF Inv, Restoring
<1>2. Inv /\ [Next]_vars =>
        [\A i \in DOMAIN frames : ContextEnds /\ i = Len(frames) =>
           \A a \in frames[i].before :
             /\ a \in Running
             /\ frames[i].op = "reboot" => a \in current \cup call.spared]_vars
  BY <1>1
<1> QED  BY <1>2, InitInv, NextInv, PTL DEF Spec, ContextRestores
=============================================================================

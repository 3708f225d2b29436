--------------------------- MODULE DevicesProofs ---------------------------
(***************************************************************************)
(* create and destroy leave no logcat process behind, and what create       *)
(* returns is served, for any devices, any configurations and any          *)
(* min_number.                                                             *)
(***************************************************************************)
EXTENDS Devices, FiniteSetTheorems, SequenceTheorems, TLAPS

Preparing == {"idle", "all", "adb", "fastboot", "construct", "load"}

DevicesType ==
  /\ ads \in Seq(Nat) /\ i \in Nat \ {0}
  /\ pc \in Preparing \cup {"start", "use", "destroy", "done"}

(* Processes belong to devices that were created; before any is started there *)
(* is none, and destroy has yet to come by each that it can kill.             *)
Owned ==
  /\ \A k \in alive : \E j \in 1..Len(ads) : ads[j] = k
  /\ pc \in Preparing => alive = {}
  /\ pc = "destroy" => \A k \in alive \ unkilled : \E j \in i..Len(ads) : ads[j] = k

Inv == DevicesType /\ Owned /\ NothingLeftBehind

-----------------------------------------------------------------------------
(* What a step does that starts and ends no process. *)
LEMMA QuietInv ==
  ASSUME Inv, UNCHANGED <<ads, alive, unkilled>>, i' \in Nat \ {0},
         \/ pc' = pc /\ (pc = "destroy" => i' = i)
         \/ pc \in Preparing /\ pc' \in Preparing \cup {"start", "done"}
         \/ pc \in {"start", "use"} /\ pc' = "use"
         \/ pc \in {"start", "use"} /\ pc' = "destroy" /\ i' = 1
  PROVE  Inv'
BY DEF Inv, DevicesType, Owned, NothingLeftBehind, Preparing

LEMMA InitInv == Init => Inv
<1> SUFFICES ASSUME Init PROVE Inv
  OBVIOUS
<1>1. /\ pc = "idle" /\ i = 1 /\ ads = <<>> /\ alive = {} /\ <<>> \in Seq(Nat)
  BY DEF Init
<1> QED  BY <1>1 DEF Inv, DevicesType, Owned, NothingLeftBehind, Preparing

(* A device is created. *)
LEMMA LoadInv == Inv /\ LoadConfig => Inv'
<1> SUFFICES ASSUME Inv, LoadConfig PROVE Inv'
  OBVIOUS
<1>1. /\ ads \in Seq(Nat) /\ i \in Nat \ {0} /\ alive = {} /\ alive' = {}
      /\ pc' = "construct" /\ ads' = Append(ads, i) /\ i' = i + 1
  BY DEF Inv, DevicesType, Owned, LoadConfig, Preparing
<1>2. ads' \in Seq(Nat)
  BY <1>1
<1> QED  BY <1>1, <1>2 DEF Inv, DevicesType, Owned, NothingLeftBehind, Preparing

(* The process of a device that was created may be started while the devices  *)
(* are started or in use, or create raises after it.                         *)
LEMMA StartedInv ==
  ASSUME Inv, NEW j \in 1..Len(ads),
         pc \in {"start", "use"},
         alive' \in {alive, alive \cup {ads[j]}},
         UNCHANGED <<ads, unkilled>>, i' \in Nat \ {0},
         pc' = pc \/ (pc' = "destroy" /\ i' = 1)
  PROVE  Inv'
BY DEF Inv, DevicesType, Owned, NothingLeftBehind, Preparing

LEMMA StartNextInv == Inv /\ StartNext => Inv'
<1> SUFFICES ASSUME Inv, StartNext PROVE Inv'
  OBVIOUS
<1>1. /\ i \in 1..Len(ads) /\ i' \in Nat \ {0} /\ pc = "start" /\ pc' = pc
      /\ UNCHANGED <<ads, unkilled>>
  BY DEF Inv, DevicesType, StartNext
<1>2. alive' \in {alive, alive \cup {ads[i]}}
  BY DEF StartNext, Skipped, Started
<1> QED  BY <1>1, <1>2, StartedInv

LEMMA StartRaisesInv == ASSUME NEW process \in BOOLEAN PROVE Inv /\ StartRaises(process) => Inv'
<1> SUFFICES ASSUME Inv, StartRaises(process) PROVE Inv'
  OBVIOUS
<1>1. /\ i \in 1..Len(ads) /\ i + 1 \in Nat \ {0} /\ pc = "start"
      /\ UNCHANGED <<ads, unkilled>>
  BY DEF Inv, DevicesType, StartRaises, history
<1>2. alive' \in {alive, alive \cup {ads[i]}}
  BY DEF StartRaises
<1>3. \/ pc' = "destroy" /\ i' = 1
      \/ pc' = pc /\ i' = i + 1
  BY DEF StartRaises, Abort, Tolerate
<1> QED  BY <1>1, <1>2, <1>3, StartedInv

LEMMA StartLogcatInv == ASSUME NEW k \in ToSet(ads) PROVE Inv /\ StartLogcat(k) => Inv'
<1> SUFFICES ASSUME Inv, StartLogcat(k) PROVE Inv'
  OBVIOUS
<1>1. PICK j \in 1..Len(ads) : ads[j] = k
  BY DEF ToSet, Inv, DevicesType
<1>2. /\ pc = "use" /\ pc' = pc /\ i' = i /\ i \in Nat \ {0}
      /\ UNCHANGED <<ads, unkilled>>
  BY DEF StartLogcat, Inv, DevicesType
<1>3. alive' \in {alive, alive \cup {ads[j]}}
  BY <1>1 DEF StartLogcat, Started
<1> QED  BY <1>2, <1>3, StartedInv

(* A process is killed, or given up. *)
LEMMA KilledOwned ==
  ASSUME NEW k, NEW kill \in BOOLEAN, Killed(k, kill)
  PROVE  alive' \ unkilled' = (alive \ unkilled) \ {k} /\ alive' \subseteq alive
BY DEF Killed

LEMMA StopLogcatInv ==
  ASSUME NEW k \in ToSet(ads), NEW kill \in BOOLEAN PROVE Inv /\ StopLogcat(k, kill) => Inv'
<1> SUFFICES ASSUME Inv, StopLogcat(k, kill) PROVE Inv'
  OBVIOUS
<1>1. /\ pc = "use" /\ pc' = "use" /\ i' = i /\ ads' = ads /\ Killed(k, kill)
  BY DEF StopLogcat, lists
<1> QED  BY <1>1, KilledOwned DEF Inv, DevicesType, Owned, NothingLeftBehind, Preparing

(* The loop of destroy comes by every device. *)
LEMMA DestroyNextInv ==
  ASSUME NEW kill \in BOOLEAN PROVE Inv /\ DestroyNext(kill) => Inv'
<1> SUFFICES ASSUME Inv, DestroyNext(kill) PROVE Inv'
  OBVIOUS
<1>1. /\ pc = "destroy" /\ pc' = "destroy" /\ i \in 1..Len(ads) /\ i' = i + 1
      /\ ads' = ads /\ ads \in Seq(Nat) /\ i' \in Nat \ {0}
  BY DEF DestroyNext, lists, Inv, DevicesType
<1>2. /\ alive' \subseteq alive
      /\ alive' \ unkilled' = (alive \ unkilled) \ {ads[i]}
  <2>1. CASE IsAlive(ads[i])
    BY <2>1, KilledOwned DEF DestroyNext
  <2>2. CASE ~IsAlive(ads[i])
    BY <2>2 DEF DestroyNext, IsAlive
  <2> QED  BY <2>1, <2>2
<1>3. ASSUME NEW k \in alive' \ unkilled' PROVE \E j \in i'..Len(ads') : ads'[j] = k
  <2>1. PICK j \in i..Len(ads) : ads[j] = k
    BY <1>1, <1>2, <1>3 DEF Inv, Owned
  <2>2. j # i
    BY <1>2, <1>3, <2>1
  <2> QED  BY <1>1, <2>1, <2>2
<1>4. \A k \in alive' : \E j \in 1..Len(ads') : ads'[j] = k
  BY <1>1, <1>2 DEF Inv, Owned
<1> QED  BY <1>1, <1>3, <1>4 DEF Inv, DevicesType, Owned, NothingLeftBehind, Preparing

LEMMA DestroyedInv == Inv /\ Destroyed => Inv'
<1> SUFFICES ASSUME Inv, Destroyed PROVE Inv'
  OBVIOUS
<1>1. /\ pc = "destroy" /\ pc' = "done" /\ i > Len(ads)
      /\ ads \in Seq(Nat) /\ i \in Nat
      /\ UNCHANGED <<ads, i, alive, unkilled>>
  BY DEF Destroyed, history, Inv, DevicesType
<1>2. alive \subseteq unkilled
  BY <1>1 DEF Inv, Owned
<1> QED  BY <1>1, <1>2 DEF Inv, DevicesType, Owned, NothingLeftBehind, Preparing

-----------------------------------------------------------------------------
LEMMA NextInv == Inv /\ [Next]_vars => Inv'
<1> SUFFICES ASSUME Inv, [Next]_vars PROVE Inv'
  OBVIOUS
<1>0. /\ i \in Nat \ {0} /\ i + 1 \in Nat \ {0} /\ 1 \in Nat \ {0}
      /\ pc \in Preparing \cup {"start", "use", "destroy", "done"}
  BY DEF Inv, DevicesType
<1>1. ASSUME NEW s \in Serials, NEW m \in Modes, DeviceMoves(s, m) PROVE Inv'
  BY <1>0, <1>1, QuietInv DEF DeviceMoves, history
<1>2. ASSUME NEW cs \in Configurations, Create(cs) PROVE Inv'
  BY <1>0, <1>2, QuietInv DEF Create, Raise, history, Preparing
<1>3. CASE PickAll \/ ListAll \/ ListAdb
  BY <1>0, <1>3, QuietInv DEF PickAll, ListAll, ListAdb, history, Preparing
<1>4. CASE ListFastboot \/ ListRaises
  BY <1>0, <1>4, QuietInv DEF ListFastboot, ListRaises, Raise, history, Preparing
<1>5. CASE Construct \/ ConstructRaises \/ StartServices
  BY <1>0, <1>5, QuietInv
  DEF Construct, ConstructRaises, StartServices, Raise, history, Preparing
<1>6. CASE LoadConfig
  BY <1>6, LoadInv
<1>7. CASE StartNext
  BY <1>7, StartNextInv
<1>8. ASSUME NEW process \in BOOLEAN, StartRaises(process) PROVE Inv'
  BY <1>8, StartRaisesInv
<1>9. CASE Registered
  BY <1>0, <1>9, QuietInv DEF Registered, Abort, history
<1>10. ASSUME NEW k \in ToSet(ads), StartLogcat(k) PROVE Inv'
  BY <1>10, StartLogcatInv
<1>11. ASSUME NEW k \in ToSet(ads), NEW kill \in BOOLEAN, StopLogcat(k, kill) PROVE Inv'
  BY <1>11, StopLogcatInv
<1>12. CASE Destroy
  BY <1>0, <1>12, QuietInv DEF Destroy, history
<1>13. ASSUME NEW kill \in BOOLEAN, DestroyNext(kill) PROVE Inv'
  BY <1>13, DestroyNextInv
<1>14. CASE Destroyed
  BY <1>14, DestroyedInv
<1>15. CASE UNCHANGED vars
  BY <1>0, <1>15, QuietInv DEF vars, history
<1> QED
  BY <1>1, <1>2, <1>3, <1>4, <1>5, <1>6, <1>7, <1>8, <1>9, <1>10, <1>11, <1>12, <1>13,
     <1>14, <1>15 DEF Next

(* _start_services_on_ads, register_controller and destroy: however create    *)
(* ended and whatever devices did, no adb logcat that could be killed is left *)
(* when the devices are destroyed or create has raised.                      *)
THEOREM CleansUpDevices == Spec => []NothingLeftBehind
<1>1. Inv => NothingLeftBehind
  BY DEF Inv
<1> QED  BY <1>1, InitInv, NextInv, PTL DEF Spec

-----------------------------------------------------------------------------
(* RequiredServed *)

Created(k) == \E j \in 1..Len(ads) : ads[j] = k

Served(k) == configs[k].skip_logcat \/ k \in alive \cup bootloader

(* The loop of get_instances_with_configs has left no required device out,    *)
(* and that of _start_services_on_ads has served the required ones it came by. *)
Progress ==
  /\ configs \in Seq(Config)
  /\ pc \in {"idle", "all", "adb", "fastboot"} => i = 1
  /\ pc \in {"construct", "load"} =>
       \A k \in 1..Len(configs) : k < i /\ configs[k].required => Created(k)
  /\ pc \in {"start", "use"} =>
       \A k \in 1..Len(configs) : configs[k].required => Created(k)
  /\ pc = "start" =>
       \A j \in 1..Len(ads) : j < i /\ configs[ads[j]].required => Served(ads[j])

(* The devices that adb lists are a configuration. *)
LEMMA ListedConfigs ==
  ASSUME NEW f, f = SetToSeq(Listed("adb"))
  PROVE  [k \in DOMAIN f |-> Plain(f[k])] \in Seq(Config)
<1> DEFINE S == Listed("adb")
<1>1. S \subseteq Serials /\ IsFiniteSet(S)
  BY FS_Subset, DevicesAssumption DEF Listed
<1>2. Cardinality(S) \in Nat
  BY <1>1, FS_CardinalityType
<1>3. \E g \in [1..Cardinality(S) -> S] : IsInjective(g)
  <2>1. ExistsBijection(1..Cardinality(S), S)
    BY <1>1, FS_CardinalityType
  <2> QED  BY <2>1 DEF ExistsBijection, Bijection, Injection, IsInjective
<1>4. f \in [1..Cardinality(S) -> S]
  BY <1>3 DEF SetToSeq
<1>5. \A k \in 1..Cardinality(S) : Plain(f[k]) \in Config
  BY <1>1, <1>4 DEF Plain, Config
<1>6. [k \in DOMAIN f |-> Plain(f[k])] \in [1..Cardinality(S) -> Config]
  BY <1>4, <1>5
<1> QED  BY <1>2, <1>6, SeqDef

LEMMA InitProgress == Init => Progress
<1> SUFFICES ASSUME Init PROVE Progress
  OBVIOUS
<1>1. pc = "idle" /\ i = 1 /\ configs = <<>> /\ <<>> \in Seq(Config)
  BY DEF Init
<1> QED  BY <1>1 DEF Progress

(* The configuration is made. *)
LEMMA ConfiguredProgress ==
  ASSUME Progress, pc \in {"idle", "all"}, configs' \in Seq(Config),
         pc' \in {"adb", "done"}, i' = i
  PROVE  Progress'
BY DEF Progress

(* Steps that neither create nor start a device. *)
LEMMA QuietProgress ==
  ASSUME Inv, Progress, UNCHANGED <<configs, ads, alive, bootloader>>,
         \/ pc' = pc /\ i' = i
         \/ /\ pc \in {"idle", "all", "adb", "fastboot"} /\ i' = i
            /\ pc' \in {"all", "adb", "fastboot", "construct", "done"}
         \/ pc = "construct" /\ pc' = "load" /\ i' = i
         \/ pc' \in {"destroy", "done"}
         \/ pc = "start" /\ pc' = "use"
  PROVE  Progress'
BY DEF Progress, Created, Served, Inv, DevicesType

LEMMA LoadProgress == Inv /\ Progress /\ LoadConfig => Progress'
<1> SUFFICES ASSUME Inv, Progress, LoadConfig PROVE Progress'
  OBVIOUS
<1>1. /\ pc = "load" /\ pc' = "construct" /\ i' = i + 1 /\ i \in Nat
      /\ configs' = configs /\ configs \in Seq(Config)
      /\ ads' = Append(ads, i) /\ ads \in Seq(Nat)
  BY DEF LoadConfig, lists, Inv, DevicesType, Progress
<1>2. /\ Len(ads') = Len(ads) + 1 /\ Len(ads) \in Nat /\ ads'[Len(ads) + 1] = i
      /\ \A j \in 1..Len(ads) : ads'[j] = ads[j]
  BY <1>1
<1>3. ASSUME NEW k \in 1..Len(configs), k < i + 1, configs[k].required
      PROVE  Created(k)'
  <2>1. CASE k = i
    BY <1>2, <2>1 DEF Created
  <2>2. CASE k # i
    BY <1>1, <1>2, <1>3, <2>2 DEF Created, Progress
  <2> QED  BY <2>1, <2>2
<1> QED  BY <1>1, <1>3 DEF Progress

(* An optional device is left out. *)
LEMMA ConstructRaisesProgress == Inv /\ Progress /\ ConstructRaises => Progress'
<1> SUFFICES ASSUME Inv, Progress, ConstructRaises PROVE Progress'
  OBVIOUS
<1>1. /\ UNCHANGED <<configs, ads, alive, bootloader>>
      /\ pc \in {"construct", "load"} /\ i \in Nat \ {0}
      /\ configs \in Seq(Config)
  BY DEF ConstructRaises, lists, history, Inv, DevicesType, Progress
<1>2. CASE pc' = "done"
  BY <1>1, <1>2, QuietProgress
<1>3. CASE ~configs[i].required /\ i' = i + 1 /\ pc' = "construct"
  <2>1. ASSUME NEW k \in 1..Len(configs), k < i + 1, configs[k].required
        PROVE  Created(k)'
    <3>1. k < i
      BY <1>1, <1>3, <2>1
    <3> QED  BY <1>1, <2>1, <3>1 DEF Progress, Created
  <2> QED  BY <1>1, <1>3, <2>1 DEF Progress
<1> QED  BY <1>2, <1>3 DEF ConstructRaises, Raise

LEMMA StartServicesProgress == Inv /\ Progress /\ StartServices => Progress'
<1> SUFFICES ASSUME Inv, Progress, StartServices PROVE Progress'
  OBVIOUS
<1>1. /\ UNCHANGED <<configs, ads, alive, bootloader>>
      /\ pc = "construct" /\ pc' = "start" /\ i \in Nat /\ i > Len(configs) /\ i' = 1
      /\ configs \in Seq(Config)
  BY DEF StartServices, lists, history, Inv, DevicesType, Progress
<1>2. \A k \in 1..Len(configs) : configs[k].required => Created(k)
  BY <1>1 DEF Progress
<1> QED  BY <1>1, <1>2 DEF Progress, Created

(* A device is served, or its failure tolerated because it is optional. *)
LEMMA ServedProgress ==
  ASSUME Inv, Progress, pc = "start", pc' = "start", i \in 1..Len(ads), i' = i + 1,
         UNCHANGED <<configs, ads>>,
         alive \subseteq alive', bootloader \subseteq bootloader',
         configs[ads[i]].required =>
           configs[ads[i]].skip_logcat \/ ads[i] \in alive' \cup bootloader'
  PROVE  Progress'
<1>1. configs \in Seq(Config) /\ i \in Nat /\ ads \in Seq(Nat)
  BY DEF Progress, Inv, DevicesType
<1>2. \A k \in 1..Len(configs) : configs[k].required => Created(k)'
  BY DEF Progress, Created
<1>3. ASSUME NEW j \in 1..Len(ads), j < i + 1, configs[ads[j]].required
      PROVE  Served(ads[j])'
  <2>1. CASE j = i
    BY <1>3, <2>1 DEF Served
  <2>2. CASE j < i
    BY <1>3, <2>2 DEF Progress, Served
  <2> QED  BY <1>1, <1>3, <2>1, <2>2
<1> QED  BY <1>1, <1>2, <1>3 DEF Progress

LEMMA StartNextProgress == Inv /\ Progress /\ StartNext => Progress'
<1> SUFFICES ASSUME Inv, Progress, StartNext PROVE Progress'
  OBVIOUS
<1>1. /\ pc = "start" /\ pc' = "start" /\ i \in 1..Len(ads) /\ i' = i + 1
      /\ UNCHANGED <<configs, ads>>
  BY DEF StartNext, lists, Inv, DevicesType
<1>2. /\ alive \subseteq alive' /\ bootloader \subseteq bootloader'
      /\ configs[ads[i]].skip_logcat \/ ads[i] \in alive' \cup bootloader'
  BY <1>1 DEF StartNext, Skipped, Started
<1> QED  BY <1>1, <1>2, ServedProgress

LEMMA StartRaisesProgress ==
  ASSUME NEW process \in BOOLEAN PROVE Inv /\ Progress /\ StartRaises(process) => Progress'
<1> SUFFICES ASSUME Inv, Progress, StartRaises(process) PROVE Progress'
  OBVIOUS
<1>1. /\ pc = "start" /\ i \in 1..Len(ads) /\ UNCHANGED <<configs, ads, bootloader>>
      /\ alive \subseteq alive'
  BY DEF StartRaises, lists, history, Inv, DevicesType
<1>2. CASE configs[ads[i]].required
  <2>1. pc' = "destroy" /\ configs \in Seq(Config)
    BY <1>2 DEF StartRaises, Abort, Progress
  <2> QED  BY <1>1, <2>1 DEF Progress
<1>3. CASE ~configs[ads[i]].required
  <2>1. pc' = "start" /\ i' = i + 1
    BY <1>1, <1>3 DEF StartRaises, Tolerate
  <2> QED  BY <1>1, <1>3, <2>1, ServedProgress
<1> QED  BY <1>2, <1>3

(* While the devices are in use, and when they are destroyed. *)
LEMMA UseProgress ==
  ASSUME Progress, pc \in {"use", "destroy"}, pc' = pc, UNCHANGED <<configs, ads>>
  PROVE  Progress'
BY DEF Progress, Created

LEMMA NextProgress == Inv /\ Progress /\ [Next]_vars => Progress'
<1> SUFFICES ASSUME Inv, Progress, [Next]_vars PROVE Progress'
  OBVIOUS
<1>1. ASSUME NEW s \in Serials, NEW m \in Modes, DeviceMoves(s, m) PROVE Progress'
  BY <1>1, QuietProgress DEF DeviceMoves, lists, history
<1>2. ASSUME NEW cs \in Configurations, Create(cs) PROVE Progress'
  <2>1. cs \in Seq(Config)
    BY DevicesAssumption
  <2> QED  BY <1>2, <2>1, ConfiguredProgress DEF Create, Raise
<1>3. CASE ListAll
  <2>1. configs' \in Seq(Config)
    BY <1>3, ListedConfigs DEF ListAll
  <2> QED  BY <1>3, <2>1, ConfiguredProgress DEF ListAll
<1>4. CASE PickAll \/ ListAdb \/ ListFastboot \/ ListRaises
  BY <1>4, QuietProgress
  DEF PickAll, ListAdb, ListFastboot, ListRaises, Raise, lists, history
<1>5. CASE Construct
  BY <1>5, QuietProgress DEF Construct, lists, history
<1>6. CASE LoadConfig
  BY <1>6, LoadProgress
<1>7. CASE ConstructRaises
  BY <1>7, ConstructRaisesProgress
<1>8. CASE StartServices
  BY <1>8, StartServicesProgress
<1>9. CASE StartNext
  BY <1>9, StartNextProgress
<1>10. ASSUME NEW process \in BOOLEAN, StartRaises(process) PROVE Progress'
  BY <1>10, StartRaisesProgress
<1>11. CASE Registered \/ Destroy \/ Destroyed
  BY <1>11, QuietProgress DEF Registered, Destroy, Destroyed, Abort, lists, history
<1>12. ASSUME NEW k \in ToSet(ads), StartLogcat(k) PROVE Progress'
  BY <1>12, UseProgress DEF StartLogcat, lists
<1>13. ASSUME NEW k \in ToSet(ads), NEW kill \in BOOLEAN, StopLogcat(k, kill) PROVE Progress'
  BY <1>13, UseProgress DEF StopLogcat, lists
<1>14. ASSUME NEW kill \in BOOLEAN, DestroyNext(kill) PROVE Progress'
  BY <1>14, UseProgress DEF DestroyNext, lists
<1>15. CASE UNCHANGED vars
  BY <1>15, QuietProgress DEF vars, lists, history
<1> QED
  BY <1>1, <1>2, <1>3, <1>4, <1>5, <1>6, <1>7, <1>8, <1>9, <1>10, <1>11, <1>12, <1>13,
     <1>14, <1>15 DEF Next

(* Only register_controller returns. *)
LEMMA ReturnsServed ==
  ASSUME Inv, Progress, [Next]_vars, result' = "returned", result # "returned",
         NEW k \in DOMAIN configs, configs[k].required
  PROVE  k \in ToSet(ads) /\ (configs[k].skip_logcat \/ k \in alive \cup bootloader)
<1>1. Registered
  BY DEF Next, vars, DeviceMoves, Create, PickAll, ListAll, ListAdb, ListFastboot,
         ListRaises, Raise, Construct, LoadConfig, ConstructRaises, StartServices,
         StartNext, StartRaises, Abort, Tolerate, StartLogcat, StopLogcat, Destroy,
         DestroyNext, Destroyed
<1>2. /\ pc = "start" /\ i > Len(ads) /\ i \in Nat /\ ads \in Seq(Nat)
      /\ configs \in Seq(Config) /\ k \in 1..Len(configs)
  BY <1>1 DEF Registered, Inv, DevicesType, Progress
<1>3. PICK j \in 1..Len(ads) : ads[j] = k
  BY <1>2 DEF Progress, Created
<1>4. Served(k)
  BY <1>2, <1>3 DEF Progress
<1> QED  BY <1>2, <1>3, <1>4 DEF Served, ToSet

(* create and register_controller: when they return, each required device is  *)
(* there and its logcat runs, unless it was not asked for or the device was in *)
(* its bootloader, whatever optional devices did before and after it.        *)
THEOREM ReturnsRequired == Spec => RequiredServed
<1>1. Inv /\ Progress /\ [Next]_vars =>
        [result' = "returned" /\ result # "returned" =>
           \A k \in DOMAIN configs : configs[k].required =>
             /\ k \in ToSet(ads)
             /\ configs[k].skip_logcat \/ k \in alive \cup bootloader]_vars
  BY ReturnsServed
<1>2. Init => Inv /\ Progress
  BY InitInv, InitProgress
<1>3. Inv /\ Progress /\ [Next]_vars => (Inv /\ Progress)'
  BY NextInv, NextProgress
<1> QED  BY <1>1, <1>2, <1>3, PTL DEF Spec, RequiredServed
=============================================================================

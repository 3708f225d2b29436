------------------------------- MODULE Devices ------------------------------
(***************************************************************************)
(* The Android devices of a test bed: create and destroy of mobly/         *)
(* controllers/android_device.py, called by ControllerManager of mobly/    *)
(* controller_manager.py when a class registers them and when it ends.     *)
(*                                                                         *)
(* A configured device is known by its index in the configuration, and     *)
(* named by its serial.  Devices come, go and reboot to their bootloader   *)
(* at any time.  What a call to one does is open: each may raise.  Of the   *)
(* services there is logcat, the one create starts.                        *)
(***************************************************************************)
EXTENDS Integers, Sequences, FiniteSets, SequencesExt

CONSTANTS
  Serials,         \* the devices
  Configurations,  \* the configurations of a test bed: sequences of Config
  MinNumbers       \* the values of min_number of register_controller

Modes == {"adb", "fastboot", "gone"}
Config == [serial : Serials, required : BOOLEAN, skip_logcat : BOOLEAN]

ASSUME DevicesAssumption ==
  /\ IsFiniteSet(Serials)
  /\ Configurations \subseteq Seq(Config)
  /\ MinNumbers \subseteq Nat

VARIABLES
  mode,       \* where each device is to be found
  pc,         \* the function running: "idle", "all", "adb", "fastboot" (lists),
              \* "construct", "load", "start", "use" (none), "destroy", "done"
  min,        \* min_number
  configs,    \* the configuration
  serials,    \* serials listed so far
  i,          \* the device the loop is at
  ads,        \* the devices created, by index
  bound,      \* is the name `ad` of get_instances_with_configs bound
  alive,      \* devices whose adb logcat process runs
  unkilled,   \* history: devices of which _stop could not kill it
  bootloader, \* history: devices whose logcat start found in the bootloader
  result      \* what register_controller did: "none", "returned", "raised"

lists == <<configs, serials, min>>
history == <<unkilled, bootloader>>
vars == <<mode, pc, lists, i, ads, bound, alive, history, result>>

Listed(m) == {s \in Serials : mode[s] = m}

(* A device of a list of serials, or of those attached. *)
Plain(s) == [serial |-> s, required |-> TRUE, skip_logcat |-> FALSE]

At(k) == configs[k].serial

(* Logcat.is_alive: _stop forgets a process it could not kill. *)
IsAlive(k) == k \in alive \ unkilled

Init ==
  /\ mode \in [Serials -> Modes]
  /\ pc = "idle" /\ min \in MinNumbers
  /\ configs = <<>> /\ serials = {} /\ i = 1 /\ ads = <<>> /\ bound = FALSE
  /\ alive = {} /\ unkilled = {} /\ bootloader = {}
  /\ result = "none"

DeviceMoves(s, m) ==
  /\ pc # "done"
  /\ mode[s] # m
  /\ mode' = [mode EXCEPT ![s] = m]
  /\ UNCHANGED <<pc, lists, i, ads, bound, alive, history, result>>

-----------------------------------------------------------------------------
(* create *)

(* It raises before any service was started. *)
Raise == pc' = "done" /\ result' = "raised"

Create(cs) ==
  /\ pc = "idle"
  /\ configs' = cs
  /\ IF cs = <<>> THEN Raise ELSE pc' = "adb" /\ UNCHANGED result
  /\ UNCHANGED <<mode, serials, min, i, ads, bound, alive, history>>

PickAll ==
  /\ pc = "idle"
  /\ pc' = "all"
  /\ UNCHANGED <<mode, lists, i, ads, bound, alive, history, result>>

(* get_all_instances: the devices adb lists, which are then looked for again. *)
ListAll ==
  /\ pc = "all"
  /\ configs' = LET found == SetToSeq(Listed("adb"))
                IN  [k \in DOMAIN found |-> Plain(found[k])]
  /\ pc' = "adb"
  /\ UNCHANGED <<mode, serials, min, i, ads, bound, alive, history, result>>

ListAdb ==
  /\ pc = "adb"
  /\ serials' = Listed("adb")
  /\ pc' = "fastboot"
  /\ UNCHANGED <<mode, configs, min, i, ads, bound, alive, history, result>>

(* A device listed by neither is refused, also if it is optional. *)
ListFastboot ==
  /\ pc = "fastboot"
  /\ serials' = serials \cup Listed("fastboot")
  /\ IF \A k \in DOMAIN configs : At(k) \in serials'
     THEN pc' = "construct" /\ UNCHANGED result
     ELSE Raise
  /\ UNCHANGED <<mode, configs, min, i, ads, bound, alive, history>>

ListRaises ==
  /\ pc \in {"all", "adb", "fastboot"}
  /\ Raise
  /\ UNCHANGED <<mode, lists, i, ads, bound, alive, history>>

(* AndroidDevice(serial) returns, having made adb root if it may. *)
Construct ==
  /\ pc = "construct" /\ i <= Len(configs)
  /\ bound' = TRUE
  /\ pc' = "load"
  /\ UNCHANGED <<mode, lists, i, ads, alive, history, result>>

(* A config that sets what the device has already is refused. *)
LoadConfig ==
  /\ pc = "load"
  /\ ads' = Append(ads, i)
  /\ i' = i + 1 /\ pc' = "construct"
  /\ UNCHANGED <<mode, lists, bound, alive, history, result>>

(* One of them raises.  An optional device is left out, with a line of log:  *)
(* if no device was constructed yet there is no log and create raises.      *)
ConstructRaises ==
  /\ pc \in {"construct", "load"} /\ i <= Len(configs)
  /\ IF configs[i].required \/ ~bound THEN Raise /\ UNCHANGED i
     ELSE i' = i + 1 /\ pc' = "construct" /\ UNCHANGED result
  /\ UNCHANGED <<mode, lists, ads, bound, alive, history>>

StartServices ==
  /\ pc = "construct" /\ i > Len(configs)
  /\ pc' = "start" /\ i' = 1
  /\ UNCHANGED <<mode, lists, ads, bound, alive, history, result>>

-----------------------------------------------------------------------------
(* _start_services_on_ads *)

Skipped == UNCHANGED <<alive, bootloader>>

(* Logcat.start does nothing in the bootloader. *)
Started(k) ==
  IF mode[At(k)] = "fastboot"
  THEN bootloader' = bootloader \cup {k} /\ UNCHANGED alive
  ELSE alive' = alive \cup {k} /\ UNCHANGED bootloader

StartNext ==
  /\ pc = "start" /\ i <= Len(ads)
  /\ IF configs[ads[i]].skip_logcat THEN Skipped ELSE Started(ads[i])
  /\ i' = i + 1
  /\ UNCHANGED <<mode, pc, lists, ads, bound, unkilled, result>>

(* Mutant: the exception leaves before the devices are destroyed. *)
AbortAtOnce == pc' = "done" /\ result' = "raised" /\ UNCHANGED i

Abort == pc' = "destroy" /\ result' = "raised" /\ i' = 1

(* Mutant: an optional device that fails ends the loop. *)
TolerateLast == i' = Len(ads) + 1 /\ UNCHANGED <<pc, result>>

Tolerate == i' = i + 1 /\ UNCHANGED <<pc, result>>

(* Logcat.start raises, before or after it started the process. *)
StartRaises(process) ==
  /\ pc = "start" /\ i <= Len(ads) /\ ~configs[ads[i]].skip_logcat
  /\ alive' = IF process THEN alive \cup {ads[i]} ELSE alive
  /\ IF configs[ads[i]].required THEN Abort ELSE Tolerate
  /\ UNCHANGED <<mode, lists, ads, bound, history>>

(* register_controller: fewer devices than asked for are destroyed. *)
Registered ==
  /\ pc = "start" /\ i > Len(ads)
  /\ IF Len(ads) < min THEN Abort
     ELSE pc' = "use" /\ result' = "returned" /\ UNCHANGED i
  /\ UNCHANGED <<mode, lists, ads, bound, alive, history>>

-----------------------------------------------------------------------------
(* The devices in use, and destroy *)

StartLogcat(k) ==
  /\ pc = "use" /\ k \notin alive
  /\ Started(k)
  /\ UNCHANGED <<mode, pc, lists, i, ads, bound, unkilled, result>>

Killed(k, kill) ==
  /\ alive' = IF kill THEN alive \ {k} ELSE alive
  /\ unkilled' = IF kill THEN unkilled ELSE unkilled \cup {k}

StopLogcat(k, kill) ==
  /\ pc = "use" /\ IsAlive(k)
  /\ Killed(k, kill)
  /\ UNCHANGED <<mode, pc, lists, i, ads, bound, bootloader, result>>

Destroy ==
  /\ pc = "use"
  /\ pc' = "destroy" /\ i' = 1
  /\ UNCHANGED <<mode, lists, ads, bound, alive, history, result>>

DestroyNext(kill) ==
  /\ pc = "destroy" /\ i <= Len(ads)
  /\ IF IsAlive(ads[i]) THEN Killed(ads[i], kill)
     ELSE kill /\ UNCHANGED <<alive, unkilled>>
  /\ i' = i + 1
  /\ UNCHANGED <<mode, pc, lists, ads, bound, bootloader, result>>

Destroyed ==
  /\ pc = "destroy" /\ i > Len(ads)
  /\ pc' = "done"
  /\ UNCHANGED <<mode, lists, i, ads, bound, alive, history, result>>

-----------------------------------------------------------------------------
Next ==
  \/ \E s \in Serials, m \in Modes : DeviceMoves(s, m)
  \/ \E cs \in Configurations : Create(cs)
  \/ PickAll
  \/ ListAll
  \/ ListAdb
  \/ ListFastboot
  \/ ListRaises
  \/ Construct
  \/ LoadConfig
  \/ ConstructRaises
  \/ StartServices
  \/ StartNext
  \/ \E process \in BOOLEAN : StartRaises(process)
  \/ Registered
  \/ \E k \in ToSet(ads) : StartLogcat(k)
  \/ \E k \in ToSet(ads), kill \in BOOLEAN : StopLogcat(k, kill)
  \/ Destroy
  \/ \E kill \in BOOLEAN : DestroyNext(kill)
  \/ Destroyed

Spec == Init /\ [][Next]_vars

-----------------------------------------------------------------------------
(* Properties *)

(* _start_services_on_ads, register_controller, destroy: whether create       *)
(* raised, returned too few devices or its devices were destroyed, no adb     *)
(* logcat runs that could be killed, of the devices before the one that      *)
(* failed, of an optional one or of the one whose start raised half-way.     *)
NothingLeftBehind == pc = "done" => alive \subseteq unkilled

(* create: when it returns, each device that was not optional is there and    *)
(* its logcat runs unless it is not to, or the device was in its bootloader,  *)
(* whatever optional devices did before and after it.                        *)
RequiredServed ==
  [][result' = "returned" /\ result # "returned" =>
       \A k \in DOMAIN configs : configs[k].required =>
         /\ k \in ToSet(ads)
         /\ configs[k].skip_logcat \/ k \in alive \cup bootloader]_vars
=============================================================================

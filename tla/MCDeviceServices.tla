-------------------------- MODULE MCDeviceServices --------------------------
(* An instance of DeviceServices for TLC. *)
EXTENDS DeviceServices

MCBuiltin == <<"logcat">>

(* Services do not read build_info: reading it is looked at beside one.      *)
ReadsBesideOne ==
  cache # "none" \/ (\E t \in Readers : reader[t].pc # "idle") => Len(registry) <= 1
=============================================================================

------------------------------ MODULE MCDevices ------------------------------
(* An instance of Devices for TLC: every configuration of up to two devices, *)
(* and three with one of them twice, required or not.                        *)
EXTENDS Devices

MCSerials == {"d1", "d2"}

Triple(required) ==
  [k \in 1..3 |-> [serial |-> IF k = 2 THEN "d2" ELSE "d1",
                   required |-> required[k], skip_logcat |-> FALSE]]

MCConfigurations ==
  BoundedSeq(Config, 2) \cup {Triple(required) : required \in [1..3 -> BOOLEAN]}
=============================================================================

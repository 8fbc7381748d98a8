---- MODULE MCDrivers ----
(* The instance for TLC: what the device on the FT1.2 line submits is two  *)
(* packets that say the same, and another one.                             *)
EXTENDS Drivers
MCUp == <<"same", "same", "other">>
==========================

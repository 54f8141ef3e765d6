-------------------------- MODULE MCArmController --------------------------
(* Small instances of ArmController for TLC. *)
EXTENDS ArmController

DrivingModes == {"IDLE", "POSITION", "TORQUE"}
TorqueOnly == {"IDLE", "TORQUE"}
OneWay == {1}
Inside == {0}
InsideOrAbove == {0, 1}
============================================================================

---------------------------- MODULE MCDeviceInfo ----------------------------
(* DeviceInfo with two devices one after the other.                          *)
EXTENDS DeviceInfo

MCKinds == <<"cdc", "bootsel">>
=============================================================================

---------------------------- MODULE MCDeviceLink ----------------------------
(* A small instance of DeviceLink.  One square: a status or a node event *)
(* stands for an event of any other square.                               *)
EXTENDS DeviceLink

CONSTANT sq1
=============================================================================

-------------------------- MODULE MCFirmwareUpdate --------------------------
(* A small instance of FirmwareUpdate: two images and one too large, and a *)
(* generation byte that wraps after four saves.                            *)
EXTENDS FirmwareUpdate

CONSTANTS i1, i2, big
=============================================================================

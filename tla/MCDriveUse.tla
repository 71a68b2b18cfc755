------------------------------ MODULE MCDriveUse ------------------------------
(* An internal partition and one of a USB drive. *)
EXTENDS DriveUse

CONSTANTS sda1, sdb1

MCParts == {sda1, sdb1}
MCUsb   == {sdb1}
MCOne   == {sda1}
=============================================================================

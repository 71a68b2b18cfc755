------------------------------ MODULE MCHotplug ------------------------------
(* A slot for cards, or an internal drive or USB hard disk, and a stick or *)
(* card reader.                                                            *)
EXTENDS DriveButtons

CONSTANTS d1, d2

MCNames     == {1, 2}
MCRemovable == {2}
MCSlots     == {1}
MCNoSlots   == {}
MCDisks     == {d1, d2}

(* Nothing tells the disks apart: what is not under the first name at the  *)
(* start may be called d1.                                                 *)
MCInit == ButtonsInit /\ block[1] # d2 /\ block[2] # d1

MCSpec == MCInit /\ [][ButtonsNext]_allVars /\ ButtonsFairness
=============================================================================

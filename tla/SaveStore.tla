------------------------------ MODULE SaveStore ------------------------------
(***************************************************************************)
(* What saving the session promises, without saying how: the save layer    *)
(* takes over the user's work bit by bit and loses none of what it has,    *)
(* and the computer is switched off only when it has all of it.            *)
(***************************************************************************)
EXTENDS Integers

VARIABLES
  work,     (* The number of changes that the user has made.              *)
  saved,    (* So many of them, the oldest ones, are in the save layer.   *)
  off       (* The computer is off.                                       *)

Init == work = 0 /\ saved = 0 /\ off = FALSE

Change == /\ ~off
          /\ work' = work + 1
          /\ UNCHANGED <<saved, off>>

Save == /\ ~off
        /\ saved' \in saved .. work
        /\ UNCHANGED <<work, off>>

(* The last save and the end of the session, or the end alone. *)
SwitchOff == /\ ~off
             /\ saved' = work
             /\ off' = TRUE
             /\ UNCHANGED work

Next == Change \/ Save \/ SwitchOff

Spec == Init /\ [][Next]_<<work, saved, off>>
=============================================================================

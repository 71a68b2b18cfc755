---------------------------- MODULE MCSnapMerge ----------------------------
(* Small instances of SnapMerge: the values of its function constants.     *)
EXTENDS SnapMerge, TLC

CONSTANTS root, d1, a, b, c, d

AllInD1    == [f \in Files |-> d1]
AllInRoot  == [f \in Files |-> root]
SmallFiles == [f \in Files |-> [t \in Stamps |-> IF f \in Links THEN 0 ELSE 1]]
Alike      == Permutations(Files)
BigFiles   == [f \in Files |-> [t \in Stamps |-> 2]]

(* The user's fourth write and the later ones make a file bigger. *)
Growing    == [f \in Files |-> [t \in Stamps |-> IF t < 4 THEN 1 ELSE 3]]
=============================================================================

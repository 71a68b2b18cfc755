---------------------------- MODULE MCSaveSession ----------------------------
(* A session with one run of a package script.  One change of the user's   *)
(* is enough: every property of SaveSession compares what was made with    *)
(* what is saved at each change apart, and the actions keep the counters   *)
(* ordered, so that a longer session looks like this one at each of its    *)
(* changes.                                                                *)
EXTENDS SaveSession

CONSTANT i1

MCOne == {i1}
=============================================================================

------------------------------ MODULE FileTree ------------------------------
(***************************************************************************)
(* What the user of a live system may expect of its file system, without   *)
(* layers, whiteouts or passes: a tree that changes by the operations of   *)
(* the user, and a saved one beside it that a merge brings forward and     *)
(* that takes the place of the other when power fails.                     *)
(***************************************************************************)
CONSTANTS
  Files,      (* The non-directories.                                      *)
  Dirs,       (* The directories that hold them.                           *)
  DirOf,      (* The directory of each file.                               *)
  Contents,   (* What a file may hold.                                     *)
  None        (* No such file.                                             *)

VARIABLES
  value,      (* What each file holds in the running system.               *)
  dirs,       (* The directories there.                                    *)
  saved,      (* What each file holds in the saved tree.                   *)
  savedDirs   (* The directories there.                                    *)

running == <<value, dirs>>
kept    == <<saved, savedDirs>>

(* Each file of a tree lies in a directory of it. *)
Rooted(val, ds) == \A f \in Files : val[f] # None => DirOf[f] \in ds

Init == Rooted(value, dirs) /\ Rooted(saved, savedDirs)

-----------------------------------------------------------------------------
Write(f) ==
  /\ DirOf[f] \in dirs
  /\ \E v \in Contents : value' = [value EXCEPT ![f] = v]
  /\ UNCHANGED <<dirs, kept>>

Delete(f) ==
  /\ value[f] # None
  /\ value' = [value EXCEPT ![f] = None]
  /\ UNCHANGED <<dirs, kept>>

(* Only an empty directory can be removed, and a new one is empty. *)
Rmdir(d) ==
  /\ d \in dirs
  /\ \A f \in Files : DirOf[f] = d => value[f] = None
  /\ dirs' = dirs \ {d}
  /\ UNCHANGED <<value, kept>>

Mkdir(d) ==
  /\ d \notin dirs
  /\ dirs' = dirs \union {d}
  /\ UNCHANGED <<value, kept>>

(* A merge changes the saved tree.  In the running one it may only bring   *)
(* back what the user has removed under it: a file that neither tree has   *)
(* by saving it, or an empty directory.                                    *)
Return(f) ==
  /\ value[f] = None /\ saved[f] = None /\ DirOf[f] \in dirs
  /\ value' = [value EXCEPT ![f] = saved'[f]]
  /\ UNCHANGED dirs

ReturnDir(d) ==
  /\ d \notin dirs
  /\ dirs' = dirs \union {d}
  /\ UNCHANGED value

Merge ==
  /\ \/ UNCHANGED running
     \/ \E f \in Files : Return(f)
     \/ \E d \in Dirs : ReturnDir(d)
  /\ Rooted(saved, savedDirs)'

PowerFail ==
  /\ value' = saved /\ dirs' = savedDirs
  /\ UNCHANGED kept

Next ==
  \/ Merge \/ PowerFail
  \/ \E f \in Files : Write(f) \/ Delete(f)
  \/ \E d \in Dirs : Rmdir(d) \/ Mkdir(d)

Spec == Init /\ [][Next]_<<running, kept>>
=============================================================================

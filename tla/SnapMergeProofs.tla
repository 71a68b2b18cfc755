-------------------------- MODULE SnapMergeProofs --------------------------
(***************************************************************************)
(* Proofs about SnapMerge for every set of files and directories, every    *)
(* tree, every size of the save layer and every bound on the stamps: the   *)
(* type invariant, and that the merge leaves the live view as it is.       *)
(***************************************************************************)
EXTENDS SnapMerge, SumProofs

-----------------------------------------------------------------------------
(* The room of the save layer.                                             *)

(* It depends on what BASE holds only.                                     *)
LEMMA RoomSame ==
  ASSUME used' = used
  PROVE  Room' = Room
BY DEF Room

(* No file takes more than before.                                         *)
LEMMA RoomLess ==
  ASSUME SpaceOK, used' \in [Files -> Nat], \A f \in Files : used'[f] <= used[f]
  PROVE  Room' \in Nat /\ Room <= Room'
<1> DEFINE before == SumFunctionOnSet(used, Files)
<1> DEFINE after == SumFunctionOnSet(used', Files)
<1>1. before \in Nat /\ after \in Nat
  BY SumType, SpaceAssumption DEF SpaceOK
<1>2. after <= before
  BY SumMonotone, SpaceAssumption DEF SpaceOK
<1>3. Room = Capacity - before /\ Room' = Capacity - after /\ Room \in Nat
  BY DEF Room, SpaceOK
<1> HIDE DEF before, after
<1> QED
  BY <1>1, <1>2, <1>3, SpaceAssumption

(* One file takes another amount, if there is room for it.                 *)
LEMMA RoomTakes ==
  ASSUME SpaceOK, NEW f \in Files, NEW n \in Nat, used' = [used EXCEPT ![f] = n]
  PROVE  /\ Room' = Room + used[f] - n
         /\ n <= Room => Room' \in Nat
<1> DEFINE before == SumFunctionOnSet(used, Files)
<1> DEFINE after == SumFunctionOnSet(used', Files)
<1>1. before \in Nat /\ used[f] \in Nat
  BY SumType, SpaceAssumption DEF SpaceOK
<1>2. after = before - used[f] + n
  <2>1. /\ used \in [Files -> Nat] /\ used' \in [Files -> Nat] /\ used'[f] = n
        /\ \A x \in Files \ {f} : used'[x] = used[x]
    BY DEF SpaceOK
  <2>2. IsFiniteSet(Files) /\ Files \in SUBSET Files
    BY SpaceAssumption
  <2>3. after = before - used[f] + used'[f]
    BY ONLY <2>1, <2>2, f \in Files, SumChange
  <2> QED
    BY <2>1, <2>3
<1>3. Room = Capacity - before /\ Room' = Capacity - after /\ Room \in Nat
  BY DEF Room, SpaceOK
<1> HIDE DEF before, after
<1> QED
  BY <1>1, <1>2, <1>3, SpaceAssumption

-----------------------------------------------------------------------------
(* Types.                                                                  *)

(* The typing of what a view shows, for the history. *)
LEMMA LiveType ==
  ASSUME TypeOK, NEW f \in Files
  PROVE  Live(f) \in Stamps \union {None, Torn}
BY TreeAssumption, StampAssumption DEF TypeOK, Live, Saved, SfsValue, Stamps

LEMMA RecordType ==
  ASSUME TypeOK, Record, (snap \in [Files -> Stamps \union {None, Wh}])',
         (base \in [Files -> Stamps \union {None}])'
  PROVE  since' \in [Files -> SUBSET (Stamps \union {None, Torn})]
<1>1. \A f \in Files : (Live(f))' \in Stamps \union {None, Torn}
  BY TreeAssumption, StampAssumption DEF TypeOK, Live, Saved, SfsValue, Stamps
<1> QED
  BY <1>1 DEF Record, TypeOK

(* What cp is to write has a length.                                       *)
LEMMA SizeType ==
  ASSUME NEW f \in Files, NEW t \in Stamps
  PROVE  Size[f][t] \in Nat
<1>1. Size[f] \in [Stamps -> Nat]
  BY SpaceAssumption DEF Stamps
<1> QED
  BY <1>1

LEMMA LengthsType == TypeOK /\ pc = "copying" => Lengths \subseteq Nat
BY SizeType DEF TypeOK, Lengths

(* A file is taken out, or opened for writing and so emptied.              *)
LEMMA RoomEmptied ==
  ASSUME SpaceOK, NEW f \in Files, used' = [used EXCEPT ![f] = 0]
  PROVE  used' \in [Files -> Nat] /\ Room' = Room + used[f] /\ Room' \in Nat
<1> DEFINE n == 0
<1>1. n \in Nat /\ used' = [used EXCEPT ![f] = n]
  OBVIOUS
<1> HIDE DEF n
<1>2. Room' = Room + used[f] - n
  BY <1>1, RoomTakes
<1>3. Room \in Nat /\ used[f] \in Nat /\ used' \in [Files -> Nat]
  BY <1>1 DEF SpaceOK
<1> QED
  BY <1>2, <1>3 DEF n

(* A cp that is interrupted has written no more than there was room for.   *)
LEMMA StoppedSpace ==
  ASSUME TypeOK, CopyStops
  PROVE  used' \in [Files -> Nat] /\ Room' \in Nat
<1>1. CASE pc = "copying"
  <2>0. PICK n \in Lengths :
          \E k \in 0 .. n : k <= Room /\ used' = [used EXCEPT ![cur] = k]
    BY <1>1 DEF CopyStops
  <2>1. PICK k \in 0 .. n : k <= Room /\ used' = [used EXCEPT ![cur] = k]
    BY <2>0
  <2>2. k \in Nat /\ cur \in Files
    BY <1>1, <2>0, <2>1, LengthsType DEF TypeOK
  <2> QED
    BY <2>1, <2>2, RoomTakes DEF TypeOK, SpaceOK
<1>2. CASE pc # "copying"
  BY <1>2, RoomSame DEF CopyStops, TypeOK, SpaceOK
<1> QED
  BY <1>1, <1>2

(* The figures about the room are numbers, and BASE is never over-full.    *)
LEMMA SpaceTyping ==
  ASSUME TypeOK, [Next]_vars
  PROVE  SpaceOK'
<1> USE SpaceAssumption
<1>1. ASSUME UNCHANGED <<used, free, grown>> PROVE SpaceOK'
  BY <1>1, RoomSame DEF TypeOK, SpaceOK
<1>2. ASSUME NEW f \in Files, Write(f) PROVE SpaceOK'
  <2>1. PICK t \in Stamps : grown' = grown + Growth(f, t)
    BY <1>2 DEF Write
  <2>2. Growth(f, t) \in Nat
    BY SizeType DEF Growth, InSnap, TypeOK
  <2> QED
    BY <1>2, <2>1, <2>2, RoomSame DEF Write, UserStep, bottom, TypeOK, SpaceOK
<1>3. ASSUME \/ \E f \in Files : Delete(f)
             \/ \E d \in Dirs : Rmdir(d) \/ Mkdir(d)
             \/ RequestExit \/ StartMerge \/ TouchWh \/ DropWh \/ TouchDir \/ DropDir
             \/ TouchOpaque \/ DropOpaque \/ EndWhiteouts \/ EndFiles
             \/ \E d \in Dirs : MakeDir(d)
             \/ \E f \in Files : FileGone(f) \/ NoRoom(f)
             \/ RemoveLink \/ CopyLink \/ SkipCopy \/ UnWhiteout
      PROVE SpaceOK'
  BY <1>1, <1>3
  DEF Delete, Rmdir, Mkdir, UserStep, RequestExit, StartMerge, TouchWh, DropWh, TouchDir,
      DropDir, TouchOpaque, DropOpaque, EndWhiteouts, EndFiles, MakeDir, FileGone, NoRoom,
      LeaveFiles, RemoveLink, CopyLink, SkipCopy, UnWhiteout, FileFrame, WhFrame,
      MergeFrame, bottom, flags
<1>4. CASE HangUp
  BY <1>4, StoppedSpace DEF HangUp, NoScript, SpaceOK
<1>5. CASE PowerFail
  BY <1>5, StoppedSpace DEF PowerFail, NoScript, SpaceOK
<1>6. ASSUME NEW f \in Files, RemoveFile(f) PROVE SpaceOK'
  <2>1. used' = [used EXCEPT ![f] = 0] /\ UNCHANGED <<free, grown>>
    BY <1>6 DEF RemoveFile, WhFrame
  <2> QED
    BY <2>1, RoomEmptied DEF TypeOK, SpaceOK
<1>7. ASSUME NEW d \in Dirs, EmptyBaseDir(d) PROVE SpaceOK'
  <2>1. used' \in [Files -> Nat] /\ \A f \in Files : used'[f] <= used[f]
    BY <1>7 DEF EmptyBaseDir, TypeOK, SpaceOK
  <2> QED
    BY <1>7, <2>1, RoomLess DEF EmptyBaseDir, WhFrame, TypeOK, SpaceOK
<1>8. CASE EndDirs
  BY <1>8, RoomSame DEF EndDirs, bottom, TypeOK, SpaceOK
<1>9. ASSUME NEW f \in Files, CheckFile(f) PROVE SpaceOK'
  <2>1. Need(f) \in Nat
    BY SizeType DEF Need, LiveSize, TypeOK, SpaceOK
  <2>2. free' \in Int
    BY <1>9, <2>1 DEF CheckFile, TypeOK, SpaceOK
  <2> QED
    BY <1>9, <2>2, RoomSame DEF CheckFile, bottom, TypeOK, SpaceOK
<1>10. CASE OpenCopy
  <2>1. used' = [used EXCEPT ![cur] = 0] /\ cur \in Files /\ UNCHANGED <<free, grown>>
    BY <1>10 DEF OpenCopy, FileFrame, TypeOK
  <2> QED
    BY <2>1, RoomEmptied DEF TypeOK, SpaceOK
<1>11. CASE CloseCopy
  <2>1. PICK n \in Lengths : \/ n <= Room /\ used' = [used EXCEPT ![cur] = n]
                             \/ n > Room /\ used' = [used EXCEPT ![cur] = Room]
    BY <1>11 DEF CloseCopy
  <2>2. n \in Nat /\ Room \in Nat /\ cur \in Files
    BY <1>11, LengthsType DEF CloseCopy, TypeOK, SpaceOK
  <2>3. PICK k \in Nat : k <= Room /\ used' = [used EXCEPT ![cur] = k]
    BY <2>1, <2>2
  <2>4. UNCHANGED <<free, grown>>
    BY <1>11 DEF CloseCopy, FileFrame
  <2> QED
    BY <2>2, <2>3, <2>4, RoomTakes DEF TypeOK, SpaceOK
<1>12. CASE FinishMerge
  BY <1>12, RoomSame DEF FinishMerge, NoScript, bottom, TypeOK, SpaceOK
<1>13. CASE UNCHANGED vars
  BY <1>1, <1>13 DEF vars, bottom, flags
<1> QED
  BY <1>2, <1>3, <1>4, <1>5, <1>6, <1>7, <1>8, <1>9, <1>10, <1>11, <1>12, <1>13
  DEF Next, UserAction, MergeStep, RemoveDir, RemoveOpaque

(* A user step keeps the typing if it keeps that of the layer on top. *)
LEMMA UserTyping ==
  ASSUME TypeOK, SpaceOK', UserStep, clock' \in Stamps,
         (snap \in [Files -> Stamps \union {None, Wh}])',
         (snapDir \in [Dirs -> {"none", "plain", "opaque", "wh"}])'
  PROVE  TypeOK'
<1>1. (base \in [Files -> Stamps \union {None}])'
  BY DEF TypeOK, UserStep, bottom
<1>2. since' \in [Files -> SUBSET (Stamps \union {None, Torn})]
  BY <1>1, RecordType DEF UserStep
<1> QED
  BY <1>2 DEF TypeOK, UserStep, bottom, flags

(* The state is well typed. *)
LEMMA Typing == TypeOK /\ [Next]_vars => TypeOK'
<1> SUFFICES ASSUME TypeOK, [Next]_vars PROVE TypeOK'
  OBVIOUS
<1>0. SpaceOK'
  BY SpaceTyping
<1> USE <1>0, TreeAssumption, StampAssumption
<1> USE DEF TypeOK, NoLines, bottom, top, flags
<1>1. ASSUME NEW f \in Files, Write(f) PROVE TypeOK'
  BY <1>1, UserTyping DEF Write, CopyUp
<1>2. ASSUME NEW f \in Files, Delete(f) PROVE TypeOK'
  BY <1>2, UserTyping DEF Delete, CopyUp
<1>3. ASSUME NEW d \in Dirs, Rmdir(d) PROVE TypeOK'
  BY <1>3, UserTyping DEF Rmdir
<1>4. ASSUME NEW d \in Dirs, Mkdir(d) PROVE TypeOK'
  BY <1>4, UserTyping DEF Mkdir
<1>5. CASE RequestExit
  BY <1>5 DEF RequestExit
<1>6. CASE PowerFail
  BY <1>6, RecordType DEF NoScript, PowerFail, shown
<1>7. CASE StartMerge
  BY <1>7 DEF StartMerge, Goto
<1>8. CASE EndDirs
  BY <1>8, RecordType DEF EndDirs, Goto, MergeFrame
<1>9. ASSUME NEW f \in Files, RemoveFile(f) PROVE TypeOK'
  BY <1>9, RecordType DEF RemoveFile, Read, WhFrame, MergeFrame
<1>10. CASE TouchWh
  BY <1>10, RecordType DEF TouchWh, NextCommand, WhFrame, MergeFrame
<1>11. CASE DropWh
  BY <1>11, RecordType DEF DropWh, LineDone, WhFrame, MergeFrame
<1>12. ASSUME NEW d \in Dirs, RemoveDir(d) PROVE TypeOK'
  BY <1>12, RecordType DEF RemoveDir, EmptyBaseDir, Read, WhFrame, MergeFrame
<1>13. CASE TouchDir
  BY <1>13, RecordType DEF TouchDir, NextCommand, WhFrame, MergeFrame
<1>14. CASE DropDir
  BY <1>14, RecordType DEF DropDir, LineDone, WhFrame, MergeFrame
<1>15. ASSUME NEW d \in Dirs, RemoveOpaque(d) PROVE TypeOK'
  BY <1>15, RecordType DEF RemoveOpaque, EmptyBaseDir, Read, WhFrame, MergeFrame
<1>16. CASE TouchOpaque
  BY <1>16, RecordType DEF TouchOpaque, NextCommand, WhFrame, MergeFrame
<1>17. CASE DropOpaque
  BY <1>17, RecordType DEF DropOpaque, LineDone, WhFrame, MergeFrame
<1>18. CASE EndWhiteouts
  BY <1>18, RecordType DEF EndWhiteouts, Goto, WhFrame, MergeFrame
<1>19. ASSUME NEW d \in Dirs, MakeDir(d) PROVE TypeOK'
  BY <1>19, RecordType DEF MakeDir, Goto, WhFrame, MergeFrame
<1>20. ASSUME NEW f \in Files, CheckFile(f) PROVE TypeOK'
  BY <1>20, RecordType DEF CheckFile, Read, MergeFrame
<1>21. CASE RemoveLink
  BY <1>21, RecordType DEF RemoveLink, NextCommand, FileFrame, MergeFrame
<1>22. CASE CopyLink
  <2>1. Record /\ (snap \in [Files -> Stamps \union {None, Wh}])'
    BY <1>22 DEF CopyLink, FileFrame, MergeFrame
  <2>2. (base \in [Files -> Stamps \union {None}])' /\ src' \in Stamps \union {None}
        /\ bare' \subseteq Files /\ pc' = "unwh" /\ UNCHANGED <<torn, baseWh>>
    BY <1>22 DEF CopyLink, Readable, NextCommand, FileFrame, MergeFrame
  <2>3. since' \in [Files -> SUBSET (Stamps \union {None, Torn})]
    BY <2>1, <2>2, RecordType
  <2> QED
    BY <1>22, <2>2, <2>3 DEF CopyLink, NextCommand, FileFrame, MergeFrame
<1>23. CASE OpenCopy
  <2>1. Record /\ (snap \in [Files -> Stamps \union {None, Wh}])'
    BY <1>23 DEF OpenCopy, FileFrame, MergeFrame
  <2>2. (base \in [Files -> Stamps \union {None}])' /\ src' \in Stamps
        /\ torn' \subseteq Files
    BY <1>23 DEF OpenCopy, Wanted, Readable
  <2>3. since' \in [Files -> SUBSET (Stamps \union {None, Torn})]
    BY <2>1, <2>2, RecordType
  <2> QED
    BY <1>23, <2>2, <2>3 DEF OpenCopy, NextCommand, FileFrame, MergeFrame
<1>24. CASE SkipCopy
  BY <1>24, RecordType DEF SkipCopy, NextCommand, FileFrame, MergeFrame
<1>25. CASE CloseCopy
  BY <1>25, RecordType DEF CloseCopy, NextCommand, FileFrame, MergeFrame
<1>26. CASE UnWhiteout
  BY <1>26, RecordType DEF UnWhiteout, LineDone, FileFrame, MergeFrame
<1>27. CASE EndFiles
  BY <1>27, RecordType DEF EndFiles, LeaveFiles, Goto, MergeFrame
<1>28. ASSUME NEW f \in Files, FileGone(f) PROVE TypeOK'
  BY <1>28, RecordType DEF FileGone, LeaveFiles, Goto, MergeFrame
<1>29. ASSUME NEW f \in Files, NoRoom(f) PROVE TypeOK'
  BY <1>29, RecordType DEF NoRoom, LeaveFiles, Goto, MergeFrame
<1>30. CASE FinishMerge
  <2>1. /\ since' \in [Files -> SUBSET (Stamps \union {None, Torn})]
        /\ bare' \subseteq Files
    BY <1>30, LiveType DEF FinishMerge
  <2>2. /\ xrunning' \in BOOLEAN /\ cut' \in BOOLEAN /\ quiet' \in BOOLEAN
        /\ nextpass' \in BOOLEAN
    BY <1>30 DEF NoScript, FinishMerge
  <2> QED
    BY <1>30, <2>1, <2>2 DEF FinishMerge, Goto
<1>31. CASE UNCHANGED vars
  BY <1>31 DEF vars
<1>32. CASE HangUp
  BY <1>32 DEF NoScript, HangUp, shown
<1> QED
  BY <1>1, <1>2, <1>3, <1>4, <1>5, <1>6, <1>7, <1>8, <1>9, <1>10, <1>11, <1>32,
     <1>12, <1>13, <1>14, <1>15, <1>16, <1>17, <1>18, <1>19, <1>20, <1>21,
     <1>22, <1>23, <1>24, <1>25, <1>26, <1>27, <1>28, <1>29, <1>30, <1>31
  DEF Next, UserAction, MergeStep

(* Each step of the system keeps NothingUncovered. *)
LEMMA UncoveredStep ==
  TypeOK /\ NothingUncovered /\ [Next]_vars => NothingUncovered'
<1> SUFFICES ASSUME TypeOK, NothingUncovered, [Next]_vars PROVE NothingUncovered'
  OBVIOUS
<1> USE TreeAssumption, StampAssumption
<1> USE DEF TypeOK, NothingUncovered, LayersSound, LinesCovered, LineCovered,
            Covered, Closed, Emptied, Saved, Masked, SavedDir, SfsValue, FilesIn,
            WhPass, NoLines, bottom, top, flags, Stamps
<1>1. ASSUME NEW f \in Files, Write(f) PROVE NothingUncovered'
  BY <1>1 DEF Write, UserStep, CopyUp, LiveDir
<1>2. ASSUME NEW f \in Files, Delete(f) PROVE NothingUncovered'
  BY <1>2 DEF Delete, UserStep, CopyUp
<1>3. ASSUME NEW d \in Dirs, Rmdir(d) PROVE NothingUncovered'
  BY <1>3 DEF Rmdir, UserStep
<1>4. ASSUME NEW d \in Dirs, Mkdir(d) PROVE NothingUncovered'
  BY <1>4 DEF Mkdir, UserStep, LiveDir
<1>5. CASE RequestExit
  BY <1>5 DEF RequestExit
<1>6. CASE PowerFail
  BY <1>6 DEF NoScript, PowerFail, shown
<1>7. CASE StartMerge
  BY <1>7 DEF StartMerge, Goto
<1>8. CASE EndDirs
  BY <1>8 DEF EndDirs, Goto, MergeFrame
<1>9. ASSUME NEW f \in Files, RemoveFile(f) PROVE NothingUncovered'
  BY <1>9 DEF RemoveFile, Read, WhFrame, MergeFrame
<1>10. CASE TouchWh
  BY <1>10 DEF TouchWh, NextCommand, WhFrame, MergeFrame
<1>11. CASE DropWh
  BY <1>11 DEF DropWh, LineDone, WhFrame, MergeFrame
<1>12. ASSUME NEW d \in Dirs, RemoveDir(d) PROVE NothingUncovered'
  BY <1>12 DEF RemoveDir, EmptyBaseDir, Read, WhFrame, MergeFrame
<1>13. CASE TouchDir
  BY <1>13 DEF TouchDir, NextCommand, WhFrame, MergeFrame
<1>14. CASE DropDir
  BY <1>14 DEF DropDir, LineDone, WhFrame, MergeFrame
<1>15. ASSUME NEW d \in Dirs, RemoveOpaque(d) PROVE NothingUncovered'
  BY <1>15 DEF RemoveOpaque, EmptyBaseDir, Read, WhFrame, MergeFrame
<1>16. CASE TouchOpaque
  BY <1>16 DEF TouchOpaque, NextCommand, WhFrame, MergeFrame
<1>17. CASE DropOpaque
  BY <1>17 DEF DropOpaque, LineDone, WhFrame, MergeFrame
<1>18. CASE EndWhiteouts
  BY <1>18 DEF EndWhiteouts, Goto, WhFrame, MergeFrame
<1>19. ASSUME NEW d \in Dirs, MakeDir(d) PROVE NothingUncovered'
  BY <1>19 DEF MakeDir, Goto, WhFrame, MergeFrame
<1>20. ASSUME NEW f \in Files, CheckFile(f) PROVE NothingUncovered'
  BY <1>20 DEF CheckFile, Read, MergeFrame
<1>21. CASE RemoveLink
  BY <1>21 DEF RemoveLink, NextCommand, FileFrame, MergeFrame
<1>22. CASE CopyLink
  BY <1>22 DEF CopyLink, Readable, NextCommand, FileFrame, MergeFrame
<1>23. CASE OpenCopy
  BY <1>23 DEF OpenCopy, Wanted, Readable, NextCommand, FileFrame, MergeFrame
<1>24. CASE SkipCopy
  BY <1>24 DEF SkipCopy, NextCommand, FileFrame, MergeFrame
<1>25. CASE CloseCopy
  BY <1>25 DEF CloseCopy, NextCommand, FileFrame, MergeFrame
<1>26. CASE UnWhiteout
  BY <1>26 DEF UnWhiteout, LineDone, FileFrame, MergeFrame
<1>27. CASE EndFiles
  BY <1>27 DEF EndFiles, LeaveFiles, Goto, MergeFrame
<1>28. ASSUME NEW f \in Files, FileGone(f) PROVE NothingUncovered'
  BY <1>28 DEF FileGone, LeaveFiles, Goto, MergeFrame
<1>29. ASSUME NEW f \in Files, NoRoom(f) PROVE NothingUncovered'
  BY <1>29 DEF NoRoom, LeaveFiles, Goto, MergeFrame
<1>30. CASE FinishMerge
  BY <1>30 DEF NoScript, FinishMerge, Goto
<1>31. CASE UNCHANGED vars
  BY <1>31 DEF vars
<1>32. CASE HangUp
  BY <1>32 DEF NoScript, HangUp, shown
<1> QED
  BY <1>1, <1>2, <1>3, <1>4, <1>5, <1>6, <1>7, <1>8, <1>9, <1>10, <1>32,
     <1>11, <1>12, <1>13, <1>14, <1>15, <1>16, <1>17, <1>18, <1>19,
     <1>20, <1>21, <1>22, <1>23, <1>24, <1>25, <1>26, <1>27, <1>28,
     <1>29, <1>30, <1>31
  DEF Next, UserAction, MergeStep

(* A step of the merge leaves what each file shows in the live view.       *)
Stable(g) == (Live(g))' = Live(g) \/ Resurrected(g)

LEMMA MergeStable ==
  ASSUME TypeOK, NothingUncovered, MergeStep, NEW g \in Files
  PROVE  Stable(g)
<1> USE TreeAssumption, StampAssumption
<1> USE DEF TypeOK, NothingUncovered, LayersSound, LinesCovered, LineCovered,
            Covered, Closed, Emptied, Saved, Masked, SavedDir, SfsValue, FilesIn,
            WhPass, NoLines, bottom, top, Stamps, Stable, Live, Resurrected
<1>1. CASE StartMerge
  BY <1>1 DEF StartMerge, Goto
<1>2. ASSUME NEW f \in Files, RemoveFile(f) PROVE Stable(g)
  BY <1>2 DEF RemoveFile, Read, WhFrame, MergeFrame
<1>3. ASSUME NEW f \in Files, CheckFile(f) PROVE Stable(g)
  BY <1>3 DEF CheckFile, Read, MergeFrame
<1>4. ASSUME NEW f \in Files, FileGone(f) PROVE Stable(g)
  BY <1>4 DEF FileGone, LeaveFiles, Goto, MergeFrame
<1>5. ASSUME NEW f \in Files, NoRoom(f) PROVE Stable(g)
  BY <1>5 DEF NoRoom, LeaveFiles, Goto, MergeFrame
<1>6. ASSUME NEW d \in Dirs, RemoveDir(d) PROVE Stable(g)
  BY <1>6 DEF RemoveDir, EmptyBaseDir, Read, WhFrame, MergeFrame
<1>7. ASSUME NEW d \in Dirs, RemoveOpaque(d) PROVE Stable(g)
  BY <1>7 DEF RemoveOpaque, EmptyBaseDir, Read, WhFrame, MergeFrame
<1>8. ASSUME NEW d \in Dirs, MakeDir(d) PROVE Stable(g)
  BY <1>8 DEF MakeDir, Goto, WhFrame, MergeFrame
<1>9. CASE TouchWh
  BY <1>9 DEF TouchWh, NextCommand, WhFrame, MergeFrame
<1>10. CASE DropWh
  BY <1>10 DEF DropWh, LineDone, WhFrame, MergeFrame
<1>11. CASE TouchDir
  BY <1>11 DEF TouchDir, NextCommand, WhFrame, MergeFrame
<1>12. CASE DropDir
  BY <1>12 DEF DropDir, LineDone, WhFrame, MergeFrame
<1>13. CASE TouchOpaque
  BY <1>13 DEF TouchOpaque, NextCommand, WhFrame, MergeFrame
<1>14. CASE DropOpaque
  BY <1>14 DEF DropOpaque, LineDone, WhFrame, MergeFrame
<1>15. CASE EndWhiteouts
  BY <1>15 DEF EndWhiteouts, Goto, WhFrame, MergeFrame
<1>16. CASE EndDirs
  BY <1>16 DEF EndDirs, Goto, MergeFrame
<1>17. CASE RemoveLink
  BY <1>17 DEF RemoveLink, NextCommand, FileFrame, MergeFrame
<1>18. CASE CopyLink
  BY <1>18 DEF CopyLink, Readable, NextCommand, FileFrame, MergeFrame
<1>19. CASE OpenCopy
  BY <1>19 DEF OpenCopy, Wanted, Readable, NextCommand, FileFrame, MergeFrame
<1>20. CASE SkipCopy
  BY <1>20 DEF SkipCopy, NextCommand, FileFrame, MergeFrame
<1>21. CASE CloseCopy
  BY <1>21 DEF CloseCopy, NextCommand, FileFrame, MergeFrame
<1>22. CASE UnWhiteout
  BY <1>22 DEF UnWhiteout, LineDone, FileFrame, MergeFrame
<1>23. CASE EndFiles
  BY <1>23 DEF EndFiles, LeaveFiles, Goto, MergeFrame
<1>24. CASE FinishMerge
  BY <1>24 DEF NoScript, FinishMerge, Goto
<1> QED
  BY <1>1, <1>2, <1>3, <1>4, <1>5, <1>6, <1>7, <1>8, <1>9, <1>10,
     <1>11, <1>12, <1>13, <1>14, <1>15, <1>16, <1>17, <1>18, <1>19,
     <1>20, <1>21, <1>22, <1>23, <1>24
  DEF MergeStep

-----------------------------------------------------------------------------
(* The reachable states are well typed: snap, base and the listings hold   *)
(* what the commands of snapmergepuppy can put there.                      *)
THEOREM TypeCorrect == Spec => []TypeOK
<1>1. Init => TypeOK
  <2> SUFFICES ASSUME Init PROVE TypeOK
    OBVIOUS
  <2>1. 0 \in Stamps
    BY StampAssumption DEF Stamps
  <2>2. \A f \in Files : SfsValue(f) \in Stamps \union {None}
    BY <2>1 DEF SfsValue
  <2>3. since \in [Files -> SUBSET (Stamps \union {None, Torn})]
    BY <2>2 DEF Init
  <2>4. used \in [Files -> Nat] /\ \A f \in Files : used[f] = 0
    BY DEF Init
  <2>5. SumFunctionOnSet(used, Files) = 0
    BY <2>4, SumOfNothing, SpaceAssumption
  <2>6. SpaceOK
    BY <2>4, <2>5, SpaceAssumption DEF Init, SpaceOK, Room
  <2> QED
    BY <2>1, <2>3, <2>6, TreeAssumption DEF Init, TypeOK, NoLines
<1> QED
  BY <1>1, Typing, PTL DEF Spec

(* The rm and touch of a line of a listing never have anything to uncover. *)
THEOREM Uncovering == Spec => []NothingUncovered
<1>1. Init => NothingUncovered
  BY TreeAssumption, StampAssumption
  DEF Init, NothingUncovered, LayersSound, LinesCovered, LineCovered, Covered,
      Masked, WhPass, NoLines
<1> QED
  BY <1>1, TypeCorrect, UncoveredStep, PTL DEF Spec

(* snapmergepuppy never changes what the running system sees, but for the  *)
(* file that the user removes just before rm takes its old whiteout.       *)
THEOREM Stability == Spec => LiveViewStable
<1>1. TypeOK /\ NothingUncovered /\ [Next]_vars =>
        [MergeStep => \A f \in Files : (Live(f))' = Live(f) \/ Resurrected(f)]_vars
  BY MergeStable DEF Stable
<1> QED
  BY <1>1, TypeCorrect, Uncovering, PTL DEF Spec, LiveViewStable
=============================================================================

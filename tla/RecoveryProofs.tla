--------------------------- MODULE RecoveryProofs ---------------------------
(***************************************************************************)
(* Proofs about SnapMerge, on top of SnapMergeProofs, for every set of     *)
(* files, every tree, every size of the save layer and every bound: that   *)
(* cp always finds room if files are small or the layer is large, and that *)
(* a power failure at any moment finds each file as the running system has *)
(* shown it since the last merge that ran undisturbed to its end.          *)
(***************************************************************************)
EXTENDS SnapMergeProofs

-----------------------------------------------------------------------------
(* The room of the save layer.                                             *)

(* No version of a file is bigger than the 200K that the check adds. *)
SmallOnly == \A f \in Files, t \in Stamps : Size[f][t] <= Slack

(* The estimate is never too high by more than the margin and what the     *)
(* user has added, and what the check has found still holds when cp opens  *)
(* the file, if as much is taken off.                                      *)
InRoom(n) == n <= Room + grown /\ free <= Room + grown + Slack - n

RoomKept ==
  /\ pc \in {"files", "link", "unwh"} => free <= Room + grown + Slack
  /\ pc \in {"copy", "copying"} => InRoom(InSnap(cur))
  /\ pc = "copying" => src \in Stamps /\ InRoom(Size[cur][src])

(* Or the save layer could hold every file that there may be, each as long *)
(* as it may get: big says how long that is.                               *)
Bounded(big) == /\ big \in [Files -> Nat]
                /\ \A f \in Files, t \in Stamps : Size[f][t] <= big[f]
                /\ SumFunctionOnSet(big, Files) <= Capacity
AllFit       == \E big \in [Files -> Nat] : Bounded(big)
UsedFits(big) == /\ \A f \in Files : used[f] <= big[f]
                 /\ pc = "copying" => used[cur] = 0

(* What SNAP holds of a file has a length, and the user adds what makes it *)
(* longer.                                                                 *)
LEMMA InSnapType ==
  ASSUME TypeOK, NEW f \in Files
  PROVE  InSnap(f) \in Nat
BY SizeType DEF InSnap, TypeOK

(* A step that leaves a pass or stays out of the file pass.                *)
LEMMA OutOfPass ==
  ASSUME pc' \notin {"files", "copy", "link", "copying", "unwh"}
  PROVE  RoomKept'
BY DEF RoomKept

(* A step that moves nothing that the estimate is about.                   *)
LEMMA SameRoom ==
  ASSUME RoomKept, UNCHANGED <<used, snap, free, grown, pc, cur, src>>
  PROVE  RoomKept'
<1>1. Room' = Room /\ (InSnap(cur))' = InSnap(cur)
  BY RoomSame DEF InSnap
<1> QED
  BY <1>1 DEF RoomKept, InRoom

(* A step of the user takes room from the file at hand only as far as it   *)
(* is noted in grown.                                                      *)
LEMMA UserRoom ==
  ASSUME TypeOK, RoomKept, UserStep, NEW more \in Nat, grown' = grown + more,
         pc \in {"copy", "copying"} =>
           (InSnap(cur))' \in Nat /\ (InSnap(cur))' <= InSnap(cur) + more
  PROVE  RoomKept'
<1>1. /\ Room' = Room /\ Room \in Nat /\ UNCHANGED <<free, pc, cur, src>>
      /\ free \in Int /\ grown \in Nat /\ Slack \in Nat
  BY RoomSame, SpaceAssumption DEF UserStep, bottom, TypeOK, SpaceOK
<1>2. CASE pc \in {"files", "link", "unwh"}
  BY <1>1, <1>2 DEF RoomKept, InRoom
<1>3. CASE pc = "copy"
  <2>1. InSnap(cur) \in Nat
    BY <1>3, InSnapType DEF TypeOK
  <2> QED
    BY <1>1, <1>3, <2>1 DEF RoomKept, InRoom
<1>4. CASE pc = "copying"
  <2>1. InSnap(cur) \in Nat
    BY <1>4, InSnapType DEF TypeOK
  <2>2. Size[cur][src] \in Nat
    BY <1>4, SizeType DEF RoomKept, TypeOK
  <2> QED
    BY <1>1, <1>4, <2>1, <2>2 DEF RoomKept, InRoom
<1> QED
  BY <1>1, <1>2, <1>3, <1>4 DEF RoomKept

(* The arithmetic of the check.                                            *)
LEMMA CheckLeaves ==
  ASSUME NEW room \in Nat, NEW more \in Nat, NEW slack \in Nat, NEW size \in Nat,
         NEW n \in Nat, n <= size, n <= slack, NEW est \in Int, NEW left \in Int,
         est <= room + more + slack,
         \/ size + slack <= est /\ left = est - (size + slack)
         \/ size + slack <= room /\ left = room
  PROVE  n <= room + more /\ left <= room + more + slack - n
OBVIOUS

(* Each step of the system keeps the estimate good.                        *)
LEMMA RoomStep ==
  ASSUME SmallOnly, TypeOK, RoomKept, [Next]_vars
  PROVE  RoomKept'
<1> USE SpaceAssumption
<1>0. Room \in Nat /\ free \in Int /\ grown \in Nat
  BY DEF TypeOK, SpaceOK
<1>1. ASSUME NEW f \in Files, Write(f) PROVE RoomKept'
  <2>1. PICK t \in Stamps : snap' = [snap EXCEPT ![f] = t] /\ grown' = grown + Growth(f, t)
    BY <1>1 DEF Write
  <2>2. cur' = cur /\ UserStep
    BY <1>1 DEF Write, UserStep
  <2>3. Size[f][t] \in Nat /\ InSnap(f) \in Nat
    BY SizeType, InSnapType
  <2>4. Growth(f, t) \in Nat
    BY <2>3 DEF Growth
  <2>5. ASSUME pc \in {"copy", "copying"}
        PROVE  (InSnap(cur))' \in Nat /\ (InSnap(cur))' <= InSnap(cur) + Growth(f, t)
    <3>1. CASE cur = f
      <4>1. (InSnap(cur))' = Size[f][t]
        BY <2>1, <2>2, <3>1 DEF InSnap, TypeOK
      <4> QED
        BY <2>3, <2>5, <3>1, <4>1 DEF Growth
    <3>2. CASE cur # f
      <4>1. cur \in Files
        BY <2>5 DEF TypeOK
      <4>2. (InSnap(cur))' = InSnap(cur) /\ InSnap(cur) \in Nat
        BY <2>1, <2>2, <3>2, <4>1, InSnapType DEF InSnap, TypeOK
      <4> QED
        BY <2>4, <4>2
    <3> QED
      BY <3>1, <3>2
  <2> QED
    BY <2>1, <2>2, <2>4, <2>5, UserRoom
<1>2. ASSUME UserStep, grown' = grown, \A f \in Files : snap'[f] \in {snap[f], None, Wh}
      PROVE  RoomKept'
  <2>1. ASSUME pc \in {"copy", "copying"}
        PROVE  (InSnap(cur))' \in Nat /\ (InSnap(cur))' <= InSnap(cur) + 0
    <3>1. cur \in Files /\ cur' = cur
      BY <1>2, <2>1 DEF UserStep, TypeOK
    <3>2. InSnap(cur) \in Nat
      BY <3>1, InSnapType
    <3>3. (InSnap(cur))' \in {InSnap(cur), 0}
      BY <1>2, <3>1, StampAssumption DEF InSnap, Stamps
    <3> QED
      BY <3>2, <3>3
  <2>2. grown' = grown + 0
    BY <1>0, <1>2
  <2> QED
    BY <1>2, <2>1, <2>2, UserRoom
<1>3. ASSUME \/ \E f \in Files : Delete(f)
             \/ \E d \in Dirs : Rmdir(d) \/ Mkdir(d)
      PROVE  RoomKept'
  BY <1>2, <1>3 DEF Delete, Rmdir, Mkdir, TypeOK
<1>4. CASE RequestExit
  BY <1>4, SameRoom DEF RequestExit, bottom, top
<1>5. ASSUME \/ HangUp \/ PowerFail
             \/ StartMerge \/ EndWhiteouts \/ FinishMerge \/ EndFiles
             \/ \E f \in Files : RemoveFile(f) \/ FileGone(f) \/ NoRoom(f)
             \/ \E d \in Dirs : RemoveDir(d) \/ RemoveOpaque(d) \/ MakeDir(d)
             \/ TouchWh \/ DropWh \/ TouchDir \/ DropDir \/ TouchOpaque \/ DropOpaque
      PROVE  RoomKept'
  BY <1>5, OutOfPass
  DEF HangUp, PowerFail, StartMerge, EndWhiteouts, FinishMerge, EndFiles, RemoveFile, FileGone,
      NoRoom, RemoveDir, RemoveOpaque, MakeDir, TouchWh, DropWh, TouchDir, DropDir,
      TouchOpaque, DropOpaque, LeaveFiles, Goto, Read, NextCommand, LineDone
<1>6. CASE EndDirs
  <2>1. Room' = Room /\ free' = Room /\ grown' = 0 /\ pc' = "files"
    BY <1>6, RoomSame DEF EndDirs, Goto, bottom
  <2> QED
    BY <1>0, <2>1 DEF RoomKept
<1>7. ASSUME NEW f \in Files, CheckFile(f) PROVE RoomKept'
  <2>1. /\ Room' = Room /\ pc = "files" /\ pc' = "copy" /\ cur' = f
        /\ grown' = grown /\ snap' = snap
    BY <1>7, RoomSame DEF CheckFile, Read, bottom, top
  <2>2. \/ Need(f) <= free /\ free' = free - Need(f)
        \/ Need(f) <= Room /\ free' = Room
    BY <1>7 DEF CheckFile
  <2>3. LiveSize(f) \in Nat /\ InSnap(f) \in Nat
    BY SizeType, InSnapType DEF LiveSize, TypeOK, SpaceOK
  <2>4. InSnap(f) <= LiveSize(f)
    BY <2>3 DEF InSnap, LiveSize, Live
  <2>5. InSnap(f) <= Slack
    BY DEF InSnap, SmallOnly
  <2>6. free <= Room + grown + Slack /\ free' \in Int
    BY <1>0, <2>1, <2>2, <2>3 DEF RoomKept, Need
  <2>7. InSnap(f) <= Room + grown /\ free' <= Room + grown + Slack - InSnap(f)
    BY <1>0, <2>2, <2>3, <2>4, <2>5, <2>6, CheckLeaves DEF Need
  <2>8. (InSnap(cur))' = InSnap(f)
    BY <2>1 DEF InSnap
  <2> QED
    BY <2>1, <2>7, <2>8 DEF RoomKept, InRoom
<1>8. CASE RemoveLink \/ SkipCopy
  <2>1. /\ Room' = Room /\ pc = "copy" /\ pc' \in {"link", "unwh"}
        /\ free' = free /\ grown' = grown
    BY <1>8, RoomSame DEF RemoveLink, SkipCopy, NextCommand, FileFrame
  <2>2. InSnap(cur) \in Nat
    BY <2>1, InSnapType DEF TypeOK
  <2> QED
    BY <1>0, <2>1, <2>2 DEF RoomKept, InRoom
<1>9. CASE CopyLink \/ UnWhiteout
  <2>1. /\ Room' = Room /\ pc \in {"link", "unwh"} /\ pc' \in {"unwh", "files"}
        /\ free' = free /\ grown' = grown
    BY <1>9, RoomSame DEF CopyLink, UnWhiteout, NextCommand, LineDone, FileFrame
  <2> QED
    BY <2>1 DEF RoomKept
<1>10. CASE OpenCopy
  <2>1. /\ cur \in Files /\ pc = "copy" /\ pc' = "copying" /\ cur' = cur
        /\ free' = free /\ grown' = grown /\ snap' = snap
        /\ snap[cur] \in Stamps /\ src' = snap[cur]
        /\ used' = [used EXCEPT ![cur] = 0]
    BY <1>10 DEF OpenCopy, Wanted, Readable, NextCommand, FileFrame, TypeOK, top
  <2>2. Room' = Room + used[cur] /\ Room' \in Nat /\ used[cur] \in Nat
    BY <2>1, RoomEmptied DEF TypeOK, SpaceOK
  <2>3. /\ InSnap(cur) = Size[cur][snap[cur]] /\ (InSnap(cur))' = InSnap(cur)
        /\ InSnap(cur) \in Nat
    BY <2>1, InSnapType DEF InSnap
  <2>4. InSnap(cur) <= Room + grown /\ free <= Room + grown + Slack - InSnap(cur)
    BY <2>1 DEF RoomKept, InRoom
  <2>5. InSnap(cur) <= Room' + grown /\ free <= Room' + grown + Slack - InSnap(cur)
    <3>1. Slack \in Nat /\ InSnap(cur) \in Nat
      BY <2>3
    <3>2. Room <= Room'
      BY ONLY <1>0, <2>2
    <3> HIDE DEF InSnap, Room
    <3> QED
      BY ONLY <1>0, <2>2, <2>4, <3>1, <3>2
  <2>6. (Size[cur][src])' = InSnap(cur) /\ src' \in Stamps
    BY <2>1, <2>3
  <2> QED
    BY <2>1, <2>3, <2>5, <2>6 DEF RoomKept, InRoom
<1>11. CASE CloseCopy
  <2>1. /\ cur \in Files /\ pc = "copying" /\ pc' = "unwh"
        /\ free' = free /\ grown' = grown
    BY <1>11 DEF CloseCopy, NextCommand, FileFrame, TypeOK
  <2>2. PICK n \in Lengths, k \in Nat :
          /\ n \in Nat /\ k <= Room /\ k <= n /\ used' = [used EXCEPT ![cur] = k]
    BY <1>0, <1>11, <2>1, LengthsType DEF CloseCopy
  <2>3. Room' = Room + used[cur] - k /\ used[cur] \in Nat /\ Slack \in Nat
    BY <2>1, <2>2, RoomTakes DEF TypeOK, SpaceOK
  <2>4. InRoom(n)
    BY <2>1, <2>2 DEF RoomKept, Lengths, InSnap
  <2> QED
    BY <1>0, <2>1, <2>2, <2>3, <2>4 DEF RoomKept, InRoom
<1>12. CASE UNCHANGED vars
  BY <1>12, SameRoom DEF vars, bottom, top, flags
<1> QED
  BY <1>1, <1>3, <1>4, <1>5, <1>6, <1>7, <1>8, <1>9, <1>10, <1>11, <1>12
  DEF Next, UserAction, MergeStep

(* What the layer holds of a file is never longer than the file may get.   *)
LEMMA FitStep ==
  ASSUME TypeOK, NEW big, Bounded(big), UsedFits(big), [Next]_vars
  PROVE  UsedFits(big)'
<1> USE SpaceAssumption
<1>0. used \in [Files -> Nat] /\ \A f \in Files : big[f] \in Nat
  BY DEF TypeOK, SpaceOK, Bounded
<1>1. ASSUME used' = used, pc' = "copying" => pc = "copying" /\ cur' = cur
      PROVE  UsedFits(big)'
  BY <1>1 DEF UsedFits
<1>2. ASSUME UserAction \/ RequestExit \/ UNCHANGED vars PROVE UsedFits(big)'
  BY <1>1, <1>2 DEF UserAction, Write, Delete, Rmdir, Mkdir, UserStep, RequestExit, vars, bottom
<1>3. ASSUME HangUp \/ PowerFail PROVE UsedFits(big)'
  <2>1. pc' = "idle" /\ CopyStops
    BY <1>3 DEF HangUp, PowerFail
  <2>2. CASE pc = "copying"
    <3>1. PICK n \in Lengths : \E k \in 0 .. n : used' = [used EXCEPT ![cur] = k]
      BY <2>1, <2>2 DEF CopyStops
    <3>2. n \in Nat /\ n <= big[cur] /\ cur \in Files
      BY <2>2, LengthsType DEF Lengths, Bounded, TypeOK
    <3> QED
      BY <1>0, <2>1, <3>1, <3>2 DEF UsedFits
  <2>3. CASE pc # "copying"
    BY <1>1, <2>1, <2>3 DEF CopyStops
  <2> QED
    BY <2>2, <2>3
<1>4. ASSUME \/ StartMerge \/ EndWhiteouts \/ EndDirs \/ FinishMerge \/ EndFiles
             \/ \E f \in Files : CheckFile(f) \/ FileGone(f) \/ NoRoom(f)
             \/ \E d \in Dirs : MakeDir(d)
             \/ TouchWh \/ DropWh \/ TouchDir \/ DropDir \/ TouchOpaque \/ DropOpaque
             \/ RemoveLink \/ CopyLink \/ SkipCopy \/ UnWhiteout
      PROVE  UsedFits(big)'
  BY <1>1, <1>4
  DEF StartMerge, EndWhiteouts, EndDirs, FinishMerge, EndFiles, CheckFile, FileGone, NoRoom,
      MakeDir, TouchWh, DropWh, TouchDir, DropDir, TouchOpaque, DropOpaque, RemoveLink,
      CopyLink, SkipCopy, UnWhiteout, LeaveFiles, Goto, Read, NextCommand, LineDone, bottom
<1>5. ASSUME NEW f \in Files, RemoveFile(f) PROVE UsedFits(big)'
  BY <1>0, <1>5 DEF RemoveFile, Read, UsedFits
<1>6. ASSUME NEW d \in Dirs, RemoveDir(d) \/ RemoveOpaque(d) PROVE UsedFits(big)'
  <2>1. /\ used' = [f \in Files |-> IF DirOf[f] = d THEN 0 ELSE used[f]]
        /\ pc' \in {"touchDir", "touchOpq"}
    BY <1>6 DEF RemoveDir, RemoveOpaque, EmptyBaseDir, Read
  <2> QED
    BY <1>0, <2>1 DEF UsedFits
<1>7. CASE OpenCopy
  <2>1. used' = [used EXCEPT ![cur] = 0] /\ cur' = cur /\ cur \in Files
    BY <1>7 DEF OpenCopy, NextCommand, TypeOK
  <2> QED
    BY <1>0, <2>1 DEF UsedFits
<1>8. CASE CloseCopy
  <2>1. PICK n \in Lengths : \/ used' = [used EXCEPT ![cur] = n]
                             \/ n > Room /\ used' = [used EXCEPT ![cur] = Room]
    BY <1>8 DEF CloseCopy
  <2>2. pc' = "unwh" /\ pc = "copying" /\ cur \in Files /\ Room \in Nat
    BY <1>8 DEF CloseCopy, NextCommand, TypeOK, SpaceOK
  <2>3. n \in Nat /\ n <= big[cur]
    BY <2>2, LengthsType DEF Lengths, Bounded
  <2>4. PICK k \in Nat : k <= big[cur] /\ used' = [used EXCEPT ![cur] = k]
    BY <1>0, <2>1, <2>2, <2>3
  <2> QED
    BY <1>0, <2>2, <2>4 DEF UsedFits
<1> QED
  BY <1>2, <1>3, <1>4, <1>5, <1>6, <1>7, <1>8 DEF Next, MergeStep

(* Then there is room for the file at hand, however long it is.            *)
LEMMA FitRoom ==
  ASSUME TypeOK, NEW big, Bounded(big), UsedFits(big)
  PROVE  CopyFits
<1> SUFFICES ASSUME pc = "copying" PROVE \A n \in Lengths : n <= Room
  BY DEF CopyFits
<1> USE SpaceAssumption
<1> DEFINE g == [f \in Files |-> IF f = cur THEN 0 ELSE big[f]]
<1>1. cur \in Files /\ used \in [Files -> Nat] /\ big \in [Files -> Nat]
  BY DEF TypeOK, SpaceOK, Bounded
<1>2. g \in [Files -> Nat] /\ g[cur] = 0 /\ \A f \in Files \ {cur} : g[f] = big[f]
  BY <1>1
<1>3. \A f \in Files : used[f] <= g[f]
  BY <1>1, <1>2 DEF UsedFits
<1> HIDE DEF g
<1>4. /\ SumFunctionOnSet(used, Files) \in Nat /\ SumFunctionOnSet(g, Files) \in Nat
      /\ SumFunctionOnSet(big, Files) \in Nat
  BY <1>1, <1>2, SumType
<1>5. SumFunctionOnSet(used, Files) <= SumFunctionOnSet(g, Files)
  BY <1>1, <1>2, <1>3, SumMonotone
<1>6. SumFunctionOnSet(g, Files) = SumFunctionOnSet(big, Files) - big[cur] + g[cur]
  BY ONLY <1>1, <1>2, IsFiniteSet(Files), Files \in SUBSET Files, SumChange
<1>7. big[cur] \in Nat /\ big[cur] <= Room
  BY <1>1, <1>2, <1>4, <1>5, <1>6 DEF Room, Bounded
<1>8. \A n \in Lengths : n \in Nat /\ n <= big[cur]
  BY <1>1, LengthsType DEF Lengths, Bounded
<1>9. Room \in Nat
  BY DEF TypeOK, SpaceOK
<1> QED
  BY <1>7, <1>8, <1>9

(* Whatever the files, their number and the tree: if no file is bigger     *)
(* than the margin of 200K, cp lacks no more room than the user has added  *)
(* in this pass to files that the merge had looked at; snapmerge_bigfiles  *)
(* shows that otherwise it may.  If all files fit together, however long   *)
(* they get, cp lacks none.                                                *)
THEOREM RoomForCopy ==
  /\ SmallOnly \/ AllFit => (Spec => []EnoughRoom)
  /\ AllFit => (Spec => []CopyFits)
<1>1. ASSUME AllFit PROVE Spec => []CopyFits
  <2>1. PICK big \in [Files -> Nat] : Bounded(big)
    BY <1>1 DEF AllFit
  <2>2. Init => UsedFits(big)
    BY DEF Init, UsedFits
  <2>3. TypeOK /\ UsedFits(big) /\ [Next]_vars => UsedFits(big)'
    BY <2>1, FitStep
  <2>4. TypeOK /\ UsedFits(big) => CopyFits
    BY <2>1, FitRoom
  <2> QED
    BY <2>2, <2>3, <2>4, TypeCorrect, PTL DEF Spec
<1>2. TypeOK /\ CopyFits => EnoughRoom
  <2>1. TypeOK /\ pc = "copying" => Lengths \subseteq Nat
    BY LengthsType
  <2> QED
    BY <2>1 DEF TypeOK, SpaceOK, CopyFits, EnoughRoom
<1>3. ASSUME SmallOnly PROVE Spec => []EnoughRoom
  <2>1. Init => RoomKept
    BY DEF Init, RoomKept
  <2>2. RoomKept => EnoughRoom
    BY DEF RoomKept, InRoom, EnoughRoom, Lengths, InSnap
  <2>3. TypeOK /\ RoomKept /\ [Next]_vars => RoomKept'
    BY <1>3, RoomStep
  <2> QED
    BY <2>1, <2>2, <2>3, TypeCorrect, PTL DEF Spec
<1>4. ASSUME AllFit PROVE Spec => []EnoughRoom
  BY <1>1, <1>2, <1>4, TypeCorrect, PTL
<1> QED
  BY <1>1, <1>3, <1>4

-----------------------------------------------------------------------------
(* The recovery point: the parts of its inductive invariant.               *)

(* Stamps only grow: none in the layers is later than the clock.  A link   *)
(* is never half written, and src holds what cp has opened for the line.   *)
Stamped ==
  /\ \A f \in Files : /\ snap[f] \in Stamps => snap[f] <= clock
                      /\ base[f] \in Stamps => base[f] <= clock
  /\ src \in Stamps => src <= clock
  /\ torn \intersect Links = {}
  /\ pc = "link" => cur \in Links /\ base[cur] = None
  /\ pc \notin {"copying", "unwh"} => src = None
  /\ pc = "done" => todo = NoLines

(* What the live view shows is in the history; and what the whiteout pass  *)
(* is about to hide from the saved view, the user has seen gone.           *)
Vanished(f) == None \in since[f]

HistoryKept ==
  /\ \A f \in Files : Live(f) \in since[f]
  /\ \A f \in Files : snapDir[DirOf[f]] = "opaque" => Vanished(f)
  /\ pc \in WhPass =>
       /\ \A f \in todo.file : Vanished(f)
       /\ \A f \in Files : DirOf[f] \in todo.dir \union todo.opq => Vanished(f)
  /\ pc = "touchWh" => Vanished(cur)
  /\ pc \in {"touchDir", "touchOpq"} => \A f \in FilesIn(cur) : Vanished(f)

Worked   == {"copy", "link", "copying", "unwh"}
FilePass == Worked \union {"files", "done"}

(* What a merge that the user does not disturb has not handled is still in *)
(* its listing: whiteouts, directories, then files that SNAP holds.        *)
QuietPass ==
  quiet =>
   /\ pc # "idle" => \A f \in Files :
        snap[f] = Wh /\ DirOf[f] # Root =>
          /\ pc \in WhPass
          /\ (f \in todo.file \/ (f = cur /\ pc \in {"touchWh", "dropWh"}))
   /\ pc # "idle" => \A d \in Dirs :
        /\ snapDir[d] = "wh" =>
             /\ pc \in WhPass
             /\ (d \in todo.dir \/ (d = cur /\ pc \in {"touchDir", "dropDir"}))
        /\ snapDir[d] = "opaque" =>
             /\ pc \in WhPass
             /\ (d \in todo.opq \/ (d = cur /\ pc \in {"touchOpq", "dropOpq"}))
   /\ pc = "dirs" => \A d \in Dirs \ {Root} :
        snapDir[d] # "none" => d \in todo.dir \union baseDir
   /\ pc \in FilePass /\ ~cut =>
        /\ \A d \in Dirs \ {Root} : snapDir[d] # "none" => d \in baseDir
        /\ \A f \in todo.file : snap[f] \in Stamps
        /\ pc \in Worked => snap[cur] \in Stamps

(* A copy that the user disturbed is replaced by the next merge, or the    *)
(* live view shows what BASE has.                                          *)
Mend(f) == Redone(f) \/ snap[f] = None

(* cp -u skips no file but one that BASE has whole, or one that a hang-up  *)
(* left half written; what cp is writing was in the live view.             *)
CopiesOrdered ==
  /\ \A f \in Files :
       snap[f] \in Stamps /\ base[f] # None /\ base[f] >= snap[f] =>
         \/ base[f] = snap[f] /\ f \notin torn
         \/ f \in torn /\ f \in bare
         \/ f = cur /\ pc = "copying"
  /\ pc = "copying" =>
       /\ cur \in torn
       /\ src \in since[cur]
       /\ snap[cur] \in Stamps => src <= snap[cur]
       /\ quiet => snap[cur] = src
  /\ pc = "unwh" /\ src # None =>
       /\ base[cur] = src
       /\ src \in since[cur]
       /\ cur \in torn => Mend(cur)
       /\ quiet => snap[cur] = src /\ cur \notin torn

(* In a quiet merge each file is one of the listing's, the one at hand, or *)
(* saved as the live view shows it, or one of the known exceptions.        *)
Whole(f) == base[f] = snap[f] /\ f \notin torn
SettledFiles == {f \in Files : Saved(f) = Live(f) \/ Shadowed(f) \/ GivenUp(f)}

FilesSettled ==
  quiet /\ ~cut /\ pc \in FilePass =>
    /\ \A f \in ToSave :
         f \in todo.file \union SettledFiles \/ (f = cur /\ pc \in Worked)
    /\ pc = "unwh" /\ cur \in ToSave => Whole(cur) \/ GivenUp(cur)

(* A copy under an old whiteout does not show: the file had gone before.   *)
HiddenKept ==
  pc \in {"link", "copying"} /\ cur \in baseWh /\ cur \in ToSave =>
    Vanished(cur) \/ cur \in bare \/ Shadowed(cur)

-----------------------------------------------------------------------------
(* A loop that is not cut has read its listing.                            *)
LEMMA NothingLeft ==
  ASSUME EndDirs, ~cut'
  PROVE  todo.dir = {}
<1>1. cut' = (todo # NoLines)
  BY DEF EndDirs
<1>2. todo = NoLines
  BY <1>1, Zenon
<1> QED
  BY <1>2 DEF NoLines

(* With room cp ends with the mtime set.                                   *)
LEMMA CopyEnds ==
  ASSUME TypeOK, CloseCopy, CopyFits
  PROVE  /\ base' = [base EXCEPT ![cur] = src]
         /\ \/ torn' = torn \ {cur}
            \/ snap[cur] \in Stamps \ {src} /\ torn' = torn
<1>1. \A n \in Lengths : n \in Nat /\ n <= Room /\ Room \in Nat
  BY LengthsType DEF CloseCopy, CopyFits, TypeOK, SpaceOK
<1> QED
  BY <1>1 DEF CloseCopy

(* Each step of the system keeps the stamps in order.                      *)
LEMMA StampedStep ==
  ASSUME TypeOK, NothingUncovered, Stamped, ~OldStamps, [Next]_vars
  PROVE  Stamped'
<1> USE TreeAssumption, StampAssumption
<1> USE DEF TypeOK, LayersSound, NothingUncovered, Stamped, NoLines, Masked,
            bottom, top, flags, Stamps
<1>1. ASSUME NEW f \in Files, Write(f) PROVE Stamped'
  BY <1>1 DEF Write, UserStep, CopyUp, LiveDir
<1>2. ASSUME NEW f \in Files, Delete(f) PROVE Stamped'
  BY <1>2 DEF Delete, UserStep, CopyUp
<1>3. ASSUME NEW d \in Dirs, Rmdir(d) PROVE Stamped'
  BY <1>3 DEF Rmdir, UserStep
<1>4. ASSUME NEW d \in Dirs, Mkdir(d) PROVE Stamped'
  BY <1>4 DEF Mkdir, UserStep, LiveDir
<1>5. CASE RequestExit
  BY <1>5 DEF RequestExit
<1>6. CASE HangUp
  BY <1>6 DEF NoScript, HangUp, shown
<1>7. CASE PowerFail
  BY <1>7 DEF NoScript, PowerFail, shown
<1>8. CASE StartMerge
  BY <1>8 DEF StartMerge, Goto
<1>9. ASSUME NEW f \in Files, RemoveFile(f) PROVE Stamped'
  BY <1>9 DEF RemoveFile, Read, WhFrame, MergeFrame
<1>10. CASE TouchWh
  BY <1>10 DEF TouchWh, NextCommand, WhFrame, MergeFrame
<1>11. CASE DropWh
  BY <1>11 DEF DropWh, LineDone, WhFrame, MergeFrame
<1>12. ASSUME NEW d \in Dirs, RemoveDir(d) PROVE Stamped'
  BY <1>12 DEF RemoveDir, EmptyBaseDir, Read, WhFrame, MergeFrame
<1>13. CASE TouchDir
  BY <1>13 DEF TouchDir, NextCommand, WhFrame, MergeFrame
<1>14. CASE DropDir
  BY <1>14 DEF DropDir, LineDone, WhFrame, MergeFrame
<1>15. ASSUME NEW d \in Dirs, RemoveOpaque(d) PROVE Stamped'
  BY <1>15 DEF RemoveOpaque, EmptyBaseDir, Read, WhFrame, MergeFrame
<1>16. CASE TouchOpaque
  BY <1>16 DEF TouchOpaque, NextCommand, WhFrame, MergeFrame
<1>17. CASE DropOpaque
  BY <1>17 DEF DropOpaque, LineDone, WhFrame, MergeFrame
<1>18. CASE EndWhiteouts
  BY <1>18 DEF EndWhiteouts, Goto, WhFrame, MergeFrame
<1>19. ASSUME NEW d \in Dirs, MakeDir(d) PROVE Stamped'
  BY <1>19 DEF MakeDir, Goto, WhFrame, MergeFrame
<1>20. CASE EndDirs
  BY <1>20 DEF EndDirs, Goto, MergeFrame
<1>21. ASSUME NEW f \in Files, CheckFile(f) PROVE Stamped'
  BY <1>21 DEF CheckFile, Read, MergeFrame
<1>22. CASE RemoveLink
  BY <1>22 DEF RemoveLink, NextCommand, FileFrame, MergeFrame
<1>23. CASE CopyLink
  BY <1>23 DEF CopyLink, Readable, NextCommand, FileFrame, MergeFrame
<1>24. CASE OpenCopy
  BY <1>24 DEF OpenCopy, Wanted, Readable, NextCommand, FileFrame, MergeFrame
<1>25. CASE SkipCopy
  BY <1>25 DEF SkipCopy, NextCommand, FileFrame, MergeFrame
<1>26. CASE CloseCopy
  BY <1>26 DEF CloseCopy, NextCommand, FileFrame, MergeFrame
<1>27. CASE UnWhiteout
  BY <1>27 DEF UnWhiteout, LineDone, FileFrame, MergeFrame
<1>28. CASE EndFiles
  BY <1>28 DEF EndFiles, LeaveFiles, Goto, MergeFrame
<1>29. ASSUME NEW f \in Files, FileGone(f) PROVE Stamped'
  BY <1>29 DEF FileGone, LeaveFiles, Goto, MergeFrame
<1>30. ASSUME NEW f \in Files, NoRoom(f) PROVE Stamped'
  BY <1>30 DEF NoRoom, LeaveFiles, Goto, MergeFrame
<1>31. CASE FinishMerge
  BY <1>31 DEF NoScript, FinishMerge, Goto
<1>32. CASE UNCHANGED vars
  BY <1>32 DEF vars
<1> QED
  BY <1>1, <1>2, <1>3, <1>4, <1>5, <1>6, <1>7, <1>8, <1>9, <1>10, <1>11,
     <1>12, <1>13, <1>14, <1>15, <1>16, <1>17, <1>18, <1>19, <1>20, <1>21,
     <1>22, <1>23, <1>24, <1>25, <1>26, <1>27, <1>28, <1>29, <1>30, <1>31,
     <1>32
  DEF Next, UserAction, MergeStep

(* Each step keeps the history.                                            *)
LEMMA HistoryStep ==
  ASSUME TypeOK, NothingUncovered, Stamped, HistoryKept, QuietPass, [Next]_vars
  PROVE  HistoryKept'
<1> USE TreeAssumption, StampAssumption
<1> USE DEF TypeOK, NothingUncovered, LayersSound, LinesCovered, LineCovered,
            WhPass, NoLines, Stamped, HistoryKept, Vanished, QuietPass, Live,
            Saved, Masked, SfsValue, FilesIn, Record, Covered, Closed,
            SavedDir, Emptied, bottom, top, flags, Stamps, FilePass
<1>1. ASSUME NEW f \in Files, Write(f) PROVE HistoryKept'
  BY <1>1 DEF Write, UserStep, CopyUp, LiveDir
<1>2. ASSUME NEW f \in Files, Delete(f) PROVE HistoryKept'
  BY <1>2 DEF Delete, UserStep, CopyUp
<1>3. ASSUME NEW d \in Dirs, Rmdir(d) PROVE HistoryKept'
  BY <1>3 DEF Rmdir, UserStep
<1>4. ASSUME NEW d \in Dirs, Mkdir(d) PROVE HistoryKept'
  BY <1>4 DEF Mkdir, UserStep, LiveDir
<1>5. CASE RequestExit
  BY <1>5 DEF RequestExit
<1>6. CASE HangUp
  BY <1>6 DEF NoScript, HangUp, shown
<1>7. CASE PowerFail
  BY <1>7 DEF NoScript, PowerFail, shown
<1>8. CASE StartMerge
  BY <1>8 DEF StartMerge, Goto
<1>9. ASSUME NEW f \in Files, RemoveFile(f) PROVE HistoryKept'
  BY <1>9 DEF RemoveFile, Read, WhFrame, MergeFrame
<1>10. CASE TouchWh
  BY <1>10 DEF TouchWh, NextCommand, WhFrame, MergeFrame
<1>11. CASE DropWh
  BY <1>11 DEF DropWh, LineDone, WhFrame, MergeFrame
<1>12. ASSUME NEW d \in Dirs, RemoveDir(d) PROVE HistoryKept'
  BY <1>12 DEF RemoveDir, EmptyBaseDir, Read, WhFrame, MergeFrame
<1>13. CASE TouchDir
  BY <1>13 DEF TouchDir, NextCommand, WhFrame, MergeFrame
<1>14. CASE DropDir
  BY <1>14 DEF DropDir, LineDone, WhFrame, MergeFrame
<1>15. ASSUME NEW d \in Dirs, RemoveOpaque(d) PROVE HistoryKept'
  BY <1>15 DEF RemoveOpaque, EmptyBaseDir, Read, WhFrame, MergeFrame
<1>16. CASE TouchOpaque
  BY <1>16 DEF TouchOpaque, NextCommand, WhFrame, MergeFrame
<1>17. CASE DropOpaque
  BY <1>17 DEF DropOpaque, LineDone, WhFrame, MergeFrame
<1>18. CASE EndWhiteouts
  BY <1>18 DEF EndWhiteouts, Goto, WhFrame, MergeFrame
<1>19. ASSUME NEW d \in Dirs, MakeDir(d) PROVE HistoryKept'
  BY <1>19 DEF MakeDir, Goto, WhFrame, MergeFrame
<1>20. CASE EndDirs
  BY <1>20 DEF EndDirs, Goto, MergeFrame
<1>21. ASSUME NEW f \in Files, CheckFile(f) PROVE HistoryKept'
  BY <1>21 DEF CheckFile, Read, MergeFrame
<1>22. CASE RemoveLink
  BY <1>22 DEF RemoveLink, NextCommand, FileFrame, MergeFrame
<1>23. CASE CopyLink
  BY <1>23 DEF CopyLink, Readable, NextCommand, FileFrame, MergeFrame
<1>24. CASE OpenCopy
  BY <1>24 DEF OpenCopy, Wanted, Readable, NextCommand, FileFrame, MergeFrame
<1>25. CASE SkipCopy
  BY <1>25 DEF SkipCopy, NextCommand, FileFrame, MergeFrame
<1>26. CASE CloseCopy
  BY <1>26 DEF CloseCopy, NextCommand, FileFrame, MergeFrame
<1>27. CASE UnWhiteout
  BY <1>27 DEF UnWhiteout, LineDone, FileFrame, MergeFrame
<1>28. CASE EndFiles
  BY <1>28 DEF EndFiles, LeaveFiles, Goto, MergeFrame
<1>29. ASSUME NEW f \in Files, FileGone(f) PROVE HistoryKept'
  BY <1>29 DEF FileGone, LeaveFiles, Goto, MergeFrame
<1>30. ASSUME NEW f \in Files, NoRoom(f) PROVE HistoryKept'
  BY <1>30 DEF NoRoom, LeaveFiles, Goto, MergeFrame
<1>31. CASE FinishMerge
  BY <1>31 DEF NoScript, FinishMerge, Goto
<1>32. CASE UNCHANGED vars
  BY <1>32 DEF vars
<1> QED
  BY <1>1, <1>2, <1>3, <1>4, <1>5, <1>6, <1>7, <1>8, <1>9, <1>10, <1>11,
     <1>12, <1>13, <1>14, <1>15, <1>16, <1>17, <1>18, <1>19, <1>20, <1>21,
     <1>22, <1>23, <1>24, <1>25, <1>26, <1>27, <1>28, <1>29, <1>30, <1>31,
     <1>32
  DEF Next, UserAction, MergeStep

(* Each step keeps what a quiet merge has still to handle.                 *)
LEMMA QuietStep ==
  ASSUME TypeOK, NothingUncovered, Stamped, QuietPass, [Next]_vars
  PROVE  QuietPass'
<1> USE TreeAssumption, StampAssumption
<1> USE DEF TypeOK, LayersSound, NothingUncovered, WhPass, NoLines, Stamped,
            QuietPass, Worked, Masked, bottom, top, flags, Stamps, FilePass
<1>1. ASSUME NEW f \in Files, Write(f) PROVE QuietPass'
  BY <1>1 DEF Write, UserStep, CopyUp, LiveDir
<1>2. ASSUME NEW f \in Files, Delete(f) PROVE QuietPass'
  BY <1>2 DEF Delete, UserStep, CopyUp
<1>3. ASSUME NEW d \in Dirs, Rmdir(d) PROVE QuietPass'
  BY <1>3 DEF Rmdir, UserStep
<1>4. ASSUME NEW d \in Dirs, Mkdir(d) PROVE QuietPass'
  BY <1>4 DEF Mkdir, UserStep, LiveDir
<1>5. CASE RequestExit
  BY <1>5 DEF RequestExit
<1>6. CASE HangUp
  BY <1>6 DEF NoScript, HangUp, shown
<1>7. CASE PowerFail
  BY <1>7 DEF NoScript, PowerFail, shown
<1>8. CASE StartMerge
  BY <1>8 DEF StartMerge, Goto
<1>9. ASSUME NEW f \in Files, RemoveFile(f) PROVE QuietPass'
  BY <1>9 DEF RemoveFile, Read, WhFrame, MergeFrame
<1>10. CASE TouchWh
  BY <1>10 DEF TouchWh, NextCommand, WhFrame, MergeFrame
<1>11. CASE DropWh
  BY <1>11 DEF DropWh, LineDone, WhFrame, MergeFrame
<1>12. ASSUME NEW d \in Dirs, RemoveDir(d) PROVE QuietPass'
  BY <1>12 DEF RemoveDir, EmptyBaseDir, Read, WhFrame, MergeFrame
<1>13. CASE TouchDir
  BY <1>13 DEF TouchDir, NextCommand, WhFrame, MergeFrame
<1>14. CASE DropDir
  BY <1>14 DEF DropDir, LineDone, WhFrame, MergeFrame
<1>15. ASSUME NEW d \in Dirs, RemoveOpaque(d) PROVE QuietPass'
  BY <1>15 DEF RemoveOpaque, EmptyBaseDir, Read, WhFrame, MergeFrame
<1>16. CASE TouchOpaque
  BY <1>16 DEF TouchOpaque, NextCommand, WhFrame, MergeFrame
<1>17. CASE DropOpaque
  BY <1>17 DEF DropOpaque, LineDone, WhFrame, MergeFrame
<1>18. CASE EndWhiteouts
  BY <1>18 DEF EndWhiteouts, Goto, WhFrame, MergeFrame
<1>19. ASSUME NEW d \in Dirs, MakeDir(d) PROVE QuietPass'
  BY <1>19 DEF MakeDir, Goto, WhFrame, MergeFrame
<1>20. CASE EndDirs
  BY <1>20, NothingLeft DEF EndDirs, Goto, MergeFrame
<1>21. ASSUME NEW f \in Files, CheckFile(f) PROVE QuietPass'
  BY <1>21 DEF CheckFile, Read, MergeFrame
<1>22. CASE RemoveLink
  BY <1>22 DEF RemoveLink, NextCommand, FileFrame, MergeFrame
<1>23. CASE CopyLink
  BY <1>23 DEF CopyLink, Readable, NextCommand, FileFrame, MergeFrame
<1>24. CASE OpenCopy
  BY <1>24 DEF OpenCopy, Wanted, Readable, NextCommand, FileFrame, MergeFrame
<1>25. CASE SkipCopy
  BY <1>25 DEF SkipCopy, NextCommand, FileFrame, MergeFrame
<1>26. CASE CloseCopy
  BY <1>26 DEF CloseCopy, NextCommand, FileFrame, MergeFrame
<1>27. CASE UnWhiteout
  BY <1>27 DEF UnWhiteout, LineDone, FileFrame, MergeFrame
<1>28. CASE EndFiles
  BY <1>28 DEF EndFiles, LeaveFiles, Goto, MergeFrame
<1>29. ASSUME NEW f \in Files, FileGone(f) PROVE QuietPass'
  BY <1>29 DEF FileGone, LeaveFiles, Goto, MergeFrame
<1>30. ASSUME NEW f \in Files, NoRoom(f) PROVE QuietPass'
  BY <1>30 DEF NoRoom, LeaveFiles, Goto, MergeFrame
<1>31. CASE FinishMerge
  BY <1>31 DEF NoScript, FinishMerge, Goto
<1>32. CASE UNCHANGED vars
  BY <1>32 DEF vars
<1> QED
  BY <1>1, <1>2, <1>3, <1>4, <1>5, <1>6, <1>7, <1>8, <1>9, <1>10, <1>11,
     <1>12, <1>13, <1>14, <1>15, <1>16, <1>17, <1>18, <1>19, <1>20, <1>21,
     <1>22, <1>23, <1>24, <1>25, <1>26, <1>27, <1>28, <1>29, <1>30, <1>31,
     <1>32
  DEF Next, UserAction, MergeStep

(* Each step keeps the copies in order, if cp has room.                    *)
LEMMA CopiesStep ==
  ASSUME TypeOK, NothingUncovered, Stamped, HistoryKept, CopiesOrdered,
         CopyFits, ~OldStamps, [Next]_vars
  PROVE  CopiesOrdered'
<1> USE TreeAssumption, StampAssumption
<1> USE DEF TypeOK, NothingUncovered, LayersSound, LinesCovered, LineCovered,
            WhPass, NoLines, Stamped, HistoryKept, CopiesOrdered, Mend,
            Redone, CopyFits, Live, Saved, Masked, SfsValue, FilesIn,
            Record, Covered, Closed, SavedDir, Emptied, bottom, top, flags,
            Stamps, Window
<1>1. ASSUME NEW f \in Files, Write(f) PROVE CopiesOrdered'
  BY <1>1 DEF Write, UserStep, CopyUp, LiveDir
<1>2. ASSUME NEW f \in Files, Delete(f) PROVE CopiesOrdered'
  BY <1>2 DEF Delete, UserStep, CopyUp
<1>3. ASSUME NEW d \in Dirs, Rmdir(d) PROVE CopiesOrdered'
  BY <1>3 DEF Rmdir, UserStep
<1>4. ASSUME NEW d \in Dirs, Mkdir(d) PROVE CopiesOrdered'
  BY <1>4 DEF Mkdir, UserStep, LiveDir
<1>5. CASE RequestExit
  BY <1>5 DEF RequestExit
<1>6. CASE HangUp
  BY <1>6 DEF NoScript, HangUp, shown
<1>7. CASE PowerFail
  BY <1>7 DEF NoScript, PowerFail, shown
<1>8. CASE StartMerge
  BY <1>8 DEF StartMerge, Goto
<1>9. ASSUME NEW f \in Files, RemoveFile(f) PROVE CopiesOrdered'
  BY <1>9 DEF RemoveFile, Read, WhFrame, MergeFrame
<1>10. CASE TouchWh
  BY <1>10 DEF TouchWh, NextCommand, WhFrame, MergeFrame
<1>11. CASE DropWh
  BY <1>11 DEF DropWh, LineDone, WhFrame, MergeFrame
<1>12. ASSUME NEW d \in Dirs, RemoveDir(d) PROVE CopiesOrdered'
  BY <1>12 DEF RemoveDir, EmptyBaseDir, Read, WhFrame, MergeFrame
<1>13. CASE TouchDir
  BY <1>13 DEF TouchDir, NextCommand, WhFrame, MergeFrame
<1>14. CASE DropDir
  BY <1>14 DEF DropDir, LineDone, WhFrame, MergeFrame
<1>15. ASSUME NEW d \in Dirs, RemoveOpaque(d) PROVE CopiesOrdered'
  BY <1>15 DEF RemoveOpaque, EmptyBaseDir, Read, WhFrame, MergeFrame
<1>16. CASE TouchOpaque
  BY <1>16 DEF TouchOpaque, NextCommand, WhFrame, MergeFrame
<1>17. CASE DropOpaque
  BY <1>17 DEF DropOpaque, LineDone, WhFrame, MergeFrame
<1>18. CASE EndWhiteouts
  BY <1>18 DEF EndWhiteouts, Goto, WhFrame, MergeFrame
<1>19. ASSUME NEW d \in Dirs, MakeDir(d) PROVE CopiesOrdered'
  BY <1>19 DEF MakeDir, Goto, WhFrame, MergeFrame
<1>20. CASE EndDirs
  BY <1>20 DEF EndDirs, Goto, MergeFrame
<1>21. ASSUME NEW f \in Files, CheckFile(f) PROVE CopiesOrdered'
  BY <1>21 DEF CheckFile, Read, MergeFrame
<1>22. CASE RemoveLink
  BY <1>22 DEF RemoveLink, NextCommand, FileFrame, MergeFrame
<1>23. CASE CopyLink
  BY <1>23 DEF CopyLink, Readable, NextCommand, FileFrame, MergeFrame
<1>24. CASE OpenCopy
  BY <1>24 DEF OpenCopy, Wanted, Readable, NextCommand, FileFrame, MergeFrame
<1>25. CASE SkipCopy
  BY <1>25 DEF SkipCopy, NextCommand, FileFrame, MergeFrame
<1>26. CASE CloseCopy
  BY <1>26, CopyEnds DEF CloseCopy, NextCommand, FileFrame, MergeFrame
<1>27. CASE UnWhiteout
  BY <1>27 DEF UnWhiteout, LineDone, FileFrame, MergeFrame
<1>28. CASE EndFiles
  BY <1>28 DEF EndFiles, LeaveFiles, Goto, MergeFrame
<1>29. ASSUME NEW f \in Files, FileGone(f) PROVE CopiesOrdered'
  BY <1>29 DEF FileGone, LeaveFiles, Goto, MergeFrame
<1>30. ASSUME NEW f \in Files, NoRoom(f) PROVE CopiesOrdered'
  BY <1>30 DEF NoRoom, LeaveFiles, Goto, MergeFrame
<1>31. CASE FinishMerge
  BY <1>31 DEF NoScript, FinishMerge, Goto
<1>32. CASE UNCHANGED vars
  BY <1>32 DEF vars
<1> QED
  BY <1>1, <1>2, <1>3, <1>4, <1>5, <1>6, <1>7, <1>8, <1>9, <1>10, <1>11,
     <1>12, <1>13, <1>14, <1>15, <1>16, <1>17, <1>18, <1>19, <1>20, <1>21,
     <1>22, <1>23, <1>24, <1>25, <1>26, <1>27, <1>28, <1>29, <1>30, <1>31,
     <1>32
  DEF Next, UserAction, MergeStep

(* Each step of a quiet merge settles the file of its line.                *)
LEMMA SettledStep ==
  ASSUME TypeOK, NothingUncovered, Stamped, QuietPass, CopiesOrdered,
         FilesSettled, CopyFits, [Next]_vars
  PROVE  FilesSettled'
<1> USE TreeAssumption, StampAssumption
<1> USE DEF TypeOK, NothingUncovered, LayersSound, LinesCovered, LineCovered,
            WhPass, NoLines, Stamped, QuietPass, CopiesOrdered, FilesSettled,
            SettledFiles, Whole, GivenUp, Worked, ToSave, FilePass, Shadowed,
            CopyFits, Live, Saved, Masked, SfsValue, FilesIn, Record,
            Covered, Closed, SavedDir, Emptied, bottom, top, flags, Stamps
<1>1. ASSUME NEW f \in Files, Write(f) PROVE FilesSettled'
  BY <1>1 DEF Write, UserStep, CopyUp, LiveDir
<1>2. ASSUME NEW f \in Files, Delete(f) PROVE FilesSettled'
  BY <1>2 DEF Delete, UserStep, CopyUp
<1>3. ASSUME NEW d \in Dirs, Rmdir(d) PROVE FilesSettled'
  BY <1>3 DEF Rmdir, UserStep
<1>4. ASSUME NEW d \in Dirs, Mkdir(d) PROVE FilesSettled'
  BY <1>4 DEF Mkdir, UserStep, LiveDir
<1>5. CASE RequestExit
  BY <1>5 DEF RequestExit
<1>6. CASE HangUp
  BY <1>6 DEF NoScript, HangUp, shown
<1>7. CASE PowerFail
  BY <1>7 DEF NoScript, PowerFail, shown
<1>8. CASE StartMerge
  BY <1>8 DEF StartMerge, Goto
<1>9. ASSUME NEW f \in Files, RemoveFile(f) PROVE FilesSettled'
  BY <1>9 DEF RemoveFile, Read, WhFrame, MergeFrame
<1>10. CASE TouchWh
  BY <1>10 DEF TouchWh, NextCommand, WhFrame, MergeFrame
<1>11. CASE DropWh
  BY <1>11 DEF DropWh, LineDone, WhFrame, MergeFrame
<1>12. ASSUME NEW d \in Dirs, RemoveDir(d) PROVE FilesSettled'
  BY <1>12 DEF RemoveDir, EmptyBaseDir, Read, WhFrame, MergeFrame
<1>13. CASE TouchDir
  BY <1>13 DEF TouchDir, NextCommand, WhFrame, MergeFrame
<1>14. CASE DropDir
  BY <1>14 DEF DropDir, LineDone, WhFrame, MergeFrame
<1>15. ASSUME NEW d \in Dirs, RemoveOpaque(d) PROVE FilesSettled'
  BY <1>15 DEF RemoveOpaque, EmptyBaseDir, Read, WhFrame, MergeFrame
<1>16. CASE TouchOpaque
  BY <1>16 DEF TouchOpaque, NextCommand, WhFrame, MergeFrame
<1>17. CASE DropOpaque
  BY <1>17 DEF DropOpaque, LineDone, WhFrame, MergeFrame
<1>18. CASE EndWhiteouts
  BY <1>18 DEF EndWhiteouts, Goto, WhFrame, MergeFrame
<1>19. ASSUME NEW d \in Dirs, MakeDir(d) PROVE FilesSettled'
  BY <1>19 DEF MakeDir, Goto, WhFrame, MergeFrame
<1>20. CASE EndDirs
  BY <1>20 DEF EndDirs, Goto, MergeFrame
<1>21. ASSUME NEW f \in Files, CheckFile(f) PROVE FilesSettled'
  BY <1>21 DEF CheckFile, Read, MergeFrame
<1>22. CASE RemoveLink
  BY <1>22 DEF RemoveLink, NextCommand, FileFrame, MergeFrame
<1>23. CASE CopyLink
  BY <1>23 DEF CopyLink, Readable, NextCommand, FileFrame, MergeFrame
<1>24. CASE OpenCopy
  BY <1>24 DEF OpenCopy, Wanted, Readable, NextCommand, FileFrame, MergeFrame
<1>25. CASE SkipCopy
  BY <1>25 DEF SkipCopy, Wanted, Readable, AsNew, NextCommand, FileFrame, MergeFrame
<1>26. CASE CloseCopy
  BY <1>26, CopyEnds DEF CloseCopy, NextCommand, FileFrame, MergeFrame
<1>27. CASE UnWhiteout
  BY <1>27 DEF UnWhiteout, LineDone, FileFrame, MergeFrame
<1>28. CASE EndFiles
  BY <1>28 DEF EndFiles, LeaveFiles, Goto, MergeFrame
<1>29. ASSUME NEW f \in Files, FileGone(f) PROVE FilesSettled'
  BY <1>29 DEF FileGone, LeaveFiles, Goto, MergeFrame
<1>30. ASSUME NEW f \in Files, NoRoom(f) PROVE FilesSettled'
  BY <1>30 DEF NoRoom, LeaveFiles, Goto, MergeFrame
<1>31. CASE FinishMerge
  BY <1>31 DEF NoScript, FinishMerge, Goto
<1>32. CASE UNCHANGED vars
  BY <1>32 DEF vars
<1> QED
  BY <1>1, <1>2, <1>3, <1>4, <1>5, <1>6, <1>7, <1>8, <1>9, <1>10, <1>11,
     <1>12, <1>13, <1>14, <1>15, <1>16, <1>17, <1>18, <1>19, <1>20, <1>21,
     <1>22, <1>23, <1>24, <1>25, <1>26, <1>27, <1>28, <1>29, <1>30, <1>31,
     <1>32
  DEF Next, UserAction, MergeStep

(* Each step keeps what an old whiteout hides.                             *)
LEMMA HiddenStep ==
  ASSUME TypeOK, NothingUncovered, Stamped, RecoveryPoint, HiddenKept,
         [Next]_vars
  PROVE  HiddenKept'
<1> USE TreeAssumption, StampAssumption
<1> USE DEF TypeOK, NothingUncovered, LayersSound, LinesCovered, LineCovered,
            WhPass, NoLines, Stamped, RecoveryPoint, HiddenKept, Vanished,
            ToSave, Shadowed, Window, Redone, Live, Saved, Masked, SfsValue,
            FilesIn, Record, Covered, Closed, SavedDir, Emptied, bottom, top,
            flags, Stamps
<1>1. ASSUME NEW f \in Files, Write(f) PROVE HiddenKept'
  BY <1>1 DEF Write, UserStep, CopyUp, LiveDir
<1>2. ASSUME NEW f \in Files, Delete(f) PROVE HiddenKept'
  BY <1>2 DEF Delete, UserStep, CopyUp
<1>3. ASSUME NEW d \in Dirs, Rmdir(d) PROVE HiddenKept'
  BY <1>3 DEF Rmdir, UserStep
<1>4. ASSUME NEW d \in Dirs, Mkdir(d) PROVE HiddenKept'
  BY <1>4 DEF Mkdir, UserStep, LiveDir
<1>5. CASE RequestExit
  BY <1>5 DEF RequestExit
<1>6. CASE HangUp
  BY <1>6 DEF NoScript, HangUp, shown
<1>7. CASE PowerFail
  BY <1>7 DEF NoScript, PowerFail, shown
<1>8. CASE StartMerge
  BY <1>8 DEF StartMerge, Goto
<1>9. ASSUME NEW f \in Files, RemoveFile(f) PROVE HiddenKept'
  BY <1>9 DEF RemoveFile, Read, WhFrame, MergeFrame
<1>10. CASE TouchWh
  BY <1>10 DEF TouchWh, NextCommand, WhFrame, MergeFrame
<1>11. CASE DropWh
  BY <1>11 DEF DropWh, LineDone, WhFrame, MergeFrame
<1>12. ASSUME NEW d \in Dirs, RemoveDir(d) PROVE HiddenKept'
  BY <1>12 DEF RemoveDir, EmptyBaseDir, Read, WhFrame, MergeFrame
<1>13. CASE TouchDir
  BY <1>13 DEF TouchDir, NextCommand, WhFrame, MergeFrame
<1>14. CASE DropDir
  BY <1>14 DEF DropDir, LineDone, WhFrame, MergeFrame
<1>15. ASSUME NEW d \in Dirs, RemoveOpaque(d) PROVE HiddenKept'
  BY <1>15 DEF RemoveOpaque, EmptyBaseDir, Read, WhFrame, MergeFrame
<1>16. CASE TouchOpaque
  BY <1>16 DEF TouchOpaque, NextCommand, WhFrame, MergeFrame
<1>17. CASE DropOpaque
  BY <1>17 DEF DropOpaque, LineDone, WhFrame, MergeFrame
<1>18. CASE EndWhiteouts
  BY <1>18 DEF EndWhiteouts, Goto, WhFrame, MergeFrame
<1>19. ASSUME NEW d \in Dirs, MakeDir(d) PROVE HiddenKept'
  BY <1>19 DEF MakeDir, Goto, WhFrame, MergeFrame
<1>20. CASE EndDirs
  BY <1>20 DEF EndDirs, Goto, MergeFrame
<1>21. ASSUME NEW f \in Files, CheckFile(f) PROVE HiddenKept'
  BY <1>21 DEF CheckFile, Read, MergeFrame
<1>22. CASE RemoveLink
  BY <1>22 DEF RemoveLink, NextCommand, FileFrame, MergeFrame
<1>23. CASE CopyLink
  BY <1>23 DEF CopyLink, Readable, NextCommand, FileFrame, MergeFrame
<1>24. CASE OpenCopy
  BY <1>24 DEF OpenCopy, Wanted, Readable, NextCommand, FileFrame, MergeFrame
<1>25. CASE SkipCopy
  BY <1>25 DEF SkipCopy, NextCommand, FileFrame, MergeFrame
<1>26. CASE CloseCopy
  BY <1>26 DEF CloseCopy, NextCommand, FileFrame, MergeFrame
<1>27. CASE UnWhiteout
  BY <1>27 DEF UnWhiteout, LineDone, FileFrame, MergeFrame
<1>28. CASE EndFiles
  BY <1>28 DEF EndFiles, LeaveFiles, Goto, MergeFrame
<1>29. ASSUME NEW f \in Files, FileGone(f) PROVE HiddenKept'
  BY <1>29 DEF FileGone, LeaveFiles, Goto, MergeFrame
<1>30. ASSUME NEW f \in Files, NoRoom(f) PROVE HiddenKept'
  BY <1>30 DEF NoRoom, LeaveFiles, Goto, MergeFrame
<1>31. CASE FinishMerge
  BY <1>31 DEF NoScript, FinishMerge, Goto
<1>32. CASE UNCHANGED vars
  BY <1>32 DEF vars
<1> QED
  BY <1>1, <1>2, <1>3, <1>4, <1>5, <1>6, <1>7, <1>8, <1>9, <1>10, <1>11,
     <1>12, <1>13, <1>14, <1>15, <1>16, <1>17, <1>18, <1>19, <1>20, <1>21,
     <1>22, <1>23, <1>24, <1>25, <1>26, <1>27, <1>28, <1>29, <1>30, <1>31,
     <1>32
  DEF Next, UserAction, MergeStep

(* Each step keeps the recovery point.  RemoveFile, RemoveDir, RemoveOpaque,*)
(* RemoveLink and OpenCopy open a window.  TouchWh, TouchDir and           *)
(* TouchOpaque close it as the user has seen the file gone (HistoryKept);  *)
(* CopyLink, CloseCopy and UnWhiteout as what was copied was shown, or a   *)
(* later merge copies it again (CopiesOrdered, HiddenKept); a HangUp by    *)
(* bare.  FinishMerge forgets the history: FilesSettled.                   *)
LEMMA RecoveryStep ==
  ASSUME TypeOK, NothingUncovered, Stamped, HistoryKept, QuietPass,
         CopiesOrdered, FilesSettled, HiddenKept, RecoveryPoint, CopyFits,
         ~OldStamps, [Next]_vars
  PROVE  RecoveryPoint'
<1> USE TreeAssumption, StampAssumption
<1> USE DEF TypeOK, NothingUncovered, LayersSound, LinesCovered, LineCovered,
            WhPass, NoLines, Stamped, HistoryKept, QuietPass, CopiesOrdered,
            FilesSettled, HiddenKept, RecoveryPoint, Vanished, Mend, Redone,
            SettledFiles, Whole, GivenUp, Worked, ToSave, FilePass, Shadowed,
            Window, CopyFits, Live, Saved, Masked, SfsValue, FilesIn,
            Record, Covered, Closed, SavedDir, Emptied, bottom, top, flags,
            Stamps
<1>1. ASSUME NEW f \in Files, Write(f) PROVE RecoveryPoint'
  BY <1>1 DEF Write, UserStep, CopyUp, LiveDir
<1>2. ASSUME NEW f \in Files, Delete(f) PROVE RecoveryPoint'
  BY <1>2 DEF Delete, UserStep, CopyUp
<1>3. ASSUME NEW d \in Dirs, Rmdir(d) PROVE RecoveryPoint'
  BY <1>3 DEF Rmdir, UserStep
<1>4. ASSUME NEW d \in Dirs, Mkdir(d) PROVE RecoveryPoint'
  BY <1>4 DEF Mkdir, UserStep, LiveDir
<1>5. CASE RequestExit
  BY <1>5 DEF RequestExit
<1>6. CASE HangUp
  BY <1>6 DEF NoScript, HangUp, shown
<1>7. CASE PowerFail
  BY <1>7 DEF NoScript, PowerFail, shown
<1>8. CASE StartMerge
  BY <1>8 DEF StartMerge, Goto
<1>9. ASSUME NEW f \in Files, RemoveFile(f) PROVE RecoveryPoint'
  BY <1>9 DEF RemoveFile, Read, WhFrame, MergeFrame
<1>10. CASE TouchWh
  BY <1>10 DEF TouchWh, NextCommand, WhFrame, MergeFrame
<1>11. CASE DropWh
  BY <1>11 DEF DropWh, LineDone, WhFrame, MergeFrame
<1>12. ASSUME NEW d \in Dirs, RemoveDir(d) PROVE RecoveryPoint'
  BY <1>12 DEF RemoveDir, EmptyBaseDir, Read, WhFrame, MergeFrame
<1>13. CASE TouchDir
  BY <1>13 DEF TouchDir, NextCommand, WhFrame, MergeFrame
<1>14. CASE DropDir
  BY <1>14 DEF DropDir, LineDone, WhFrame, MergeFrame
<1>15. ASSUME NEW d \in Dirs, RemoveOpaque(d) PROVE RecoveryPoint'
  BY <1>15 DEF RemoveOpaque, EmptyBaseDir, Read, WhFrame, MergeFrame
<1>16. CASE TouchOpaque
  BY <1>16 DEF TouchOpaque, NextCommand, WhFrame, MergeFrame
<1>17. CASE DropOpaque
  BY <1>17 DEF DropOpaque, LineDone, WhFrame, MergeFrame
<1>18. CASE EndWhiteouts
  BY <1>18 DEF EndWhiteouts, Goto, WhFrame, MergeFrame
<1>19. ASSUME NEW d \in Dirs, MakeDir(d) PROVE RecoveryPoint'
  BY <1>19 DEF MakeDir, Goto, WhFrame, MergeFrame
<1>20. CASE EndDirs
  BY <1>20 DEF EndDirs, Goto, MergeFrame
<1>21. ASSUME NEW f \in Files, CheckFile(f) PROVE RecoveryPoint'
  BY <1>21 DEF CheckFile, Read, MergeFrame
<1>22. CASE RemoveLink
  BY <1>22 DEF RemoveLink, NextCommand, FileFrame, MergeFrame
<1>23. CASE CopyLink
  BY <1>23 DEF CopyLink, Readable, NextCommand, FileFrame, MergeFrame
<1>24. CASE OpenCopy
  BY <1>24 DEF OpenCopy, Wanted, Readable, NextCommand, FileFrame, MergeFrame
<1>25. CASE SkipCopy
  BY <1>25 DEF SkipCopy, NextCommand, FileFrame, MergeFrame
<1>26. CASE CloseCopy
  BY <1>26, CopyEnds DEF CloseCopy, NextCommand, FileFrame, MergeFrame
<1>27. CASE UnWhiteout
  BY <1>27 DEF UnWhiteout, LineDone, FileFrame, MergeFrame
<1>28. CASE EndFiles
  BY <1>28 DEF EndFiles, LeaveFiles, Goto, MergeFrame
<1>29. ASSUME NEW f \in Files, FileGone(f) PROVE RecoveryPoint'
  BY <1>29 DEF FileGone, LeaveFiles, Goto, MergeFrame
<1>30. ASSUME NEW f \in Files, NoRoom(f) PROVE RecoveryPoint'
  BY <1>30 DEF NoRoom, LeaveFiles, Goto, MergeFrame
<1>31. CASE FinishMerge
  BY <1>31 DEF NoScript, FinishMerge, Goto
<1>32. CASE UNCHANGED vars
  BY <1>32 DEF vars
<1> QED
  BY <1>1, <1>2, <1>3, <1>4, <1>5, <1>6, <1>7, <1>8, <1>9, <1>10, <1>11,
     <1>12, <1>13, <1>14, <1>15, <1>16, <1>17, <1>18, <1>19, <1>20, <1>21,
     <1>22, <1>23, <1>24, <1>25, <1>26, <1>27, <1>28, <1>29, <1>30, <1>31,
     <1>32
  DEF Next, UserAction, MergeStep

-----------------------------------------------------------------------------
(* The inductive invariant; that cp has room is a premise of its steps.    *)
RecoveryInv == /\ Stamped /\ HistoryKept /\ QuietPass /\ CopiesOrdered
               /\ FilesSettled /\ HiddenKept /\ RecoveryPoint

(* It holds when the live system boots.                                    *)
LEMMA RecoveryInit == Init => RecoveryInv
BY TreeAssumption, StampAssumption
DEF Init, RecoveryInv, Stamped, HistoryKept, QuietPass, CopiesOrdered, FilesSettled,
    HiddenKept, RecoveryPoint, ToSave, Worked, FilePass, Vanished, NoLines, WhPass,
    Masked, Live, Saved, SfsValue, Stamps

(* Each step keeps it.                                                     *)
LEMMA RecoveryKept ==
  ASSUME ~OldStamps
  PROVE  Spec /\ []CopyFits => []RecoveryInv
<1>1. /\ TypeOK /\ NothingUncovered /\ CopyFits /\ RecoveryInv
      /\ [Next]_vars
      => RecoveryInv'
  BY StampedStep, HistoryStep, QuietStep, CopiesStep, SettledStep, HiddenStep,
     RecoveryStep DEF RecoveryInv
<1> QED
  BY <1>1, RecoveryInit, TypeCorrect, Uncovering, PTL DEF Spec

(* A user who restores no old mtime finds each file, after a power failure *)
(* at any moment, as the running system has shown it since the last merge  *)
(* that ran undisturbed to its end, but for the exceptions that            *)
(* RecoveryPoint names, if cp always had room.                             *)
THEOREM RecoveryIfRoom ==
  ~OldStamps => (Spec /\ []CopyFits => []RecoveryPoint)
<1> SUFFICES ASSUME ~OldStamps PROVE Spec /\ []CopyFits => []RecoveryPoint
  OBVIOUS
<1>1. RecoveryInv => RecoveryPoint
  BY DEF RecoveryInv
<1> QED
  BY <1>1, RecoveryKept, PTL

(* So it is for every user whose files all fit, and for one whose files    *)
(* are small as long as none grows between its stat and the end of its cp. *)
THEOREM Recovery ==
  ~OldStamps =>
    /\ AllFit => (Spec => []RecoveryPoint)
    /\ SmallOnly => (Spec /\ [](grown = 0) => []RecoveryPoint)
<1> SUFFICES ASSUME ~OldStamps
             PROVE  /\ AllFit => (Spec => []RecoveryPoint)
                    /\ SmallOnly => (Spec /\ [](grown = 0) => []RecoveryPoint)
  OBVIOUS
<1>1. ASSUME AllFit PROVE Spec => []RecoveryPoint
  BY <1>1, RoomForCopy, RecoveryIfRoom, PTL
<1>2. ASSUME SmallOnly PROVE Spec /\ [](grown = 0) => []RecoveryPoint
  <2>1. TypeOK /\ EnoughRoom /\ grown = 0 => CopyFits
    BY DEF TypeOK, SpaceOK, EnoughRoom, CopyFits
  <2> QED
    BY <1>2, <2>1, TypeCorrect, RoomForCopy, RecoveryIfRoom, PTL
<1> QED
  BY <1>1, <1>2

(* A quiet, complete merge saves what the live view shows: snapmerge_redir *)
(* is a case of the one exception, snapmerge with its hang-ups of the      *)
(* other.                                                                  *)
THEOREM QuietMergeSaves ==
  ~OldStamps => (Spec /\ []CopyFits => []MergeSaves)
<1> SUFFICES ASSUME ~OldStamps PROVE Spec /\ []CopyFits => []MergeSaves
  OBVIOUS
<1>1. RecoveryInv => MergeSaves
  BY DEF RecoveryInv, MergeSaves, FilesSettled, SettledFiles, Stamped,
         FilePass, Worked, NoLines
<1> QED
  BY <1>1, RecoveryKept, PTL
=============================================================================

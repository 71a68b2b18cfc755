----------------------------- MODULE TreeProofs -----------------------------
(***************************************************************************)
(* Proofs about SnapMerge, on top of SnapMergeProofs: for the user the     *)
(* union of the layers is the ordinary tree of FileTree, whatever files    *)
(* and directories there are and whatever merges go on beneath it.         *)
(***************************************************************************)
EXTENDS SnapMergeProofs

(* Each file of either view lies in a directory of it.                     *)
TreesRooted ==
  Tree!Rooted(LiveTree, LiveDirs) /\ Tree!Rooted(SavedTree, SavedDirs)

(* It holds of both views.                                                 *)
LEMMA Rooting ==
  ASSUME TypeOK, LayersSound
  PROVE  TreesRooted
<1>1. ASSUME NEW f \in Files, Saved(f) # None PROVE SavedDir(DirOf[f])
  BY <1>1, TreeAssumption DEF Saved, SavedDir, SfsValue, LayersSound
<1>2. ASSUME NEW f \in Files, Live(f) # None PROVE LiveDir(DirOf[f])
  <2>1. CASE snap[f] # None
    BY <2>1 DEF LayersSound, LiveDir
  <2>2. CASE snap[f] = None
    <3>1. ~Masked(DirOf[f]) /\ Saved(f) # None
      BY <1>2, <2>2, StampAssumption DEF Live, Stamps
    <3> QED
      BY <1>1, <3>1, TreeAssumption DEF LiveDir, Masked, TypeOK
  <2> QED
    BY <2>1, <2>2
<1> QED
  BY <1>1, <1>2, TreeAssumption
  DEF TreesRooted, Tree!Rooted, LiveTree, LiveDirs, SavedTree, SavedDirs

(* The saved view belongs to BASE alone.                                   *)
LEMMA SavedUnchanged ==
  ASSUME UNCHANGED shown
  PROVE  SavedTree' = SavedTree /\ SavedDirs' = SavedDirs
BY DEF shown, SavedTree, SavedDirs, Saved, SavedDir

(* The live view belongs to both layers.                                   *)
LEMMA LiveUnchanged ==
  ASSUME UNCHANGED <<top, shown>>
  PROVE  LiveTree' = LiveTree /\ LiveDirs' = LiveDirs
BY DEF top, shown, LiveTree, LiveDirs, Live, LiveDir, Saved, SavedDir, Masked

(* Writing a file changes that file and no directory.                      *)
LEMMA WriteTree ==
  ASSUME TypeOK, LayersSound, NEW f \in Files, Write(f)
  PROVE  Tree!Write(f)
<1>1. UNCHANGED shown
  BY DEF Write, UserStep, bottom, shown
<1>2. PICK t \in Stamps : snap' = [snap EXCEPT ![f] = t]
  BY DEF Write
<1>3. snapDir' = CopyUp(DirOf[f]) /\ LiveDir(DirOf[f])
  BY DEF Write
<1>4. LiveTree' = [LiveTree EXCEPT ![f] = t]
  BY <1>1, <1>2, <1>3, TreeAssumption, StampAssumption
  DEF LiveTree, Live, Saved, Masked, shown, CopyUp, LiveDir, TypeOK, SavedDir
<1>5. LiveDirs' = LiveDirs
  BY <1>1, <1>3, TreeAssumption DEF LiveDirs, LiveDir, SavedDir, CopyUp,
     shown, TypeOK
<1>6. DirOf[f] \in LiveDirs
  BY <1>3, TreeAssumption DEF LiveDirs
<1>7. \E v \in Stamps \union {Torn} : LiveTree' = [LiveTree EXCEPT ![f] = v]
  BY <1>4
<1>8. UNCHANGED <<SavedTree, SavedDirs>>
  BY <1>1, SavedUnchanged
<1> QED
  BY <1>5, <1>6, <1>7, <1>8 DEF Tree!Write, Tree!kept

(* So does removing one: what lies below SNAP of it is hidden.             *)
LEMMA DeleteTree ==
  ASSUME TypeOK, LayersSound, NEW f \in Files, Delete(f)
  PROVE  Tree!Delete(f)
<1>1. UNCHANGED shown
  BY DEF Delete, UserStep, bottom, shown
<1>2. LiveTree[f] # None
  BY DEF Delete, LiveTree
<1>3. LiveTree' = [LiveTree EXCEPT ![f] = None]
  <2>1. snap' = [snap EXCEPT ![f] = snap'[f]] /\ snap'[f] \in {None, Wh}
    BY DEF Delete, TypeOK
  <2>2. \A d \in Dirs : Masked(d)' <=> Masked(d)
    BY TreeAssumption DEF Delete, Masked, CopyUp, TypeOK
  <2>3. Live(f)' = None
    BY <1>1, <2>2, TreeAssumption, StampAssumption
    DEF Delete, Live, Saved, Masked, CopyUp, shown, TypeOK, Stamps
  <2>4. ASSUME NEW g \in Files, g # f PROVE Live(g)' = Live(g)
    BY <1>1, <2>1, <2>2, <2>4, TreeAssumption
    DEF Live, Saved, Masked, shown, TypeOK
  <2> QED
    BY <2>3, <2>4 DEF LiveTree
<1>4. LiveDirs' = LiveDirs
  BY <1>1, TreeAssumption
  DEF Delete, LiveDirs, LiveDir, SavedDir, CopyUp, shown, TypeOK, Masked, Saved,
      LayersSound, SfsValue
<1> QED
  BY <1>1, <1>2, <1>3, <1>4, SavedUnchanged DEF Tree!Delete, Tree!kept

(* A removed directory is gone, and had nothing in it.                     *)
LEMMA RmdirTree ==
  ASSUME TypeOK, LayersSound, NEW d \in Dirs, Rmdir(d)
  PROVE  Tree!Rmdir(d)
<1>1. UNCHANGED shown
  BY DEF Rmdir, UserStep, bottom, shown
<1>2. d \in LiveDirs /\ \A f \in Files : DirOf[f] = d => LiveTree[f] = None
  BY DEF Rmdir, LiveDirs, LiveTree, FilesIn
<1>3. LiveTree' = LiveTree
  BY <1>1, TreeAssumption, StampAssumption
  DEF Rmdir, LiveTree, Live, Saved, SavedDir, SfsValue, Masked, FilesIn, shown,
      LayersSound, TypeOK, Stamps
<1>4. LiveDirs' = LiveDirs \ {d}
  BY <1>1 DEF Rmdir, LiveDirs, LiveDir, SavedDir, shown, TypeOK
<1> QED
  BY <1>1, <1>2, <1>3, <1>4, SavedUnchanged DEF Tree!Rmdir, Tree!kept

(* A directory made over its whiteout is opaque: what it had stays away.   *)
LEMMA MkdirTree ==
  ASSUME TypeOK, LayersSound, NEW d \in Dirs, Mkdir(d)
  PROVE  Tree!Mkdir(d) \/ UNCHANGED <<LiveTree, LiveDirs, SavedTree, SavedDirs>>
<1>1. UNCHANGED shown
  BY DEF Mkdir, UserStep, bottom, shown
<1>2. LiveTree' = LiveTree
  BY <1>1, TreeAssumption, StampAssumption
  DEF Mkdir, LiveTree, Live, LiveDir, Saved, SavedDir, SfsValue, Masked, shown,
      LayersSound, TypeOK, Stamps
<1>3. LiveDirs' = LiveDirs \union {d}
  BY <1>1 DEF Mkdir, LiveDirs, LiveDir, SavedDir, shown, TypeOK
<1>4. CASE d \in LiveDirs
  BY <1>1, <1>2, <1>3, <1>4, SavedUnchanged
<1>5. CASE d \notin LiveDirs
  BY <1>1, <1>2, <1>3, <1>5, SavedUnchanged DEF Tree!Mkdir, Tree!kept
<1> QED
  BY <1>4, <1>5

(* After a power failure the user finds the saved view.                    *)
LEMMA PowerFailTree ==
  ASSUME TypeOK, PowerFail
  PROVE  Tree!PowerFail
<1>1. UNCHANGED shown
  BY DEF PowerFail
<1>2. LiveTree' = SavedTree
  BY <1>1, TreeAssumption, StampAssumption
  DEF PowerFail, LiveTree, SavedTree, Live, Saved, Masked, shown, Stamps
<1>3. LiveDirs' = SavedDirs
  BY <1>1 DEF PowerFail, LiveDirs, SavedDirs, LiveDir, SavedDir, shown
<1> QED
  BY <1>1, <1>2, <1>3, SavedUnchanged DEF Tree!PowerFail, Tree!kept

(* The other commands leave every directory as it is.                      *)
LEMMA DirsSame ==
  ASSUME TypeOK, NothingUncovered, MergeStep,
         ~TouchOpaque, \A d \in Dirs : ~MakeDir(d)
  PROVE  LiveDirs' = LiveDirs
<1> USE TreeAssumption, StampAssumption
<1> USE DEF TypeOK, NothingUncovered, LayersSound, LinesCovered, LineCovered,
            WhPass, NoLines, Live, Saved, Masked, SfsValue, FilesIn, Covered,
            Closed, SavedDir, Emptied, LiveDir, LiveDirs, bottom, shown, top, Stamps
<1>1. CASE StartMerge
  BY <1>1 DEF StartMerge, Goto
<1>2. ASSUME NEW f \in Files, RemoveFile(f) PROVE LiveDirs' = LiveDirs
  BY <1>2 DEF RemoveFile, Read, WhFrame, MergeFrame
<1>3. CASE TouchWh
  BY <1>3 DEF TouchWh, NextCommand, WhFrame, MergeFrame
<1>4. CASE DropWh
  BY <1>4 DEF DropWh, LineDone, WhFrame, MergeFrame
<1>5. ASSUME NEW d \in Dirs, RemoveDir(d) PROVE LiveDirs' = LiveDirs
  BY <1>5 DEF RemoveDir, EmptyBaseDir, Read, WhFrame, MergeFrame
<1>6. CASE TouchDir
  BY <1>6 DEF TouchDir, NextCommand, WhFrame, MergeFrame
<1>7. CASE DropDir
  BY <1>7 DEF DropDir, LineDone, WhFrame, MergeFrame
<1>8. ASSUME NEW d \in Dirs, RemoveOpaque(d) PROVE LiveDirs' = LiveDirs
  BY <1>8 DEF RemoveOpaque, EmptyBaseDir, Read, WhFrame, MergeFrame
<1>9. CASE DropOpaque
  BY <1>9 DEF DropOpaque, LineDone, WhFrame, MergeFrame
<1>10. CASE EndWhiteouts
  BY <1>10 DEF EndWhiteouts, Goto, WhFrame, MergeFrame
<1>11. CASE EndDirs
  BY <1>11 DEF EndDirs, Goto, MergeFrame
<1>12. ASSUME NEW f \in Files, CheckFile(f) PROVE LiveDirs' = LiveDirs
  BY <1>12 DEF CheckFile, Read, MergeFrame
<1>13. CASE RemoveLink
  BY <1>13 DEF RemoveLink, NextCommand, FileFrame, MergeFrame
<1>14. CASE CopyLink
  BY <1>14 DEF CopyLink, Readable, NextCommand, FileFrame, MergeFrame
<1>15. CASE OpenCopy
  BY <1>15 DEF OpenCopy, Wanted, Readable, NextCommand, FileFrame, MergeFrame
<1>16. CASE SkipCopy
  BY <1>16 DEF SkipCopy, NextCommand, FileFrame, MergeFrame
<1>17. CASE CloseCopy
  BY <1>17 DEF CloseCopy, NextCommand, FileFrame, MergeFrame
<1>18. CASE UnWhiteout
  BY <1>18 DEF UnWhiteout, LineDone, FileFrame, MergeFrame
<1>19. CASE EndFiles
  BY <1>19 DEF EndFiles, LeaveFiles, Goto, MergeFrame
<1>20. ASSUME NEW f \in Files, FileGone(f) PROVE LiveDirs' = LiveDirs
  BY <1>20 DEF FileGone, LeaveFiles, Goto, MergeFrame
<1>21. ASSUME NEW f \in Files, NoRoom(f) PROVE LiveDirs' = LiveDirs
  BY <1>21 DEF NoRoom, LeaveFiles, Goto, MergeFrame
<1>22. CASE FinishMerge
  BY <1>22 DEF NoScript, FinishMerge, Goto
<1> QED
  BY <1>1, <1>2, <1>3, <1>4, <1>5, <1>6, <1>7, <1>8, <1>9, <1>10, <1>11,
     <1>12, <1>13, <1>14, <1>15, <1>16, <1>17, <1>18, <1>19, <1>20, <1>21,
     <1>22
  DEF MergeStep

(* mkdir brings back the directory at hand at the most.                    *)
LEMMA DirReturns ==
  ASSUME TypeOK, NothingUncovered, NEW d \in Dirs,
         MakeDir(d) \/ (TouchOpaque /\ d = cur)
  PROVE  LiveDirs' = LiveDirs \/ LiveDirs' = LiveDirs \union {d}
<1>1. /\ baseDir' = baseDir \union {d}
      /\ UNCHANGED <<snapDir, baseDirWh>>
  BY DEF MakeDir, TouchOpaque, top
<1> QED
  BY <1>1 DEF LiveDirs, LiveDir, SavedDir

(* A step of the merge is one of the tree's.                               *)
LEMMA MergeTree ==
  ASSUME TypeOK, NothingUncovered, TreesRooted', MergeStep
  PROVE  Tree!Merge
<1>1. Tree!Rooted(SavedTree, SavedDirs)'
  BY DEF TreesRooted
<1>2. ASSUME NEW f \in Files PROVE Stable(f)
  BY MergeStable
<1>3. ASSUME NEW f \in Files, ~Resurrected(f) PROVE LiveTree'[f] = LiveTree[f]
  <2>1. Live(f)' = Live(f)
    BY <1>2, <1>3 DEF Stable
  <2> QED
    BY <2>1 DEF LiveTree
<1>4. CASE LiveTree' = LiveTree /\ LiveDirs' = LiveDirs
  BY <1>1, <1>4 DEF Tree!Merge, Tree!running
<1>5. ASSUME NEW d \in Dirs, MakeDir(d) \/ (TouchOpaque /\ d = cur) PROVE Tree!Merge
  <2>1. LiveTree' = LiveTree
    BY <1>3, <1>5 DEF LiveTree, Resurrected, MakeDir, TouchOpaque
  <2>2. LiveDirs' = LiveDirs \/ LiveDirs' = LiveDirs \union {d}
    BY <1>5, DirReturns
  <2>3. CASE d \in LiveDirs \/ LiveDirs' = LiveDirs
    BY <1>4, <2>1, <2>2, <2>3
  <2>4. CASE d \notin LiveDirs /\ LiveDirs' = LiveDirs \union {d}
    BY <1>1, <2>1, <2>4 DEF Tree!Merge, Tree!ReturnDir
  <2> QED
    BY <2>2, <2>3, <2>4
<1>6. CASE ~TouchOpaque /\ \A d \in Dirs : ~MakeDir(d)
  <2>1. LiveDirs' = LiveDirs
    BY <1>6, DirsSame
  <2>2. ASSUME NEW f \in Files, Resurrected(f), LiveTree'[f] # LiveTree[f]
        PROVE  Tree!Merge
    <3>1. UnWhiteout /\ pc = "unwh" /\ f = cur /\ snap[f] = None
      BY <2>2 DEF Resurrected, MergeStep, StartMerge, RemoveFile,
         CheckFile, FileGone,
         NoRoom, RemoveDir, RemoveOpaque, MakeDir, TouchWh, DropWh, TouchDir, DropDir,
         TouchOpaque, DropOpaque, EndWhiteouts, EndDirs, RemoveLink, CopyLink,
         OpenCopy, SkipCopy, CloseCopy, EndFiles, FinishMerge
    <3>2. /\ UNCHANGED <<snap, snapDir, base, torn, baseDirWh, baseOpq>>
          /\ baseWh' = baseWh \ {f}
      BY <3>1 DEF UnWhiteout, FileFrame, top
    <3>3. LiveTree[f] = None /\ SavedTree[f] = None /\ LiveTree'[f] = SavedTree'[f]
      BY <2>2, <3>1, <3>2, StampAssumption
      DEF LiveTree, SavedTree, Live, Saved, Masked, Stamps
    <3>4. LiveTree' = [LiveTree EXCEPT ![f] = SavedTree'[f]]
      <4>1. \A g \in Files : g # f => LiveTree'[g] = LiveTree[g]
        BY <1>3, <3>1 DEF Resurrected
      <4>2. /\ LiveTree = [g \in Files |-> LiveTree[g]]
            /\ LiveTree' = [g \in Files |-> LiveTree'[g]]
        BY DEF LiveTree
      <4> HIDE DEF LiveTree
      <4> QED
        BY <3>3, <4>1, <4>2
    <3>5. DirOf[f] \in LiveDirs
      <4>1. LiveTree'[f] # None
        BY <2>2, <3>3
      <4>2. Tree!Rooted(LiveTree, LiveDirs)'
        BY DEF TreesRooted
      <4> QED
        BY <2>1, <4>1, <4>2 DEF Tree!Rooted
    <3> QED
      BY <1>1, <2>1, <3>3, <3>4, <3>5 DEF Tree!Merge, Tree!Return
  <2>3. CASE \A f \in Files : LiveTree'[f] = LiveTree[f]
    <3>1. LiveTree' = LiveTree
      <4>1. /\ LiveTree = [g \in Files |-> LiveTree[g]]
            /\ LiveTree' = [g \in Files |-> LiveTree'[g]]
        BY DEF LiveTree
      <4> QED
        BY <2>3, <4>1
    <3> QED
      BY <1>4, <2>1, <3>1
  <2> QED
    BY <1>3, <2>2, <2>3
<1>7. TouchOpaque => cur \in Dirs
  BY DEF TypeOK, TouchOpaque
<1> QED
  BY <1>5, <1>6, <1>7

(* Each step of the system is one of the tree.                             *)
LEMMA TreeStep ==
  ASSUME TypeOK, NothingUncovered, TreesRooted', [Next]_vars
  PROVE  [Tree!Next]_(<<Tree!running, Tree!kept>>)
<1>1. CASE UserAction
  BY <1>1, WriteTree, DeleteTree, RmdirTree, MkdirTree
  DEF UserAction, NothingUncovered, Tree!Next, Tree!running, Tree!kept
<1>2. CASE MergeStep
  BY <1>2, MergeTree DEF Tree!Next
<1>3. CASE PowerFail
  BY <1>3, PowerFailTree DEF Tree!Next
<1>4. CASE RequestExit \/ HangUp \/ UNCHANGED vars
  <2>1. UNCHANGED <<top, shown>>
    BY <1>4 DEF RequestExit, HangUp, NoScript, vars, bottom, shown
  <2> QED
    BY <2>1, LiveUnchanged, SavedUnchanged DEF Tree!running, Tree!kept
<1> QED
  BY <1>1, <1>2, <1>3, <1>4 DEF Next

(* For the user the union is an ordinary tree: an operation changes what   *)
(* it names and nothing else, a directory made again is empty, a power     *)
(* failure puts the saved tree in its place, and a merge beneath it brings *)
(* back, at the most, one thing that the user has just removed.            *)
THEOREM OrdinaryTree == Spec => TreeSpec
<1>1. TypeOK /\ NothingUncovered => TreesRooted
  BY Rooting DEF NothingUncovered
<1>2. TreesRooted => Tree!Init
  BY DEF TreesRooted, Tree!Init
<1>3. TypeOK /\ NothingUncovered /\ TreesRooted' /\ [Next]_vars
        => [Tree!Next]_(<<Tree!running, Tree!kept>>)
  BY TreeStep
<1> QED
  BY <1>1, <1>2, <1>3, TypeCorrect, Uncovering, PTL DEF Spec, TreeSpec,
     Tree!Spec
=============================================================================

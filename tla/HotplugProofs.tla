----------------------------- MODULE HotplugProofs -----------------------------
(***************************************************************************)
(* Theorems about Hotplug and DriveButtons, for every set of names, drives *)
(* and letters: the state is well typed, every icon has its directory once *)
(* clean_desk_icons is done, letters are distinct until one is given back, *)
(* the daemon does in the composition only what it does alone, and         *)
(* set_drives dies only of an icon that is gone or whose directory was     *)
(* left unfinished when X ended.                                           *)
(***************************************************************************)
EXTENDS DriveButtons, TLAPS

HotplugSafety == Init /\ [][Next]_vars

(* The first of a set of names is one name. *)
LEMMA FirstIsOne ==
  ASSUME NEW S \in SUBSET Names, NEW m, IsFirst(m, S), NEW n, IsFirst(n, S)
  PROVE  m = n
  BY HotplugAssumption DEF IsFirst

-----------------------------------------------------------------------------
LEMMA InitTyped == Init => TypeOK
  <1> SUFFICES ASSUME Init PROVE TypeOK
    OBVIOUS
  <1>1. /\ block \in [Names -> Disks \union {NoDrive, NoMedium}]
        /\ known \in [Names -> Disks \union {None}]
        /\ block1 \in {None} \union SUBSET Names
        /\ request \in Names \union {None}
    BY DEF Init, Listable
  <1>2. /\ pin \subseteq Names /\ label \in [Names -> 0 .. Count]
        /\ partDir \in [Names -> Disks \union {None, Bare}]
        /\ driveDir \in [Names -> Disks \union {NoMedium, None, Bare}]
        /\ torn \subseteq Names
        /\ letters \in Seq(0 .. Count)
    BY HotplugAssumption DEF Init, Nothing
  <1>3. /\ pc = "clean" /\ hot \in BOOLEAN /\ kept \subseteq Names
        /\ probepart \in [Names -> Disks \union {None}]
        /\ probedisk \in [Names -> Disks \union {NoMedium, None}]
        /\ adds \subseteq Names /\ rems \subseteq Names
        /\ orderly \in BOOLEAN
    BY DEF Init, Nothing
  <1>4. changes \in 0 .. MaxChanges /\ starts \in 0 .. MaxStarts /\ tries \in 0 .. Retries
    BY HotplugAssumption DEF Init
  <1> QED BY <1>1, <1>2, <1>3, <1>4 DEF TypeOK, Cleaning

LEMMA EnvironmentTyped == TypeOK /\ Environment => TypeOK'
  <1> SUFFICES ASSUME TypeOK, Environment PROVE TypeOK'
    OBVIOUS
  <1> USE HotplugAssumption DEF TypeOK, Cleaning, icons, dirs, tmp, found, daemon
  <1>1. ASSUME NEW n \in Names, AskCounted(n) PROVE TypeOK'
    <2>1. changes' \in 0 .. MaxChanges
      BY <1>1 DEF AskCounted
    <2>2. request' \in Names \union {None}
      BY <1>1 DEF AskCounted, Ask
    <2> QED BY <1>1, <2>1, <2>2 DEF AskCounted, Ask
  <1>2. ASSUME NEW n \in Names, NEW v \in Disks \union {NoDrive, NoMedium},
               Change(n, v)
        PROVE  TypeOK'
    <2>1. changes' \in 0 .. MaxChanges
      BY <1>2 DEF Change
    <2>2. /\ block' \in [Names -> Disks \union {NoDrive, NoMedium}]
          /\ known' \in [Names -> Disks \union {None}]
      BY <1>2 DEF Change
    <2> QED BY <1>2, <2>1, <2>2 DEF Change
  <1>3. ASSUME NEW n \in Names, Notice(n) PROVE TypeOK'
    BY <1>3 DEF Notice, Listable, bounds
  <1>4. ASSUME DaemonDies
        PROVE  /\ pc' = "clean" /\ hot' \in BOOLEAN /\ kept' \subseteq Names
               /\ probepart' \in [Names -> Disks \union {None}]
               /\ probedisk' \in [Names -> Disks \union {NoMedium, None}]
               /\ tries' \in 0 .. Retries
               /\ adds' \subseteq Names /\ rems' \subseteq Names
               /\ torn' \subseteq Names /\ starts' \in 0 .. MaxStarts
               /\ UNCHANGED <<block, icons, partDir, driveDir, changes>>
    <2>1. starts' \in 0 .. MaxStarts /\ tries' \in 0 .. Retries
      BY <1>4 DEF DaemonDies
    <2> QED BY <1>4, <2>1 DEF DaemonDies, Nothing
  <1>5. CASE RestartX
    BY <1>4, <1>5 DEF RestartX
  <1>6. CASE Boot
    <2>1. letters' \in Seq(0 .. Count) /\ orderly' \in BOOLEAN
      BY <1>6 DEF Boot
    <2>2. known' \in [Names -> Disks \union {None}]
      BY <1>6 DEF Boot, Listable
    <2> QED BY <1>4, <1>6, <2>1, <2>2 DEF Boot
  <1> QED BY <1>1, <1>2, <1>3, <1>5, <1>6 DEF Environment

(* clean_desk_icons.                                                       *)
CleanStep == \/ CleanAll \/ Clean \/ EndGone \/ Empty \/ Fill
             \/ \E n \in Names : CheckGone(n) \/ CheckIcon(n)

LEMMA CleanTyped == TypeOK /\ CleanStep => TypeOK'
  <1> SUFFICES ASSUME TypeOK, CleanStep PROVE TypeOK'
    OBVIOUS
  <1> USE HotplugAssumption
      DEF TypeOK, Cleaning, CleanFrame, icons, dirs, tmp, found, bounds
  <1>1. CASE CleanAll
    BY <1>1 DEF CleanAll
  <1>2. CASE Clean \/ EndGone \/ Empty
    BY <1>2 DEF Clean, EndGone, Empty, Present
  <1>3. CASE Fill
    BY <1>3 DEF Fill
  <1>4. ASSUME NEW n \in Names, CheckGone(n) PROVE TypeOK'
    BY <1>4 DEF CheckGone
  <1>5. ASSUME NEW n \in Names, CheckIcon(n) PROVE TypeOK'
    <2>1. kept' \subseteq Names /\ rems' \subseteq Names /\ pc' \in {"look", "lookRm"}
      BY <1>5 DEF CheckIcon
    <2> QED BY <1>5, <2>1 DEF CheckIcon
  <1> QED BY <1>1, <1>2, <1>3, <1>4, <1>5 DEF CleanStep

LEMMA RmTyped == ASSUME TypeOK, NEW n \in Names, Rm(n) PROVE TypeOK'
  <1> USE DEF TypeOK, Cleaning, CleanFrame, icons, tmp, found, bounds
  <1>1. /\ partDir' \in [Names -> Disks \union {None, Bare}]
        /\ driveDir' \in [Names -> Disks \union {NoMedium, None, Bare}]
        /\ torn' \subseteq Names /\ rems' \subseteq Names
    BY DEF Rm, RmDir
  <1>2. pc' \in {"goneRm", "lookRm", "sweep", "rmdir", "gone", "look", "probe", "sleep", "unpin"}
    BY DEF Rm
  <1> QED BY <1>1, <1>2 DEF Rm

(* Blanking lines of the list leaves a list. *)
LEMMA RelTyped ==
  ASSUME letters \in Seq(0 .. Count), Count \in Nat, NEW c, rel_drive_letter(c)
  PROVE  letters' \in Seq(0 .. Count)
  <1>1. letters' = [k \in 1 .. Len(letters) |->
                      IF letters[k] = c THEN 0 ELSE letters[k]]
    BY DEF rel_drive_letter
  <1>2. \A k \in 1 .. Len(letters) :
          (IF letters[k] = c THEN 0 ELSE letters[k]) \in 0 .. Count
    OBVIOUS
  <1>3. Len(letters) \in Nat
    OBVIOUS
  <1> QED BY <1>1, <1>2, <1>3

LEMMA DaemonTyped == TypeOK /\ Daemon => TypeOK'
  <1> SUFFICES ASSUME TypeOK, Daemon PROVE TypeOK'
    OBVIOUS
  <1>1. CASE CleanStep
    BY <1>1, CleanTyped
  <1>2. ASSUME NEW n \in Names, Rm(n) PROVE TypeOK'
    BY <1>2, RmTyped
  <1> USE HotplugAssumption
      DEF TypeOK, Cleaning, icons, dirs, found, bounds, DaemonFrame
  <1>3. CASE Probe
    BY <1>3 DEF Probe, Readable
  <1>4. CASE EndAdds
    BY <1>4 DEF EndAdds
  <1>5. CASE Poll
    BY <1>5 DEF Poll, Present
  <1>6. ASSUME NEW n \in Names, Reprobe(n) PROVE TypeOK'
    <2>1. /\ probepart' \in [Names -> Disks \union {None}]
          /\ probedisk' \in [Names -> Disks \union {NoMedium, None}]
      BY <1>6 DEF Reprobe, Present, Readable
    <2>2. adds' \subseteq Names /\ pc' \in {"next", "part"}
      BY <1>6 DEF Reprobe
    <2> QED BY <1>6, <2>1, <2>2 DEF Reprobe
  <1>7. ASSUME NEW n \in Names, Retry(n) PROVE TypeOK'
    <2>1. probepart' \in [Names -> Disks \union {None}]
      BY <1>7 DEF Retry, Readable
    <2>2. tries' \in 0 .. Retries
      BY <1>7 DEF Retry
    <2> QED BY <1>7, <2>1, <2>2 DEF Retry
  <1>8. ASSUME NEW n \in Names, Mkdir(n) PROVE TypeOK'
    <2>1. partDir' \in [Names -> Disks \union {None, Bare}]
      BY <1>8 DEF Mkdir
    <2>2. pc' \in {"info", "icon", "drive"} /\ tries' \in 0 .. Retries
      BY <1>8 DEF Mkdir
    <2> QED BY <1>8, <2>1, <2>2 DEF Mkdir
  <1>9. ASSUME NEW n \in Names, AppInfo(n) PROVE TypeOK'
    BY <1>9 DEF AppInfo
  <1>10. ASSUME NEW n \in Names, AddIcon(n) PROVE TypeOK'
    <2>1. label' \in [Names -> 0 .. Count] /\ letters' \in Seq(0 .. Count)
      <3>1. CASE n \in pin
        BY <1>10, <3>1 DEF AddIcon
      <3>2. CASE n \notin pin
        <4>1. PICK c \in 0 .. Count : label' = [label EXCEPT ![n] = c]
                                    /\ letters' = Append(letters, c)
          BY <1>10, <3>2 DEF AddIcon
        <4> QED BY <4>1
      <3> QED BY <3>1, <3>2
    <2>2. pc' = "drive" /\ pin' \in {pin, pin \union {n}}
      BY <1>10 DEF AddIcon
    <2>3. UNCHANGED <<block, known, dirs, block1, request, hot, kept, found, adds, rems,
                      orderly, bounds>>
      BY <1>10 DEF AddIcon
    <2> QED BY <2>1, <2>2, <2>3
  <1>11. ASSUME NEW n \in Names, MkdirDrive(n) PROVE TypeOK'
    BY <1>11 DEF MkdirDrive, DriveDone
  <1>12. ASSUME NEW n \in Names, AppInfoDrive(n) PROVE TypeOK'
    BY <1>12 DEF AppInfoDrive, DriveDone
  <1>13. ASSUME NEW n \in Names, Unpin(n) PROVE TypeOK'
    <2>1. letters' \in Seq(0 .. Count)
      BY <1>13, RelTyped DEF Unpin
    <2>2. pc' = "rmdir" /\ pin' \subseteq Names /\ orderly' \in BOOLEAN
      BY <1>13 DEF Unpin
    <2>3. 0 \in 0 .. Count
      OBVIOUS
    <2>4. label' \in [Names -> 0 .. Count]
      BY <1>13, <2>3 DEF Unpin
    <2> QED BY <1>13, <2>1, <2>2, <2>4 DEF Unpin
  <1> QED BY <1>1, <1>2, <1>3, <1>4, <1>5, <1>6, <1>7, <1>8, <1>9, <1>10, <1>11, <1>12, <1>13
          DEF Daemon, CleanStep

LEMMA Typing == TypeOK /\ [Next]_vars => TypeOK'
  <1>1. TypeOK /\ UNCHANGED vars => TypeOK'
    BY DEF TypeOK, Cleaning, vars, icons, dirs, tmp, found, daemon, bounds
  <1> QED BY <1>1, EnvironmentTyped, DaemonTyped DEF Next

LEMMA TypeSafe == HotplugSafety => []TypeOK
  BY InitTyped, Typing, PTL DEF HotplugSafety

(* Every variable of Hotplug keeps to its type. *)
THEOREM TypeCorrect == Spec => []TypeOK
  BY TypeSafe, PTL DEF Spec, HotplugSafety

-----------------------------------------------------------------------------
(* What IconHasDir needs to be inductive.  A directory without AppInfo.xml *)
(* is torn, or the daemon is about to fill it or is removing it.           *)
BareIsTorn ==
  \A n \in Names :
    partDir[n] = Bare =>
      \/ n \in torn
      \/ pc = "info" /\ IsFirst(n, adds)
      \/ pc \in {"goneRm", "lookRm", "sweep", "rmdir"} /\ IsFirst(n, rems)

(* The daemon makes the directory before the icon, takes the icon down     *)
(* before it removes the directory, and removes the drive's before the     *)
(* partition's; clean_desk_icons keeps no icon whose directories it        *)
(* removes.                                                                *)
DirsAround ==
  /\ BareIsTorn /\ IconHasDir
  /\ \A n \in pin : partDir[n] = None => driveDir[n] = None
  /\ pc = "info" => \A n \in Names : IsFirst(n, adds) => probepart[n] \in Disks
  /\ pc = "icon" => \A n \in Names : IsFirst(n, adds) => partDir[n] # None
  /\ pc = "rmdir" => \A n \in Names : IsFirst(n, rems) => n \notin pin
  /\ pc = "sweep" => pin = {}
  /\ \A n \in kept : partDir[n] # None
  /\ kept # {} => pc \in {"look", "lookRm", "fill"}
  /\ pc \in {"look", "lookRm"} => kept \intersect rems = {}
  /\ pc = "fill" => rems = {}

LEMMA CleanKeepsDirs == TypeOK /\ DirsAround /\ CleanStep => DirsAround'
  <1> SUFFICES ASSUME TypeOK, DirsAround, CleanStep PROVE DirsAround'
    OBVIOUS
  <1>0. kept \in SUBSET Names /\ rems \in SUBSET Names /\ pin \subseteq Names
    BY DEF TypeOK
  <1> USE <1>0 DEF DirsAround, BareIsTorn, IconHasDir, Cleaning, CleanFrame, dirs, icons
  <1>1. CASE CleanAll
    BY <1>1 DEF CleanAll
  <1>2. CASE Clean
    BY <1>2 DEF Clean
  <1>3. CASE EndGone
    BY <1>3 DEF EndGone
  <1>4. CASE Empty
    BY <1>4 DEF Empty
  <1>5. CASE Fill
    BY <1>5 DEF Fill
  <1>6. ASSUME NEW n \in Names, CheckGone(n) PROVE DirsAround'
    BY <1>6 DEF CheckGone
  <1>7. ASSUME NEW n \in Names, CheckIcon(n) PROVE DirsAround'
    BY <1>7 DEF CheckIcon, IsFirst
  <1> QED BY <1>1, <1>2, <1>3, <1>4, <1>5, <1>6, <1>7 DEF CleanStep

LEMMA RmKeepsDirs ==
  ASSUME TypeOK, DirsAround, NEW n \in Names, Rm(n)
  PROVE  DirsAround'
  <1>0. /\ rems \in SUBSET Names /\ pin \subseteq Names /\ kept \subseteq Names
        /\ partDir \in [Names -> Disks \union {None, Bare}]
        /\ driveDir \in [Names -> Disks \union {NoMedium, None, Bare}]
        /\ Bare # None
    BY HotplugAssumption DEF TypeOK
  <1>1. \A m \in Names : IsFirst(m, rems) => m = n
    BY <1>0, FirstIsOne DEF Rm
  <1>2. n \in rems /\ IsFirst(n, rems) /\ pc \in {"goneRm", "lookRm", "sweep", "rmdir"}
    BY DEF Rm, IsFirst
  <1>3. n \notin kept
    BY <1>2 DEF DirsAround
  <1>4. pin' = pin /\ kept' = kept /\ adds' = adds
    BY DEF Rm, CleanFrame, icons
  <1> USE <1>0, <1>1, <1>2, <1>3, <1>4 DEF DirsAround, BareIsTorn, IconHasDir, Cleaning
  <1>5. CASE driveDir[n] # None
    <2>1. /\ driveDir' = [driveDir EXCEPT ![n] = RmDir(@)]
          /\ UNCHANGED <<partDir, torn, rems, pc>>
      BY <1>5 DEF Rm
    <2>2. \A m \in Names : driveDir[m] = None => driveDir'[m] = None
      BY <2>1 DEF RmDir
    <2>3. \A m \in Names : IsFirst(m, rems)' => IsFirst(m, rems)
      BY <2>1 DEF IsFirst
    <2> QED BY <2>1, <2>2, <2>3 DEF IsFirst
  <1>6. CASE driveDir[n] = None /\ partDir[n] \notin {None, Bare}
    <2>1. /\ partDir' = [partDir EXCEPT ![n] = Bare]
          /\ UNCHANGED <<driveDir, torn, rems, pc>>
      BY <1>6 DEF Rm, RmDir
    <2>2. \A m \in Names : IsFirst(m, rems)' <=> IsFirst(m, rems)
      BY <2>1 DEF IsFirst
    <2> QED BY <1>6, <2>1, <2>2
  <1>7. CASE driveDir[n] = None /\ partDir[n] \in {None, Bare}
    <2>1. /\ partDir' = [partDir EXCEPT ![n] = None] /\ torn' = torn \ {n}
          /\ rems' = rems \ {n} /\ driveDir' = driveDir
      BY <1>7 DEF Rm
    <2>2. pc' = CASE pc = "goneRm" -> "gone"
                  [] pc = "lookRm" -> "look"
                  [] pc = "sweep"  -> IF rems' = {} THEN "probe" ELSE "sweep"
                  [] pc = "rmdir"  -> IF rems' = {} THEN "sleep" ELSE "unpin"
      BY <1>7 DEF Rm
    <2>3. BareIsTorn'
      BY <2>1, <2>2 DEF IsFirst
    <2>4. IconHasDir'
      BY <2>1, <2>2, <2>3
    <2>5. /\ kept' # {} => pc' \in {"look", "lookRm", "fill"}
          /\ pc' \in {"look", "lookRm"} => kept' \intersect rems' = {}
          /\ \A m \in kept' : partDir'[m] # None
          /\ pc' = "sweep" => pin' = {}
          /\ pc' \notin {"info", "icon", "rmdir", "fill"}
      BY <2>1, <2>2
    <2>6. \A m \in pin' : partDir'[m] = None => driveDir'[m] = None
      BY <1>7, <2>1
    <2> QED BY <2>3, <2>4, <2>5, <2>6
  <1> QED BY <1>5, <1>6, <1>7

LEMMA DaemonKeepsDirs == TypeOK /\ DirsAround /\ Daemon => DirsAround'
  <1> SUFFICES ASSUME TypeOK, DirsAround, Daemon PROVE DirsAround'
    OBVIOUS
  <1>0. /\ adds \in SUBSET Names /\ rems \in SUBSET Names /\ pin \subseteq Names
        /\ partDir \in [Names -> Disks \union {None, Bare}]
        /\ driveDir \in [Names -> Disks \union {NoMedium, None, Bare}]
        /\ {None, Bare, NoMedium} \intersect Disks = {} /\ Shown \subseteq Disks
        /\ Bare # None /\ NoMedium # None
    BY HotplugAssumption DEF TypeOK
  <1>1. CASE CleanStep
    BY <1>1, CleanKeepsDirs
  <1>2. ASSUME NEW n \in Names, Rm(n) PROVE DirsAround'
    BY <1>2, RmKeepsDirs
  <1> USE <1>0 DEF DirsAround, BareIsTorn, IconHasDir, Cleaning, DaemonFrame
  <1>3. CASE Probe
    BY <1>3 DEF Probe, dirs, icons
  <1>4. CASE EndAdds
    BY <1>4 DEF EndAdds, dirs, icons
  <1>5. CASE Poll
    BY <1>5 DEF Poll, dirs, icons
  <1>6. ASSUME NEW n \in Names, Reprobe(n) PROVE DirsAround'
    BY <1>6 DEF Reprobe, dirs, icons
  <1>7. ASSUME NEW n \in Names, Retry(n) PROVE DirsAround'
    BY <1>7 DEF Retry, dirs, icons
  <1>8. ASSUME NEW n \in Names, Mkdir(n) PROVE DirsAround'
    <2>1. \A m \in Names : IsFirst(m, adds) => m = n
      BY <1>8, FirstIsOne DEF Mkdir
    <2> QED BY <1>8, <2>1 DEF Mkdir, icons
  <1>9. ASSUME NEW n \in Names, AppInfo(n) PROVE DirsAround'
    <2>1. \A m \in Names : IsFirst(m, adds) => m = n
      BY <1>9, FirstIsOne DEF AppInfo
    <2>2. partDir' = [partDir EXCEPT ![n] = probepart[n]] /\ probepart[n] \in Disks
      BY <1>9 DEF AppInfo
    <2> QED BY <1>9, <2>1, <2>2 DEF AppInfo, icons, found, IsFirst
  <1>10. ASSUME NEW n \in Names, AddIcon(n) PROVE DirsAround'
    BY <1>10 DEF AddIcon, dirs
  <1>11. ASSUME NEW n \in Names, MkdirDrive(n) PROVE DirsAround'
    BY <1>11 DEF MkdirDrive, DriveDone, icons
  <1>12. ASSUME NEW n \in Names, AppInfoDrive(n) PROVE DirsAround'
    BY <1>12 DEF AppInfoDrive, DriveDone, icons
  <1>13. ASSUME NEW n \in Names, Unpin(n) PROVE DirsAround'
    <2>1. \A m \in Names : IsFirst(m, rems) => m = n
      BY <1>13, FirstIsOne DEF Unpin
    <2> QED BY <1>13, <2>1 DEF Unpin, dirs
  <1> QED BY <1>1, <1>2, <1>3, <1>4, <1>5, <1>6, <1>7, <1>8, <1>9, <1>10, <1>11, <1>12, <1>13
          DEF Daemon, CleanStep

LEMMA StepKeepsDirs == TypeOK /\ DirsAround /\ [Next]_vars => DirsAround'
  <1> SUFFICES ASSUME TypeOK, DirsAround, [Next]_vars PROVE DirsAround'
    OBVIOUS
  <1> USE DEF DirsAround, BareIsTorn, IconHasDir, Cleaning, IsFirst, icons, dirs, found,
      daemon
  <1>1. CASE UNCHANGED vars
    BY <1>1 DEF vars
  <1>2. CASE DaemonDies
    <2>1. pin \subseteq Names
      BY DEF TypeOK
    <2> QED BY <1>2, <2>1 DEF DaemonDies
  <1>3. ASSUME NEW n \in Names,
               \/ AskCounted(n) \/ Notice(n)
               \/ \E v \in Disks \union {NoDrive, NoMedium} : Change(n, v)
        PROVE  DirsAround'
    BY <1>3 DEF AskCounted, Ask, Notice, Change
  <1> QED BY <1>1, <1>2, <1>3, DaemonKeepsDirs DEF Next, Environment, RestartX, Boot

LEMMA DirsSafe == HotplugSafety => []DirsAround
  <1>1. Init => DirsAround
    BY HotplugAssumption DEF Init, Nothing, DirsAround, BareIsTorn, IconHasDir, Cleaning
  <1> QED BY <1>1, StepKeepsDirs, TypeSafe, PTL DEF HotplugSafety

(* Once clean_desk_icons is done, every icon has its directory, with its   *)
(* AppInfo.xml unless X ended while that was made or removed, wherever X   *)
(* or the computer was stopped.                                            *)
THEOREM IconsHaveDirs == Spec => []IconHasDir
  <1>1. DirsAround => IconHasDir
    BY DEF DirsAround
  <1> QED BY <1>1, DirsSafe, PTL DEF Spec, HotplugSafety

-----------------------------------------------------------------------------
(* What LettersDistinct needs to be inductive: until a letter is given     *)
(* back the list holds the letters in order and then empty lines, and so   *)
(* comm finds all of it; icons that clean_desk_icons is about to put back  *)
(* count as there.                                                         *)
Icons == pin \union kept

LettersInOrder ==
  orderly =>
    /\ \A k \in 1 .. Len(letters) : letters[k] = IF k <= Count THEN k ELSE 0
    /\ \A n \in Icons : label[n] <= Len(letters)
    /\ \A n, m \in Icons : n # m => label[n] # label[m] \/ label[n] = 0
    /\ \A n \in Icons : label[n] = 0 => Len(letters) > Count

(* Of a list in order comm finds the letters that it holds, and the next   *)
(* one is offered; none is when it holds them all.                         *)
LEMMA OfferedOfOrdered ==
  ASSUME letters \in Seq(0 .. Count), Count \in Nat,
         \A k \in 1 .. Len(letters) : letters[k] = IF k <= Count THEN k ELSE 0,
         NEW c \in 0 .. Count, Offers(c)
  PROVE  IF Len(letters) < Count THEN c = Len(letters) + 1 ELSE c = 0
  <1>0. Len(letters) \in Nat /\ DOMAIN letters = 1 .. Len(letters)
    OBVIOUS
  <1>1. \A d \in 1 .. Count : d <= Len(letters) => Found(d)
    <2> SUFFICES ASSUME NEW d \in 1 .. Count, d <= Len(letters) PROVE Found(d)
      OBVIOUS
    <2>1. d \in DOMAIN letters /\ letters[d] = d
      BY <1>0
    <2>2. \A i \in 1 .. d : letters[i] <= d
      BY <1>0
    <2> QED BY <2>1, <2>2 DEF Found
  <1>2. \A d \in 1 .. Count : d > Len(letters) => ~Found(d)
    <2> SUFFICES ASSUME NEW d \in 1 .. Count, d > Len(letters),
                        NEW k \in 1 .. Len(letters), letters[k] = d
                 PROVE  FALSE
      BY <1>0 DEF Found
    <2> QED BY <1>0
  <1>3. CASE Len(letters) < Count
    <2>1. c # 0
      BY <1>0, <1>2, <1>3 DEF Offers
    <2>2. c > Len(letters)
      BY <1>0, <1>1, <2>1 DEF Offers
    <2>3. ~(Len(letters) + 1 < c)
      BY <1>0, <1>2, <1>3, <2>1 DEF Offers
    <2> QED BY <1>0, <1>3, <2>2, <2>3
  <1>4. CASE ~(Len(letters) < Count)
    BY <1>0, <1>1, <1>4 DEF Offers
  <1> QED BY <1>3, <1>4

LEMMA AddKeepsOrder ==
  ASSUME TypeOK, kept = {}, LettersInOrder, NEW n \in Names, AddIcon(n)
  PROVE  LettersInOrder'
  <1> SUFFICES ASSUME orderly PROVE LettersInOrder'
    BY DEF AddIcon, LettersInOrder
  <1>0. Icons = pin /\ Icons' = pin'
    BY DEF Icons, AddIcon, DaemonFrame
  <1> USE <1>0 DEF LettersInOrder
  <1>1. CASE n \in pin
    BY <1>1 DEF AddIcon
  <1>2. CASE n \notin pin
    <2> DEFINE L == Len(letters)
    <2>0. /\ letters \in Seq(0 .. Count) /\ Count \in Nat /\ L \in Nat
          /\ label \in [Names -> 0 .. Count] /\ pin \subseteq Names
      BY HotplugAssumption DEF TypeOK
    <2>1. PICK c \in 0 .. Count :
            /\ Offers(c)
            /\ label' = [label EXCEPT ![n] = c]
            /\ letters' = Append(letters, c)
      BY <1>2 DEF AddIcon
    <2>2. IF L < Count THEN c = L + 1 ELSE c = 0
      BY <2>0, <2>1, OfferedOfOrdered
    <2>3. Len(letters') = L + 1 /\ letters'[L + 1] = c
          /\ \A k \in 1 .. L : letters'[k] = letters[k]
      BY <2>0, <2>1
    <2>4. pin' = pin \union {n} /\ orderly' = orderly
      BY <1>2 DEF AddIcon
    <2>5. label'[n] = c /\ \A m \in pin : label'[m] = label[m] /\ label[m] <= L
      BY <1>2, <2>0, <2>1
    <2>6. \A k \in 1 .. Len(letters') : letters'[k] = IF k <= Count THEN k ELSE 0
      BY <2>0, <2>2, <2>3
    <2>7. \A m \in pin' : label'[m] <= Len(letters')
      BY <2>0, <2>2, <2>3, <2>4, <2>5
    <2>8. \A m \in pin' : label'[m] = 0 => Len(letters') > Count
      BY <2>0, <2>2, <2>3, <2>4, <2>5
    <2>9. \A l, m \in pin' : l # m => label'[l] # label'[m] \/ label'[l] = 0
      <3> SUFFICES ASSUME NEW l \in pin', NEW m \in pin', l # m, label'[l] = label'[m]
                   PROVE  label'[l] = 0
        OBVIOUS
      <3>1. CASE l \in pin /\ m \in pin
        BY <3>1, <2>5
      <3>2. CASE l = n \/ m = n
        BY <3>2, <2>0, <2>2, <2>4, <2>5
      <3> QED BY <3>1, <3>2, <2>4
    <2> QED BY <2>6, <2>7, <2>8, <2>9
  <1> QED BY <1>1, <1>2

LEMMA StepKeepsOrder ==
  TypeOK /\ DirsAround /\ LettersInOrder /\ [Next]_vars => LettersInOrder'
  <1> SUFFICES ASSUME TypeOK, DirsAround, LettersInOrder, [Next]_vars
               PROVE  LettersInOrder'
    OBVIOUS
  <1>1. CASE UNCHANGED <<pin, kept, label, letters, orderly>>
    BY <1>1 DEF LettersInOrder, Icons
  <1>2. CASE Boot
    <2> SUFFICES ASSUME pin = {} PROVE LettersInOrder'
      BY <1>2 DEF Boot, LettersInOrder
    <2>1. letters' = <<>> /\ Icons' = {}
      BY <1>2 DEF Boot, DaemonDies, icons, Icons
    <2>2. Len(letters') = 0
      BY <2>1
    <2> QED BY <2>1, <2>2 DEF LettersInOrder
  <1>3. CASE /\ UNCHANGED <<letters, orderly>> /\ Icons' \subseteq Icons
             /\ \A n \in Icons' : label'[n] = label[n]
    BY <1>3 DEF LettersInOrder
  <1>4. ASSUME NEW n \in Names, Unpin(n) PROVE LettersInOrder'
    <2>1. CASE n \in pin
      BY <1>4, <2>1 DEF Unpin, LettersInOrder
    <2>2. CASE n \notin pin
      BY <1>1, <1>4, <2>2 DEF Unpin, DaemonFrame
    <2> QED BY <2>1, <2>2
  <1>5. CASE Environment
    <2>1. CASE RestartX
      BY <1>3, <2>1 DEF RestartX, DaemonDies, Icons, tmp, icons
    <2> QED BY <1>1, <1>2, <1>5, <2>1
            DEF Environment, AskCounted, Ask, Notice, Change, icons, tmp, daemon
  <1>6. CASE CleanStep
    <2> USE DEF CleanFrame, tmp, icons, Icons
    <2>1. CASE CleanAll \/ Clean \/ EndGone \/ Empty
      BY <1>3, <2>1 DEF CleanAll, Clean, EndGone, Empty, DirsAround
    <2>2. CASE Fill
      <3>1. kept \subseteq Names
        BY DEF TypeOK
      <3> QED BY <1>3, <2>2, <3>1 DEF Fill
    <2>3. ASSUME NEW n \in Names, CheckGone(n) \/ CheckIcon(n) PROVE LettersInOrder'
      BY <1>3, <2>3 DEF CheckGone, CheckIcon
    <2> QED BY <1>6, <2>1, <2>2, <2>3 DEF CleanStep
  <1>7. ASSUME NEW n \in Names, AddIcon(n) PROVE LettersInOrder'
    <2>1. kept = {}
      BY <1>7 DEF AddIcon, DirsAround
    <2> QED BY <1>7, <2>1, AddKeepsOrder
  <1>8. CASE Daemon
    <2> USE DEF DaemonFrame, CleanFrame, icons, tmp
    <2>1. CASE Probe \/ EndAdds \/ Poll
      BY <1>1, <2>1 DEF Probe, EndAdds, Poll
    <2>2. ASSUME NEW n \in Names,
                 \/ Rm(n) \/ Reprobe(n) \/ Retry(n) \/ Mkdir(n) \/ AppInfo(n)
                 \/ MkdirDrive(n) \/ AppInfoDrive(n)
          PROVE  LettersInOrder'
      BY <1>1, <2>2 DEF Rm, Reprobe, Retry, Mkdir, AppInfo, MkdirDrive, AppInfoDrive
    <2> QED BY <1>4, <1>6, <1>7, <1>8, <2>1, <2>2 DEF Daemon, CleanStep
  <1>9. CASE UNCHANGED vars
    BY <1>1, <1>9 DEF vars, icons, tmp, daemon
  <1> QED BY <1>5, <1>8, <1>9 DEF Next

(* Letters are distinct until one is given back, however many there are.   *)
THEOREM DistinctLetters == Spec => []LettersDistinct
  <1>1. Init => LettersInOrder
    BY HotplugAssumption DEF Init, LettersInOrder, Icons
  <1>2. LettersInOrder => LettersDistinct
    BY DEF LettersInOrder, LettersDistinct, Icons
  <1> QED BY <1>1, <1>2, StepKeepsOrder, DirsSafe, TypeSafe, PTL DEF Spec, HotplugSafety

-----------------------------------------------------------------------------
(* In the composition with start.pl the daemon and its files do what they  *)
(* do alone.                                                               *)
THEOREM ButtonsKeepDaemon == ButtonsSpec => HotplugSafety
  <1>1. ButtonsNext => [Next]_vars
    BY DEF ButtonsNext, Device, Start, Open, StartPl, Repeat, SetDrives, DrawButton,
       Die, Press, Return, Next, Environment
  <1>2. [ButtonsNext]_allVars => [Next]_vars
    BY <1>1 DEF allVars
  <1> QED BY <1>2, PTL DEF ButtonsSpec, ButtonsInit, HotplugSafety

(* start.pl draws no buttons while clean_desk_icons runs. *)
ClosedFirst == Cleaning => at = "closed"

LEMMA ClosedSafe == ButtonsSpec => []ClosedFirst
  <1>1. ButtonsInit => ClosedFirst
    BY DEF ButtonsInit, ClosedFirst
  <1>2. ASSUME TypeOK, ClosedFirst, [ButtonsNext]_allVars PROVE ClosedFirst'
    <2> USE DEF ClosedFirst, Cleaning
    <2>1. CASE Daemon /\ UNCHANGED start
      <3>1. at' = at
        BY <2>1 DEF start
      <3>2. CASE CleanStep
        <4>1. Cleaning
          BY <3>2 DEF CleanStep, CleanAll, Clean, EndGone, Empty, Fill, CheckGone, CheckIcon
        <4> QED BY <1>2, <3>1, <4>1
      <3>3. CASE Probe \/ EndAdds \/ Poll
        <4>1. ~Cleaning'
          BY <3>3 DEF Probe, EndAdds, Poll
        <4> QED BY <4>1
      <3>4. ASSUME NEW n \in Names, Rm(n) PROVE Cleaning' => Cleaning
        BY <3>4 DEF Rm
      <3>5. ASSUME NEW n \in Names,
                   \/ Reprobe(n) \/ Retry(n) \/ Mkdir(n) \/ AppInfo(n) \/ AddIcon(n)
                   \/ MkdirDrive(n) \/ AppInfoDrive(n) \/ Unpin(n)
            PROVE  ~Cleaning'
        BY <3>5 DEF Reprobe, Retry, Mkdir, AppInfo, AddIcon, MkdirDrive, AppInfoDrive,
           DriveDone, Unpin
      <3> QED BY <1>2, <2>1, <3>1, <3>2, <3>3, <3>4, <3>5 DEF Daemon, CleanStep
    <2>2. CASE UNCHANGED <<pc, at>>
      BY <1>2, <2>2
    <2>3. CASE Device /\ UNCHANGED start
      <3>1. UNCHANGED <<pc, at>>
        BY <2>3 DEF Device, AskCounted, Ask, Notice, Change, daemon, start
      <3> QED BY <2>2, <3>1
    <2>4. CASE Start /\ Closed
      BY <2>4 DEF Closed
    <2>5. CASE Open
      <3>1. ~Cleaning /\ pc' = pc
        BY <2>5 DEF Open, SetDrives, vars, daemon
      <3> QED BY <3>1
    <2>6. CASE UNCHANGED vars /\ at # "closed"
      BY <1>2, <2>6 DEF vars, daemon
    <2>7. CASE StartPl \/ Repeat(TRUE) \/ Return
      <3>1. UNCHANGED vars /\ at # "closed"
        BY <2>7 DEF StartPl, Repeat, Return, SetDrives, DrawButton, Die, Drawing
      <3> QED BY <2>6, <3>1
    <2>8. ASSUME NEW n \in Names, Press(n) PROVE ~Cleaning'
      <3>1. at = "events" /\ pc' = pc
        BY <2>8 DEF Press, AskCounted, Ask, vars, daemon
      <3> QED BY <1>2, <3>1
    <2>9. CASE UNCHANGED allVars
      BY <1>2, <2>9 DEF allVars, vars, start, daemon
    <2> QED BY <1>2, <2>1, <2>3, <2>4, <2>5, <2>7, <2>8, <2>9 DEF ButtonsNext
  <1> QED BY <1>1, <1>2, ButtonsKeepDaemon, TypeSafe, PTL DEF ButtonsSpec

(* set_drives dies only of an icon that the daemon has taken down, or      *)
(* whose directory is unfinished since X ended.                            *)
THEOREM DiesOnlyOfGone == ButtonsSpec => DiesOfGone
  <1>1. DirsAround /\ ClosedFirst =>
          [\A n \in Names : Die(n) => n \notin pin \/ n \in torn]_allVars
    BY DEF DirsAround, IconHasDir, ClosedFirst, Die, Drawing
  <1> QED BY <1>1, ButtonsKeepDaemon, DirsSafe, ClosedSafe, PTL DEF DiesOfGone

(* What ButtonsTypeOK needs to be inductive: of the buttons of the row     *)
(* that is being drawn, those done have their size, and a start.pl that    *)
(* begins knows of no drives.                                              *)
ButtonsDrawn ==
  /\ ButtonsTypeOK
  /\ at = "closed" => curdrives = {}
  /\ Drawing => \A n \in curdrives \ Slots : n \in todo \/ size[n] # None

LEMMA ButtonsStep ==
  TypeOK /\ ButtonsDrawn /\ [ButtonsNext]_allVars => ButtonsDrawn'
  <1> SUFFICES ASSUME TypeOK, ButtonsDrawn, [ButtonsNext]_allVars PROVE ButtonsDrawn'
    OBVIOUS
  <1> USE DEF ButtonsDrawn, ButtonsTypeOK, Drawing, row
  <1>1. CASE UNCHANGED start
    BY <1>1 DEF start
  <1>2. CASE Closed
    BY <1>2 DEF Closed
  <1>3. ASSUME NEW changed \in BOOLEAN, NEW draw \in {"draw1", "draw"},
               at \in {"closed", "events"}, SetDrives(changed, draw)
        PROVE  ButtonsDrawn'
    <2>1. pin \subseteq Names
      BY DEF TypeOK
    <2>2. CASE pin # curdrives \/ changed
      BY <1>3, <2>1, <2>2 DEF SetDrives
    <2>3. CASE ~(pin # curdrives \/ changed)
      BY <1>3, <2>3 DEF SetDrives
    <2> QED BY <2>2, <2>3
  <1>4. CASE Open \/ Repeat(TRUE) \/ Repeat(FALSE)
    BY <1>3, <1>4 DEF Open, Repeat
  <1>5. ASSUME NEW n \in Names, DrawButton(n) PROVE ButtonsDrawn'
    <2>1. partDir[n] \in Disks /\ partDir[n] # None
      BY <1>5 DEF DrawButton, TypeOK
    <2>2. /\ size' \in [Names -> Disks \union {None}]
          /\ \A m \in Names : size'[m] = IF m = n THEN partDir[n] ELSE size[m]
      BY <1>5, <2>1 DEF DrawButton
    <2>3. /\ todo' = todo \ {n} /\ curdrives' = curdrives /\ placed' = (todo' = {})
          /\ at' = IF todo' = {} THEN "events" ELSE at
          /\ at \in {"draw1", "draw"}
      BY <1>5 DEF DrawButton
    <2> QED BY <2>1, <2>2, <2>3
  <1>6. ASSUME NEW n \in Names, Die(n) PROVE ButtonsDrawn'
    BY <1>2, <1>6 DEF Die
  <1>7. CASE Return \/ \E n \in Names : Press(n)
    BY <1>7 DEF Return, Press
  <1> QED BY <1>1, <1>2, <1>4, <1>5, <1>6, <1>7 DEF ButtonsNext, StartPl, allVars

(* Every variable of start.pl keeps to its type, and every button that is  *)
(* on the screen gives a size.                                             *)
THEOREM ButtonsTypeCorrect == ButtonsSpec => []ButtonsTypeOK
  <1>1. ButtonsInit => ButtonsDrawn
    BY DEF ButtonsInit, ButtonsDrawn, ButtonsTypeOK, Drawing
  <1>2. ButtonsDrawn => ButtonsTypeOK
    BY DEF ButtonsDrawn
  <1> QED BY <1>1, <1>2, ButtonsStep, ButtonsKeepDaemon, TypeSafe, PTL DEF ButtonsSpec
=============================================================================

------------------------------- MODULE Hotplug -------------------------------
(***************************************************************************)
(* Icons and letters of the drives.                                        *)
(*                                                                         *)
(*   the kernel    /sys/block, in which drives and the media of card       *)
(*                 readers come and go; it lists a partition some time     *)
(*                 after a medium is put in, and may go on listing it when *)
(*                 the medium has been taken out.                          *)
(*   the daemon    pup_event_frontend_d.  It makes an icon for every drive *)
(*                 when X starts, and then compares /sys/block with what   *)
(*                 it last saw of it, every two seconds.                   *)
(*   its files     PuppyPin, which holds the icons; /root/.pup_event, with *)
(*                 a directory for each partition and each drive; the list *)
(*                 of what it last saw; the list of the letters in use;    *)
(*                 and the file by which other programs ask it to take an  *)
(*                 icon down and put it up again.                          *)
(*   .xinitrc      runs clean_desk_icons and the daemon at each X start.   *)
(*                                                                         *)
(* Directories are made and removed command by command, and X may end      *)
(* between any two of them.                                                *)
(*                                                                         *)
(* A drive has one partition, and neither it nor an icon has a place here. *)
(* Optical drives and diskettes, which have loops of their own, and a      *)
(* desktop with a single icon for all drives are left out.                 *)
(***************************************************************************)
EXTENDS Naturals, Sequences, FiniteSets

CONSTANTS
  Names,       (* Names in /sys/block, numbered in the order of ls.        *)
  Removable,   (* Names sd* with "removable" set, not internal: sticks,    *)
               (* card readers.                                            *)
  Slots,       (* Names mmcblk*: slots, which are there with their card.   *)
  Disks,       (* The drives and cards that there are.                     *)
  Known,       (* Those with a file system that the daemon knows.          *)
  Shown,       (* Of these, those without the label GEEPS.                 *)
  Count,       (* The number of letters.                                   *)
  Retries,     (* How often an unlisted partition is looked for again; 3.  *)
  NoDrive,     (* The name is not in /sys/block.                           *)
  NoMedium,    (* A card reader without a card.                            *)
  None,        (* No partition, no directory, no file, no request.         *)
  Bare,        (* A directory without AppInfo.xml, with AppRun or without. *)
  MaxChanges,  (* Bound: drives plugged and unplugged, requests.           *)
  MaxStarts    (* Bound: X started again, computer booted again.           *)

ASSUME HotplugAssumption ==
  /\ Names \subseteq Nat /\ Removable \subseteq Names
  /\ Slots \subseteq Names \ Removable
  /\ Known \subseteq Disks /\ Shown \subseteq Known
  /\ {Count, Retries, MaxChanges, MaxStarts} \subseteq Nat
  /\ NoDrive \notin Disks /\ NoMedium \notin Disks \union {NoDrive}
  /\ None \notin Disks \union Names \union {NoDrive, NoMedium}
  /\ Bare \notin Disks \union {NoMedium, None}

VARIABLES
  block,       (* What is under each name.                                 *)
  known,       (* The disk whose partition the kernel lists under it.      *)
  pin,         (* PuppyPin: the partitions that have an icon.              *)
  label,       (* Their letters; 0 is an empty one.                        *)
  partDir,     (* The directories of the partitions: the disk whose size   *)
               (* AppInfo.xml gives.                                       *)
  driveDir,    (* Those of the drives: whose model it gives.               *)
  letters,     (* /tmp/allocated_drives.                                   *)
  block1,      (* /tmp/pup_event_frontend_block1.                          *)
  request,     (* /tmp/pup_event_frontend_block_request.                   *)
  pc,          (* Where .xinitrc and the daemon are.                       *)
  hot,         (* TRUE once the daemon is in its loop.                     *)
  kept,        (* /tmp/pup_event_ok_pin.                                   *)
  probepart,   (* PROBEPART, for the drives that are given icons.          *)
  probedisk,   (* PROBEDISK, likewise.                                     *)
  tries,       (* diCNT.                                                   *)
  adds, rems,  (* The drives yet to be given icons; to be looked at or     *)
               (* removed.                                                 *)
  torn,        (* The partitions whose directory is Bare since X ended.    *)
  orderly,     (* No icon was there at boot, and no letter was given back  *)
               (* since.                                                   *)
  changes, starts

icons   == <<pin, label>>
dirs    == <<partDir, driveDir, torn>>
tmp     == <<letters, block1, request>>
found   == <<probepart, probedisk, tries>>
daemon  == <<pc, hot, kept, found, adds, rems>>
bounds  == <<changes, starts>>
vars    == <<block, known, icons, dirs, tmp, daemon, orderly, bounds>>

Cleaning == pc \in {"clean", "gone", "goneRm", "look", "lookRm", "sweep", "fill"}

TypeOK ==
  /\ block \in [Names -> Disks \union {NoDrive, NoMedium}]
  /\ known \in [Names -> Disks \union {None}]
  /\ pin \subseteq Names /\ label \in [Names -> 0 .. Count]
  /\ partDir \in [Names -> Disks \union {None, Bare}]
  /\ driveDir \in [Names -> Disks \union {NoMedium, None, Bare}]
  /\ torn \subseteq Names
  /\ letters \in Seq(0 .. Count)
  /\ block1 \in {None} \union SUBSET Names
  /\ request \in Names \union {None}
  /\ \/ Cleaning
     \/ pc \in {"probe", "next", "part", "info", "icon", "drive", "model"}
     \/ pc \in {"sleep", "unpin", "rmdir"}
  /\ hot \in BOOLEAN /\ kept \subseteq Names
  /\ probepart \in [Names -> Disks \union {None}]
  /\ probedisk \in [Names -> Disks \union {NoMedium, None}]
  /\ tries \in 0 .. Retries
  /\ adds \subseteq Names /\ rems \subseteq Names
  /\ orderly \in BOOLEAN
  /\ changes \in 0 .. MaxChanges /\ starts \in 0 .. MaxStarts

Present == {n \in Names : block[n] # NoDrive}

IsFirst(n, S) == n \in S /\ \A m \in S : n <= m

(* The disk of a name as the kernel should list it.                        *)
Listable(n) == IF block[n] \in Disks THEN block[n] ELSE None

(* What probepart can read under a name.                                   *)
Readable(n) == IF known[n] = block[n] THEN known[n] ELSE None

Nothing == [n \in Names |-> None]

Init ==
  /\ block \in [Names -> Disks \union {NoDrive}]
  /\ \A n, m \in Names : n # m /\ block[n] \in Disks => block[n] # block[m]
  /\ known = [n \in Names |-> Listable(n)]
  /\ pin = {} /\ label = [n \in Names |-> 0]
  /\ partDir = Nothing /\ driveDir = Nothing /\ torn = {}
  /\ letters = <<>> /\ block1 = None /\ request = None
  /\ pc = "clean" /\ hot = FALSE /\ kept = {}
  /\ probepart = Nothing /\ probedisk = Nothing /\ tries = 0
  /\ adds = {} /\ rems = {}
  /\ orderly = TRUE /\ changes = 0 /\ starts = 0

-----------------------------------------------------------------------------
(* What the user, the kernel and other programs do.                        *)

(* A drive is plugged in or unplugged, or a card put in or taken out.  Of  *)
(* a drive that goes the kernel drops the partition too; otherwise it goes *)
(* on listing what it listed.                                              *)
Change(n, v) ==
  /\ changes < MaxChanges /\ changes' = changes + 1
  /\ v # block[n] /\ ~(v \in Disks /\ block[n] \in Disks)
  /\ v = NoMedium => n \in Removable
  /\ v \in Disks => \A m \in Names : block[m] # v
  /\ block' = [block EXCEPT ![n] = v]
  /\ known' = [known EXCEPT ![n] = IF v = NoDrive THEN None ELSE @]
  /\ UNCHANGED <<icons, dirs, tmp, daemon, orderly, starts>>

(* The kernel finds out: by itself, or as the daemon's loop, probepart or  *)
(* drive_all read the drive with dd to force it.                           *)
Notice(n) ==
  /\ known' = [known EXCEPT ![n] = Listable(n)]
  /\ UNCHANGED <<block, icons, dirs, tmp, daemon, orderly, bounds>>

(* gparted_shell, puppyinstaller and bootflash after they have written to  *)
(* a drive, drive_all when it cannot read one.                             *)
Ask(n) ==
  /\ request' = n
  /\ UNCHANGED <<block, known, icons, dirs, letters, block1, daemon, orderly, starts>>

AskCounted(n) == changes < MaxChanges /\ changes' = changes + 1 /\ Ask(n)

(* A directory that was being made or removed stays as it is.              *)
DaemonDies ==
  /\ starts < MaxStarts /\ starts' = starts + 1
  /\ pc' = "clean" /\ hot' = FALSE /\ kept' = {}
  /\ probepart' = Nothing /\ probedisk' = Nothing /\ tries' = 0
  /\ adds' = {} /\ rems' = {}
  /\ torn' = {n \in Names : partDir[n] = Bare}
  /\ UNCHANGED <<block, icons, partDir, driveDir, changes>>

(* X ends, clean_desk_icons or the daemon with it wherever it is, and xwin *)
(* starts X again.                                                         *)
RestartX ==
  /\ DaemonDies
  /\ UNCHANGED <<known, tmp, orderly>>

(* The computer is booted again with the session as it was left; without   *)
(* one, everything begins as in Init.  /tmp is that of puppy.sfs, with an  *)
(* empty list of letters.                                                  *)
Boot ==
  /\ DaemonDies
  /\ known' = [n \in Names |-> Listable(n)]
  /\ letters' = <<>> /\ block1' = None /\ request' = None
  /\ orderly' = (pin = {})

-----------------------------------------------------------------------------
(* clean_desk_icons.                                                       *)

CleanFrame == UNCHANGED <<block, known, tmp, hot, found, adds, orderly, bounds>>

(* /var/local/pup_event_icon_change_flag is there.                         *)
CleanAll ==
  /\ pc = "clean"
  /\ pin' = {} /\ label' = [n \in Names |-> 0]
  /\ rems' = {n \in Names : partDir[n] # None \/ driveDir[n] # None}
  /\ pc' = IF rems' = {} THEN "probe" ELSE "sweep"
  /\ UNCHANGED <<dirs, kept>> /\ CleanFrame

(* DIR_DRVS: the directories of drives, not those of partitions.           *)
Clean ==
  /\ pc = "clean"
  /\ rems' = {n \in Names : driveDir[n] # None}
  /\ pc' = "gone"
  /\ UNCHANGED <<icons, dirs, kept>> /\ CleanFrame

CheckGone(n) ==
  /\ pc = "gone" /\ IsFirst(n, rems)
  /\ IF n \in Present THEN rems' = rems \ {n} /\ UNCHANGED pc
                       ELSE pc' = "goneRm" /\ UNCHANGED rems
  /\ UNCHANGED <<icons, dirs, kept>> /\ CleanFrame

EndGone ==
  /\ pc = "gone" /\ rems = {}
  /\ rems' = Present
  /\ pc' = "look"
  /\ UNCHANGED <<icons, dirs, kept>> /\ CleanFrame

(* DRVMODEL1 and DRVMODEL2 are the same: cards of one reader, or twins,    *)
(* are alike.  Without AppInfo.xml the one is empty; the other is, of a    *)
(* slot or a drive that has gone.                                          *)
Alike(n) ==
  LET unknown == n \in Slots \/ n \notin Present
  IN IF driveDir[n] = Bare \/ unknown THEN {driveDir[n] = Bare /\ unknown}
     ELSE IF driveDir[n] = block[n] THEN {TRUE} ELSE BOOLEAN

(* Mutant: the icon of a drive of another model is not passed over. *)
CheckIconForgets(n) ==
  /\ pc = "look" /\ IsFirst(n, rems)
  /\ \E alike \in Alike(n) :
       LET stays   == n \in pin /\ driveDir[n] # None /\ alike
           swapped == n \in pin /\ driveDir[n] # None /\ ~alike
       IN /\ kept' = IF stays \/ swapped THEN kept \union {n} ELSE kept
          /\ IF n \notin pin \/ swapped THEN pc' = "lookRm" /\ UNCHANGED rems
                                       ELSE rems' = rems \ {n} /\ UNCHANGED pc
  /\ UNCHANGED <<icons, dirs>> /\ CleanFrame

(* An icon stays for a drive of the model it was made for; an icon whose   *)
(* drive has no directory does not.                                        *)
CheckIcon(n) ==
  /\ pc = "look" /\ IsFirst(n, rems)
  /\ \E alike \in Alike(n) :
       LET stays   == n \in pin /\ driveDir[n] # None /\ alike
           swapped == n \in pin /\ driveDir[n] # None /\ ~alike
       IN /\ kept' = IF stays THEN kept \union {n} ELSE kept
          /\ IF n \notin pin \/ swapped THEN pc' = "lookRm" /\ UNCHANGED rems
                                       ELSE rems' = rems \ {n} /\ UNCHANGED pc
  /\ UNCHANGED <<icons, dirs>> /\ CleanFrame

(* PuppyPin is written again, first without any drive.                     *)
Empty ==
  /\ pc = "look" /\ rems = {}
  /\ pin' = {}
  /\ pc' = "fill"
  /\ UNCHANGED <<label, dirs, kept, rems>> /\ CleanFrame

Fill ==
  /\ pc = "fill"
  /\ pin' = kept /\ kept' = {}
  /\ label' = [n \in Names |-> IF n \in kept THEN label[n] ELSE 0]
  /\ pc' = "probe"
  /\ UNCHANGED <<dirs, rems>> /\ CleanFrame

-----------------------------------------------------------------------------
(* rm -rf of the directories of a drive and its partition, in this order,  *)
(* in clean_desk_icons and in the loop.                                    *)

RmDir(dir) == IF dir \in {None, Bare} THEN None ELSE Bare

Rm(n) ==
  /\ pc \in {"goneRm", "lookRm", "sweep", "rmdir"} /\ IsFirst(n, rems)
  /\ IF driveDir[n] # None
       THEN /\ driveDir' = [driveDir EXCEPT ![n] = RmDir(@)]
            /\ UNCHANGED <<partDir, torn, rems, pc>>
     ELSE IF partDir[n] \notin {None, Bare}
       THEN /\ partDir' = [partDir EXCEPT ![n] = RmDir(@)]
            /\ UNCHANGED <<driveDir, torn, rems, pc>>
     ELSE /\ partDir' = [partDir EXCEPT ![n] = None] /\ torn' = torn \ {n}
          /\ rems' = rems \ {n}
          /\ pc' = CASE pc = "goneRm" -> "gone"
                     [] pc = "lookRm" -> "look"
                     [] pc = "sweep"  -> IF rems' = {} THEN "probe" ELSE "sweep"
                     [] pc = "rmdir"  -> IF rems' = {} THEN "sleep" ELSE "unpin"
          /\ UNCHANGED driveDir
  /\ UNCHANGED <<icons, kept>> /\ CleanFrame

-----------------------------------------------------------------------------
(* Letters.                                                                *)

(* comm merges the letters with the list, and so finds a letter there only *)
(* if no greater one stands before it; 0 is for none left.                 *)
Found(c) ==
  \E k \in DOMAIN letters :
    letters[k] = c /\ \A i \in 1 .. k : letters[i] <= c

(* acq_drive_letter prints the first letter not found, or nothing. *)
Offers(c) ==
  IF c = 0 THEN \A d \in 1 .. Count : Found(d)
  ELSE c <= Count /\ ~Found(c) /\ \A d \in 1 .. c - 1 : Found(d)

(* All lines with the letter are deleted; an empty line in their place is  *)
(* passed over by comm as well.                                            *)
rel_drive_letter(c) ==
  letters' = [k \in DOMAIN letters |-> IF letters[k] = c THEN 0 ELSE letters[k]]

-----------------------------------------------------------------------------
(* create_icon_func, at the start and in the loop.                         *)

DaemonFrame == UNCHANGED <<block, known, request, kept, changes, starts>>

(* The drives of the start, from one look at /sys/block and /proc.         *)
Probe ==
  /\ pc = "probe"
  /\ pc' = "next"
  /\ adds' = {n \in Names : Readable(n) \in Known}
  /\ probepart' = [n \in Names |-> IF n \in adds' THEN Readable(n) ELSE None]
  /\ probedisk' = [n \in Names |-> IF n \in adds' THEN block[n] ELSE None]
  /\ UNCHANGED <<icons, dirs, letters, block1, hot, tries, rems, orderly>>
  /\ DaemonFrame

(* In the loop a drive that has gone is passed over, and the others are    *)
(* looked up now.                                                          *)
Reprobe(n) ==
  /\ pc = "next" /\ hot /\ IsFirst(n, adds)
  /\ IF n \notin Present
       THEN adds' = adds \ {n} /\ UNCHANGED <<pc, probepart, probedisk>>
       ELSE /\ pc' = "part" /\ UNCHANGED adds
            /\ probepart' = [probepart EXCEPT ![n] = Readable(n)]
            /\ probedisk' = [probedisk EXCEPT ![n] = block[n]]
  /\ UNCHANGED <<icons, dirs, letters, block1, hot, tries, rems, orderly>>
  /\ DaemonFrame

(* Mutant: it is looked for once more. *)
RetryMore(n) ==
  /\ pc = "part" /\ IsFirst(n, adds)
  /\ probepart[n] \notin Known /\ tries <= Retries
  /\ probepart' = [probepart EXCEPT ![n] = Readable(n)]
  /\ tries' = tries + 1
  /\ UNCHANGED <<icons, dirs, letters, block1, pc, hot, probedisk, adds, rems, orderly>>
  /\ DaemonFrame

(* /proc/partitions can be slow.                                           *)
Retry(n) ==
  /\ pc = "part" /\ IsFirst(n, adds)
  /\ probepart[n] \notin Known /\ tries < Retries
  /\ probepart' = [probepart EXCEPT ![n] = Readable(n)]
  /\ tries' = tries + 1
  /\ UNCHANGED <<icons, dirs, letters, block1, pc, hot, probedisk, adds, rems, orderly>>
  /\ DaemonFrame

(* Mutant: only a new directory gets an icon. *)
MkdirOrSkip(n) ==
  /\ pc = (IF hot THEN "part" ELSE "next") /\ IsFirst(n, adds)
  /\ probepart[n] \in Known \/ tries = Retries
  /\ tries' = 0
  /\ IF probepart[n] \in Shown /\ partDir[n] = None
       THEN pc' = "info" /\ partDir' = [partDir EXCEPT ![n] = Bare]
       ELSE pc' = "drive" /\ UNCHANGED partDir
  /\ UNCHANGED <<icons, driveDir, torn, letters, block1, hot, probepart, probedisk, adds,
                 rems, orderly>>
  /\ DaemonFrame

(* The directory of the partition, if there is none: AppRun is copied into *)
(* it, and then AppInfo.xml is written.                                    *)
Mkdir(n) ==
  /\ pc = (IF hot THEN "part" ELSE "next") /\ IsFirst(n, adds)
  /\ probepart[n] \in Known \/ tries = Retries
  /\ tries' = 0
  /\ IF probepart[n] \notin Shown
       THEN pc' = "drive" /\ UNCHANGED partDir
     ELSE IF partDir[n] # None
       THEN pc' = "icon" /\ UNCHANGED partDir
       ELSE pc' = "info" /\ partDir' = [partDir EXCEPT ![n] = Bare]
  /\ UNCHANGED <<icons, driveDir, torn, letters, block1, hot, probepart, probedisk, adds,
                 rems, orderly>>
  /\ DaemonFrame

AppInfo(n) ==
  /\ pc = "info" /\ IsFirst(n, adds)
  /\ pc' = "icon"
  /\ partDir' = [partDir EXCEPT ![n] = probepart[n]]
  /\ UNCHANGED <<icons, driveDir, torn, letters, block1, hot, found, adds, rems, orderly>>
  /\ DaemonFrame

(* Mutant: the letter is not noted. *)
AddIconUnnoted(n) ==
  /\ IsFirst(n, adds) /\ pc = "icon"
  /\ pc' = "drive"
  /\ pin' = pin \union {n}
  /\ \E c \in 0 .. Count :
       /\ Offers(c)
       /\ label' = [label EXCEPT ![n] = IF n \in pin THEN @ ELSE c]
  /\ UNCHANGED <<dirs, letters, block1, hot, found, adds, rems, orderly>>
  /\ DaemonFrame

(* add_pinboard_func. *)
AddIcon(n) ==
  /\ IsFirst(n, adds) /\ pc = "icon"
  /\ pc' = "drive"
  /\ IF n \in pin
       THEN UNCHANGED <<pin, label, letters>>
       ELSE /\ pin' = pin \union {n}
            /\ \E c \in 0 .. Count :
                 /\ Offers(c)
                 /\ label' = [label EXCEPT ![n] = c]
                 /\ letters' = Append(letters, c)
  /\ UNCHANGED <<dirs, block1, hot, found, adds, rems, orderly>>
  /\ DaemonFrame

DriveDone(n) ==
  /\ pc' = "next" /\ adds' = adds \ {n}
  /\ probepart' = [probepart EXCEPT ![n] = None]
  /\ probedisk' = [probedisk EXCEPT ![n] = None]

(* The directory of the whole drive, icon or not.                          *)
MkdirDrive(n) ==
  /\ pc = "drive" /\ IsFirst(n, adds)
  /\ IF driveDir[n] = None /\ n \in Present
       THEN /\ pc' = "model" /\ driveDir' = [driveDir EXCEPT ![n] = Bare]
            /\ UNCHANGED <<adds, probepart, probedisk>>
       ELSE DriveDone(n) /\ UNCHANGED driveDir
  /\ UNCHANGED <<icons, partDir, torn, letters, block1, hot, tries, rems, orderly>>
  /\ DaemonFrame

AppInfoDrive(n) ==
  /\ pc = "model" /\ IsFirst(n, adds)
  /\ driveDir' = [driveDir EXCEPT ![n] = probedisk[n]]
  /\ DriveDone(n)
  /\ UNCHANGED <<icons, partDir, torn, letters, block1, hot, tries, rems, orderly>>
  /\ DaemonFrame

(* Mutant: a poll that adds does not remove. *)
EndAddsAlone ==
  /\ pc = "next" /\ adds = {}
  /\ pc' = IF rems = {} \/ block1 # {} THEN "sleep" ELSE "unpin"
  /\ hot' = TRUE
  /\ rems' = IF block1 # {} THEN {} ELSE rems
  /\ UNCHANGED <<icons, dirs, letters, block1, found, adds, orderly>>
  /\ DaemonFrame

EndAdds ==
  /\ pc = "next" /\ adds = {}
  /\ pc' = IF rems = {} THEN "sleep" ELSE "unpin"
  /\ hot' = TRUE
  /\ UNCHANGED <<icons, dirs, letters, block1, found, adds, rems, orderly>>
  /\ DaemonFrame

-----------------------------------------------------------------------------
(* The loop.                                                               *)


(* What changed since the last look; if nothing, the removable drives are  *)
(* looked at for partitions that came or went in /sys/block.               *)
Poll ==
  LET block2 == Present \ {request}
      last   == IF block1 = None THEN block2 ELSE block1
      probed == {n \in block2 \intersect Removable : last = block2}
      fresh  == {n \in probed : known[n] # None /\ partDir[n] = None}
      stale  == {n \in probed : known[n] = None /\ partDir[n] # None}
  IN /\ pc = "sleep"
     /\ adds' = (block2 \ last) \union fresh
     /\ rems' = (last \ block2) \union stale
     /\ block1' = block2
     /\ request' = None
     /\ pc' = IF adds' \union rems' = {} THEN "sleep" ELSE "next"
     /\ UNCHANGED <<block, known, icons, dirs, letters, hot, kept, found, orderly, bounds>>

(* remove_pinboard_func. *)
Unpin(n) ==
  /\ IsFirst(n, rems) /\ pc = "unpin"
  /\ pc' = "rmdir"
  /\ IF n \in pin
       THEN /\ pin' = pin \ {n} /\ label' = [label EXCEPT ![n] = 0]
            /\ rel_drive_letter(label[n])
            /\ orderly' = FALSE
       ELSE UNCHANGED <<pin, label, letters, orderly>>
  /\ UNCHANGED <<dirs, block1, hot, found, adds, rems>>
  /\ DaemonFrame

-----------------------------------------------------------------------------
Daemon == \/ CleanAll \/ Clean \/ EndGone \/ Empty \/ Fill
          \/ Probe \/ EndAdds \/ Poll
          \/ \E n \in Names :
               \/ CheckGone(n) \/ CheckIcon(n) \/ Rm(n)
               \/ Reprobe(n) \/ Retry(n) \/ Mkdir(n) \/ AppInfo(n) \/ AddIcon(n)
               \/ MkdirDrive(n) \/ AppInfoDrive(n) \/ Unpin(n)

Environment ==
  \/ \E n \in Names :
       \/ AskCounted(n) \/ Notice(n)
       \/ \E v \in Disks \union {NoDrive, NoMedium} : Change(n, v)
  \/ RestartX \/ Boot

Next == Daemon \/ Environment

(* .xinitrc and the daemon get on; the kernel comes to list what is put    *)
(* in, but perhaps never that a card is taken out; nothing is asked of the *)
(* user.                                                                   *)
Lists == \E n \in Names : block[n] \in Disks /\ Notice(n)

Fairness == WF_vars(Daemon) /\ WF_vars(Lists)

Spec == Init /\ [][Next]_vars /\ Fairness

-----------------------------------------------------------------------------
(* Once clean_desk_icons is done, every icon has its directory, with the   *)
(* AppInfo.xml that start.pl reads unless X once ended while that          *)
(* directory was made or removed: across removals, requests, and X ending  *)
(* at any moment, also in clean_desk_icons, which removes directories      *)
(* before it writes PuppyPin.                                              *)
IconHasDir ==
  ~Cleaning => \A n \in pin : partDir[n] # None /\ (partDir[n] = Bare => n \in torn)

(* As long as no letter has been given back since the boot, and none was   *)
(* in use at it, no two drives have the same letter, and a drive has none  *)
(* only when all have been given out: also when clean_desk_icons takes     *)
(* icons down and leaves their letters in the list.                        *)
LettersDistinct ==
  orderly =>
    /\ \A n, m \in pin : n # m => label[n] # label[m] \/ label[n] = 0
    /\ \A n \in pin : label[n] = 0 => Len(letters) > Count

(* A drive that the daemon has noted and that is unplugged loses its icon, *)
(* unless it is back before: also when X ends in between.                  *)
GoneLosesIcon ==
  \A n \in Names :
    block1 # None /\ n \in block1 /\ n \notin Present
      ~> (~Cleaning /\ n \notin pin) \/ n \in Present

(* A drive that was not there at the last look, and whose partition the    *)
(* kernel lists before the next, gets its icon.  (One listed later is      *)
(* looked for Retries times and then, unless it is removable, given up.)   *)
NewGetsIcon ==
  \A n \in Names :
    block1 # None /\ n \notin block1 /\ Readable(n) \in Shown
      ~> n \in pin \/ Readable(n) \notin Shown

=============================================================================

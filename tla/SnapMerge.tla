------------------------------ MODULE SnapMerge ------------------------------
(***************************************************************************)
(* /usr/sbin/snapmergepuppy: the script that merges the tmpfs top layer of *)
(* the running system (SNAP = /initrd/pup_rw) onto the save layer          *)
(* (BASE = /initrd/pup_ro1) while the user goes on working.                *)
(*                                                                         *)
(* The live file system is the aufs union                                  *)
(*     /pup_rw=rw : /pup_ro1=ro+wh : /pup_ro2=ro                           *)
(* mounted by init with udba=reval,diropq=w.  After a reboot the top layer *)
(* is an empty tmpfs, so what the user finds is the union of the lower two *)
(* layers: the SAVED view.  The merge runs three passes, each a find whose *)
(* listing feeds a loop: the whiteouts, the directories, the files.  Every *)
(* command of a loop body that changes a layer is an action of its own, so *)
(* user operations and power failures fall between any two of them.        *)
(***************************************************************************)
EXTENDS Integers, FiniteSets, Functions

CONSTANTS
  Files,      (* The non-directories that the user works on.               *)
  Dirs,       (* The directories that hold them.  All but Root lie below a *)
              (* directory that every layer has, as /root: the merge skips *)
              (* the whiteouts at the top of the tree.                     *)
  Root,       (* The member of Dirs that is the top of the tree ($DN = .). *)
  DirOf,      (* The directory of each file.                               *)
  SfsFiles,   (* The files in the read-only puppy.sfs, all with stamp 0.   *)
  SfsDirs,    (* The directories in puppy.sfs.                             *)
  Unsaved,    (* Files that the grep -v of the file pass screens out.      *)
  Links,      (* Files that are symbolic links: never copied with cp -u.   *)
  Size,       (* The space that each version of a file takes.              *)
  Slack,      (* The 200K added to a size before it is compared.           *)
  Capacity,   (* Space of the save layer.                                  *)
  MaxStamp,   (* Bound: the stamps that the user's writes may reach.       *)
  Faults,     (* Bound: TRUE if power may fail and X be asked to leave.    *)
  HangUps,    (* Bound: TRUE if X may end under a merge.                   *)
  OldStamps,  (* TRUE: the user may also restore a file with an old mtime. *)
  None,       (* No entry.                                                 *)
  Wh,         (* A .wh. entry: the whiteout of a name.                     *)
  Torn        (* What reads of a file that cp has not wholly written.      *)

ASSUME TreeAssumption ==
  /\ Root \in Dirs
  /\ DirOf \in [Files -> Dirs]
  /\ SfsFiles \subseteq Files
  /\ SfsDirs \subseteq Dirs
  /\ Root \in SfsDirs
  /\ \A f \in SfsFiles : DirOf[f] \in SfsDirs
  /\ Unsaved \subseteq Files
  /\ Links \subseteq Files

ASSUME SpaceAssumption ==
  /\ IsFiniteSet(Files)
  /\ Size \in [Files -> [0 .. MaxStamp -> Nat]]
  /\ \A f \in Links : \A t \in 0 .. MaxStamp : Size[f][t] = 0
  /\ Slack \in Nat
  /\ Capacity \in Nat

ASSUME StampAssumption ==
  /\ MaxStamp \in Nat
  /\ OldStamps \in BOOLEAN /\ Faults \in BOOLEAN /\ HangUps \in BOOLEAN
  /\ None \notin Nat /\ Wh \notin Nat /\ Torn \notin Nat
  /\ None # Wh /\ None # Torn /\ Wh # Torn

(* A version of a file is its mtime: two versions that differ have         *)
(* different stamps.                                                       *)
Stamps == 0 .. MaxStamp

VARIABLES
  snap,       (* SNAP: each file's version, whiteout or nothing.           *)
  snapDir,    (* SNAP: "none", "plain", "opaque" or "wh" for each dir.     *)
  base,       (* BASE: the mtime of each file, its version, or nothing.    *)
  used,       (* BASE: the space that each file takes.                     *)
  torn,       (* BASE: the files whose content is not wholly written.      *)
  baseWh,     (* BASE: the files that have a .wh. there.                   *)
  baseDir,    (* BASE: the directories there.                              *)
  baseDirWh,  (* BASE: the directories that have a .wh. there.             *)
  baseOpq,    (* BASE: the directories that hold a .wh..wh..opq.           *)
  clock,      (* The last stamp given to a write.                          *)
  pc,         (* What snapmergepuppy does next.                            *)
  todo,       (* The lines of the current pass's listing not yet read.     *)
  cur,        (* $N: the line the loop body works on.                      *)
  src,        (* The version that cp has opened.                           *)
  nextpass,   (* /tmp/flagnextpassthru exists.                             *)
  nospace,    (* /tmp/snapmergepuppy-nospace exists.                       *)
  free,       (* $FREEBASEK.                                               *)
  grown,      (* History: what the user has added in this pass to a file   *)
              (* after its stat and before the end of its cp.              *)
  xrunning,   (* $XRUNNING = yes.                                          *)
  wmexit,     (* /tmp/wmexitmode.txt exists.                               *)
  cut,        (* A loop of this merge ended before its listing did.        *)
  quiet,      (* No user operation since this merge began.                 *)
  bare,       (* Files whose link or whiteout the merge took out of BASE   *)
              (* though cp copied nothing, or that a hang-up left half     *)
              (* done, since the last complete merge, and torn ones that   *)
              (* it took for up to date.                                   *)
  since       (* History: the values each file has shown in the live view  *)
              (* since the last complete quiet merge.                      *)

top    == <<snap, snapDir>>
bottom == <<base, used, torn, baseWh, baseDir, baseDirWh, baseOpq>>
shown  == <<base, torn, baseWh, baseDir, baseDirWh, baseOpq>>  (* what aufs reads *)
flags  == <<nextpass, nospace, free, grown, xrunning, wmexit>>
vars   == <<top, bottom, clock, pc, todo, cur, src, flags, cut, quiet, bare, since>>

-----------------------------------------------------------------------------
(* The views that aufs makes of the layers.                                *)

SfsValue(f) == IF f \in SfsFiles THEN 0 ELSE None

(* The saved view: BASE over puppy.sfs. *)
Saved(f) ==
  IF DirOf[f] \in baseDirWh \/ f \in baseWh THEN None
  ELSE IF base[f] # None THEN IF f \in torn THEN Torn ELSE base[f]
  ELSE IF DirOf[f] \in baseOpq THEN None
  ELSE SfsValue(f)

(* Nothing of the lower layers shows in a directory that is opaque in SNAP *)
(* or that has a whiteout there.                                           *)
Masked(d) == snapDir[d] \in {"opaque", "wh"}

(* The live view: SNAP over the saved view. *)
Live(f) ==
  IF snap[f] \in Stamps THEN snap[f]
  ELSE IF snap[f] = Wh \/ Masked(DirOf[f]) THEN None
  ELSE Saved(f)

SavedDir(d) == d \notin baseDirWh /\ (d \in baseDir \/ d \in SfsDirs)
LiveDir(d)  == \/ snapDir[d] \in {"plain", "opaque"}
               \/ snapDir[d] = "none" /\ SavedDir(d)
FilesIn(d)  == {f \in Files : DirOf[f] = d}

NoLines == [file |-> {}, dir |-> {}, opq |-> {}]

(* What df finds: whiteouts, directories and links take no blocks.         *)
Room == Capacity - SumFunctionOnSet(used, Files)

(* The history takes in what the live view shows after a step. *)
Record == since' = [f \in Files |-> since[f] \union {(Live(f))'}]

(* The save layer is never fuller than full. *)
SpaceOK ==
  /\ used \in [Files -> Nat] /\ Room \in Nat
  /\ free \in Int /\ grown \in Nat

TypeOK ==
  /\ SpaceOK
  /\ snap \in [Files -> Stamps \union {None, Wh}]
  /\ snapDir \in [Dirs -> {"none", "plain", "opaque", "wh"}]
  /\ base \in [Files -> Stamps \union {None}]
  /\ torn \subseteq Files
  /\ baseWh \subseteq Files
  /\ baseDir \subseteq Dirs
  /\ baseDirWh \subseteq Dirs
  /\ baseOpq \subseteq Dirs
  /\ clock \in Stamps
  /\ pc \in {"idle", "wh", "touchWh", "dropWh", "touchDir", "dropDir",
             "touchOpq", "dropOpq", "dirs", "files", "copy", "link", "copying",
             "unwh", "done"}
  /\ todo \in [file : SUBSET Files, dir : SUBSET Dirs, opq : SUBSET Dirs]
  /\ cur \in Files \union Dirs \union {None}
  /\ pc \in {"touchWh", "dropWh", "copy", "link", "copying", "unwh"} => cur \in Files
  /\ pc \in {"touchDir", "dropDir", "touchOpq", "dropOpq"} => cur \in Dirs
  /\ src \in Stamps \union {None}
  /\ nextpass \in BOOLEAN /\ nospace \in BOOLEAN
  /\ xrunning \in BOOLEAN /\ wmexit \in BOOLEAN
  /\ cut \in BOOLEAN /\ quiet \in BOOLEAN
  /\ bare \subseteq Files
  /\ since \in [Files -> SUBSET (Stamps \union {None, Torn})]

(* A boot of the live system onto a save layer that has nothing yet. *)
Init ==
  /\ snap = [f \in Files |-> None]
  /\ snapDir = [d \in Dirs |-> IF d = Root THEN "plain" ELSE "none"]
  /\ base = [f \in Files |-> None] /\ used = [f \in Files |-> 0]
  /\ torn = {} /\ baseWh = {} /\ baseDir = {Root} /\ baseDirWh = {} /\ baseOpq = {}
  /\ clock = 0
  /\ pc = "idle" /\ todo = NoLines /\ cur = None /\ src = None
  /\ nextpass = FALSE /\ nospace = FALSE /\ free = 0 /\ grown = 0
  /\ xrunning = FALSE /\ wmexit = FALSE
  /\ cut = FALSE /\ quiet = FALSE /\ bare = {}
  /\ since = [f \in Files |-> {SfsValue(f)}]

(* A command has taken the file out of BASE, or cp is writing it, and the  *)
(* next one makes good for it.                                             *)
Window(f) == \/ cur = f /\ pc \in {"touchWh", "link", "copying"}
             \/ cur = DirOf[f] /\ pc \in {"touchDir", "touchOpq"}

-----------------------------------------------------------------------------
(* The user, through aufs.                                                 *)

UserStep == /\ quiet' = FALSE
            /\ UNCHANGED <<bottom, pc, todo, cur, src, nextpass, nospace, free,
                           xrunning, wmexit, cut, bare>>
            /\ Record

CopyUp(d) == [snapDir EXCEPT ![d] = IF @ = "none" THEN "plain" ELSE @]

(* What SNAP holds of a file, and what the user adds to one that the merge *)
(* has at hand.                                                            *)
InSnap(f)    == IF snap[f] \in Stamps THEN Size[f][snap[f]] ELSE 0
Growth(f, t) == IF f = cur /\ pc \in {"copy", "copying"} /\ Size[f][t] > InSnap(f)
                THEN Size[f][t] - InSnap(f) ELSE 0

(* Create, overwrite or touch a file. *)
Write(f) ==
  /\ LiveDir(DirOf[f])
  /\ \E t \in Stamps :
       /\ t # Live(f)
       /\ t = clock + 1 \/ (OldStamps /\ t <= clock)
       /\ snap' = [snap EXCEPT ![f] = t]
       /\ grown' = grown + Growth(f, t)
       /\ clock' = IF t > clock THEN t ELSE clock
  /\ snapDir' = CopyUp(DirOf[f])
  /\ UserStep

(* Remove a file.  aufs leaves a whiteout if the name shows below SNAP. *)
Delete(f) ==
  /\ Live(f) # None
  /\ LET below == ~Masked(DirOf[f]) /\ Saved(f) # None IN
       /\ snap' = [snap EXCEPT ![f] = IF below THEN Wh ELSE None]
       /\ snapDir' = IF below THEN CopyUp(DirOf[f]) ELSE snapDir
  /\ UNCHANGED <<clock, grown>>
  /\ UserStep

Rmdir(d) ==
  /\ d # Root /\ LiveDir(d)
  /\ \A f \in FilesIn(d) : Live(f) = None
  /\ snap' = [f \in Files |-> IF DirOf[f] = d THEN None ELSE snap[f]]
  /\ snapDir' = [snapDir EXCEPT ![d] = IF SavedDir(d) THEN "wh" ELSE "none"]
  /\ UNCHANGED <<clock, grown>>
  /\ UserStep

(* Mutant: a mount without diropq=w. *)
MkdirPlain(d) ==
  /\ ~LiveDir(d)
  /\ snapDir' = [snapDir EXCEPT ![d] = "plain"]
  /\ UNCHANGED <<snap, clock, grown>>
  /\ UserStep

(* diropq=w: a directory made over a whiteout in SNAP is made opaque. *)
Mkdir(d) ==
  /\ ~LiveDir(d)
  /\ snapDir' = [snapDir EXCEPT ![d] = IF @ = "wh" THEN "opaque" ELSE "plain"]
  /\ UNCHANGED <<snap, clock, grown>>
  /\ UserStep

(* wmpoweroff, wmreboot and restartwm write /tmp/wmexitmode.txt. *)
RequestExit ==
  /\ Faults /\ ~wmexit
  /\ wmexit' = TRUE
  /\ UNCHANGED <<top, bottom, clock, pc, todo, cur, src, cut, quiet, bare, since,
                 nextpass, nospace, free, grown, xrunning>>

(* The variables of the script, and what is noted of its run, go with it. *)
NoScript == /\ free' = 0 /\ grown' = 0
            /\ xrunning' = FALSE /\ cut' = FALSE /\ quiet' = FALSE

(* How long the file is when cp comes to its end: the user may have        *)
(* overwritten it meanwhile.                                               *)
Lengths == {Size[cur][v] : v \in {src, snap[cur]} \intersect Stamps}

(* What a cp that is interrupted has written by then. *)
CopyStops ==
  IF pc = "copying"
  THEN \E n \in Lengths : \E k \in 0 .. n : k <= Room /\ used' = [used EXCEPT ![cur] = k]
  ELSE UNCHANGED used

(* xinit hangs up the clients of an X that has ended: the daemon dies, and *)
(* its merge with it.                                                      *)
HangUp ==
  /\ HangUps /\ pc # "idle"
  /\ pc' = "idle" /\ todo' = NoLines /\ cur' = None /\ src' = None
  /\ NoScript
  /\ bare' = bare \union {f \in Files : Window(f)}
  /\ CopyStops
  /\ UNCHANGED <<top, shown, clock, nextpass, nospace, wmexit, since>>

(* Power fails: the tmpfs layer and /tmp go, the save layer stays. *)
PowerFail ==
  /\ Faults
  /\ snap' = [f \in Files |-> None]
  /\ snapDir' = [d \in Dirs |-> IF d = Root THEN "plain" ELSE "none"]
  /\ pc' = "idle" /\ todo' = NoLines /\ cur' = None /\ src' = None
  /\ nextpass' = FALSE /\ nospace' = FALSE /\ wmexit' = FALSE
  /\ NoScript
  /\ bare' = {}
  /\ CopyStops
  /\ UNCHANGED <<shown, clock>>
  /\ Record

-----------------------------------------------------------------------------
(* snapmergepuppy.  The loop body works on cur, a line read from todo.     *)

Goto(p, lines)     == pc' = p /\ todo' = lines /\ cur' = None
Read(p, n, lines)  == pc' = p /\ todo' = lines /\ cur' = n
NextCommand(p)     == pc' = p /\ UNCHANGED <<todo, cur>>
LineDone(p)        == pc' = p /\ cur' = None /\ UNCHANGED todo
Quitting           == xrunning /\ wmexit

(* The part of the state that no command of the loops changes. *)
MergeFrame == UNCHANGED <<clock, nextpass, xrunning, wmexit, quiet>> /\ Record
WhFrame    == UNCHANGED <<src, nospace, free, grown, cut, bare>> /\ MergeFrame

(* Started by pup_event_frontend_d, or by rc.shutdown.  XRUNNING says      *)
(* whether ps lists pup_event_frontend_d.                                  *)
StartMerge ==
  /\ pc = "idle"
  /\ Goto("wh", [file |-> {f \in Files : snap[f] = Wh /\ DirOf[f] # Root},
                 dir  |-> {d \in Dirs : snapDir[d] = "wh"},
                 opq  |-> {d \in Dirs : snapDir[d] = "opaque"}])
  /\ xrunning' \in BOOLEAN
  /\ quiet' = TRUE /\ cut' = FALSE
  /\ UNCHANGED <<top, bottom, clock, src, nextpass, nospace, free, grown,
                 wmexit, bare, since>>

(* A plain whiteout: rm -rf $BASE/$N. *)
RemoveFile(f) ==
  /\ pc = "wh" /\ f \in todo.file
  /\ Read("touchWh", f, [todo EXCEPT !.file = @ \ {f}])
  /\ base' = [base EXCEPT ![f] = None] /\ torn' = torn \ {f}
  /\ used' = [used EXCEPT ![f] = 0]
  /\ UNCHANGED <<top, baseWh, baseDir, baseDirWh, baseOpq>>
  /\ WhFrame

(* Mutant: the whiteout is not kept for the files of the read-only layer. *)
ForgetWh ==
  /\ pc = "touchWh"
  /\ NextCommand("dropWh")
  /\ UNCHANGED <<top, bottom>>
  /\ WhFrame

(* touch $BASE/$DN/.wh.$BN if a read-only layer has the file. *)
TouchWh ==
  /\ pc = "touchWh"
  /\ IF cur \in SfsFiles
     THEN baseWh' = baseWh \union {cur} /\ baseDir' = baseDir \union {DirOf[cur]}
     ELSE UNCHANGED <<baseWh, baseDir>>
  /\ NextCommand("dropWh")
  /\ UNCHANGED <<top, base, used, torn, baseDirWh, baseOpq>>
  /\ WhFrame

(* rm -f $SNAP/$DN/.wh.$BN. *)
DropWh ==
  /\ pc = "dropWh"
  /\ snap' = [snap EXCEPT ![cur] = IF @ = Wh THEN None ELSE @]
  /\ LineDone("wh")
  /\ UNCHANGED <<snapDir, bottom>>
  /\ WhFrame

(* rm -rf $BASE/d: the directory goes with all that is in it. *)
EmptyBaseDir(d) ==
  /\ base' = [f \in Files |-> IF DirOf[f] = d THEN None ELSE base[f]]
  /\ used' = [f \in Files |-> IF DirOf[f] = d THEN 0 ELSE used[f]]
  /\ torn' = torn \ FilesIn(d)
  /\ baseWh' = baseWh \ FilesIn(d)
  /\ baseDir' = baseDir \ {d}
  /\ baseOpq' = baseOpq \ {d}
  /\ UNCHANGED <<top, baseDirWh>>
  /\ WhFrame

(* The whiteout of a directory takes the same three commands. *)
RemoveDir(d) ==
  /\ pc = "wh" /\ d \in todo.dir
  /\ Read("touchDir", d, [todo EXCEPT !.dir = @ \ {d}])
  /\ EmptyBaseDir(d)

TouchDir ==
  /\ pc = "touchDir"
  /\ baseDirWh' = IF cur \in SfsDirs THEN baseDirWh \union {cur} ELSE baseDirWh
  /\ NextCommand("dropDir")
  /\ UNCHANGED <<top, base, used, torn, baseWh, baseDir, baseOpq>>
  /\ WhFrame

DropDir ==
  /\ pc = "dropDir"
  /\ snapDir' = [snapDir EXCEPT ![cur] = IF @ = "wh" THEN "none" ELSE @]
  /\ LineDone("wh")
  /\ UNCHANGED <<snap, bottom>>
  /\ WhFrame

(* .wh..wh..opq: rm -rf $BASE/$DN; mkdir -p $BASE/$DN and touch the marker *)
(* there; rm -f the marker in SNAP.                                        *)
RemoveOpaque(d) ==
  /\ pc = "wh" /\ d \in todo.opq
  /\ Read("touchOpq", d, [todo EXCEPT !.opq = @ \ {d}])
  /\ EmptyBaseDir(d)

(* Mutant: the directory is made again without its marker. *)
ForgetOpaque ==
  /\ pc = "touchOpq"
  /\ baseDir' = baseDir \union {cur}
  /\ NextCommand("dropOpq")
  /\ UNCHANGED <<top, base, used, torn, baseWh, baseDirWh, baseOpq>>
  /\ WhFrame

TouchOpaque ==
  /\ pc = "touchOpq"
  /\ baseDir' = baseDir \union {cur}
  /\ baseOpq' = baseOpq \union {cur}
  /\ NextCommand("dropOpq")
  /\ UNCHANGED <<top, base, used, torn, baseWh, baseDirWh>>
  /\ WhFrame

DropOpaque ==
  /\ pc = "dropOpq"
  /\ snapDir' = [snapDir EXCEPT ![cur] = IF @ = "opaque" THEN "plain" ELSE @]
  /\ LineDone("wh")
  /\ UNCHANGED <<snap, bottom>>
  /\ WhFrame

(* The directory pass.  tail +2 leaves the root out of the listing. *)
EndWhiteouts ==
  /\ pc = "wh" /\ todo = NoLines
  /\ Goto("dirs", [NoLines EXCEPT !.dir =
                     {d \in Dirs \ {Root} : snapDir[d] \in {"plain", "opaque"}}])
  /\ UNCHANGED <<top, bottom>>
  /\ WhFrame

MakeDir(d) ==
  /\ pc = "dirs" /\ d \in todo.dir
  /\ ~Quitting
  /\ baseDir' = baseDir \union {d}
  /\ Goto("dirs", [todo EXCEPT !.dir = @ \ {d}])
  /\ UNCHANGED <<top, base, used, torn, baseWh, baseDirWh, baseOpq>>
  /\ WhFrame

(* The loop runs in a subshell: its exit ends the loop, not the script. *)
EndDirs ==
  /\ pc = "dirs"
  /\ (todo = NoLines \/ Quitting)
  /\ cut' = (todo # NoLines)
  /\ nospace' = FALSE /\ free' = Room /\ grown' = 0
  /\ Goto("files", [NoLines EXCEPT !.file =
                      {f \in Files \ Unsaved : snap[f] \in Stamps}])
  /\ UNCHANGED <<top, bottom, src, bare>>
  /\ MergeFrame

(* The file pass: the loop body up to cp.  stat reads the live file; df is *)
(* run again only when the running estimate is too small, and then the     *)
(* file at hand is not taken off it.                                       *)
LiveSize(f) == IF Live(f) \in Stamps THEN Size[f][Live(f)] ELSE used[f]
Need(f)     == LiveSize(f) + Slack

(* Mutant: when the estimate is too small, df is believed to say more. *)
CheckOnce(f) ==
  /\ pc = "files" /\ f \in todo.file
  /\ ~Quitting
  /\ Live(f) # None
  /\ free' = IF Need(f) <= free THEN free - Need(f) ELSE Room
  /\ Read("copy", f, [todo EXCEPT !.file = @ \ {f}])
  /\ UNCHANGED <<top, bottom, src, nospace, grown, cut, bare>>
  /\ MergeFrame

CheckFile(f) ==
  /\ pc = "files" /\ f \in todo.file
  /\ ~Quitting
  /\ Live(f) # None
  /\ \/ Need(f) <= free /\ free' = free - Need(f)
     \/ Need(f) > free /\ Need(f) <= Room /\ free' = Room
  /\ Read("copy", f, [todo EXCEPT !.file = @ \ {f}])
  /\ UNCHANGED <<top, bottom, src, nospace, grown, cut, bare>>
  /\ MergeFrame

FileFrame == /\ UNCHANGED <<top, baseDir, baseDirWh, baseOpq, nospace, free, grown, cut>>
             /\ MergeFrame

(* [ -L $BASE/$N ] && rm -f $BASE/$N. *)
RemoveLink ==
  /\ pc = "copy" /\ cur \in Links
  /\ base' = [base EXCEPT ![cur] = None]
  /\ NextCommand("link")
  /\ UNCHANGED <<used, torn, baseWh, src, bare>>
  /\ FileFrame

(* Mutant: whatever SNAP has of the name is copied, a whiteout too. *)
ReadableAnyhow == DirOf[cur] \in baseDir

(* cp fails if the file has gone or has no directory in BASE. *)
Readable == snap[cur] \in Stamps /\ DirOf[cur] \in baseDir

CopyLink ==
  /\ pc = "link"
  /\ IF Readable
     THEN /\ base' = [base EXCEPT ![cur] = snap[cur]] /\ src' = snap[cur]
          /\ UNCHANGED bare
     ELSE bare' = bare \union {cur} /\ UNCHANGED <<base, src>>
  /\ NextCommand("unwh")
  /\ UNCHANGED <<used, torn, baseWh>>
  /\ FileFrame

(* cp -a -f, or cp -a -u -f once a merge has run in this session. *)
AsNew  == base[cur] # None /\ base[cur] >= snap[cur]
Wanted == Readable /\ ~(nextpass /\ AsNew)

(* cp opens both files, which empties the one in BASE. *)
OpenCopy ==
  /\ pc = "copy" /\ cur \notin Links /\ Wanted
  /\ src' = snap[cur]
  /\ base' = [base EXCEPT ![cur] = clock] /\ used' = [used EXCEPT ![cur] = 0]
  /\ torn' = torn \union {cur}
  /\ NextCommand("copying")
  /\ UNCHANGED <<baseWh, bare>>
  /\ FileFrame

SkipCopy ==
  /\ pc = "copy" /\ cur \notin Links /\ ~Wanted
  /\ NextCommand("unwh")
  /\ UNCHANGED <<base, used, torn, baseWh, src, bare>>
  /\ FileFrame

(* cp writes the content and then sets the mtime.  If BASE fills up it     *)
(* stops before that, with what there was room for.  If the user has       *)
(* overwritten the file meanwhile, the copy may be part old and part new.  *)
CloseCopy ==
  /\ pc = "copying"
  /\ \E n \in Lengths :
       \/ /\ n <= Room
          /\ used' = [used EXCEPT ![cur] = n] /\ base' = [base EXCEPT ![cur] = src]
          /\ \/ n = Size[cur][src] /\ torn' = torn \ {cur}
             \/ snap[cur] \in Stamps \ {src} /\ UNCHANGED torn
       \/ n > Room /\ used' = [used EXCEPT ![cur] = Room] /\ UNCHANGED <<base, torn>>
  /\ NextCommand("unwh")
  /\ UNCHANGED <<baseWh, src, bare>>
  /\ FileFrame

(* Mutant: the whiteout stays in BASE beside the file. *)
LeaveWhiteout ==
  /\ pc = "unwh"
  /\ src' = None
  /\ LineDone("files")
  /\ UNCHANGED <<base, used, torn, baseWh, bare>>
  /\ FileFrame

(* rm $BASE/$DN/.wh.$BN if there is one. *)
UnWhiteout ==
  /\ pc = "unwh"
  /\ baseWh' = baseWh \ {cur}
  /\ bare' = IF cur \in baseWh /\ src = None THEN bare \union {cur} ELSE bare
  /\ src' = None
  /\ LineDone("files")
  /\ UNCHANGED <<base, used, torn>>
  /\ FileFrame

(* The loop ends with its listing, with exit when X is shutting down, or   *)
(* with break at a file that has gone or that finds no room.               *)
LeaveFiles(early) ==
  /\ Goto("done", NoLines)
  /\ cut' = (cut \/ early)
  /\ UNCHANGED <<top, bottom, src, free, grown, bare>>
  /\ MergeFrame

EndFiles ==
  /\ pc = "files"
  /\ (todo = NoLines \/ Quitting)
  /\ UNCHANGED nospace
  /\ LeaveFiles(todo # NoLines)

FileGone(f) ==
  /\ pc = "files" /\ f \in todo.file /\ ~Quitting
  /\ Live(f) = None
  /\ UNCHANGED nospace
  /\ LeaveFiles(TRUE)

NoRoom(f) ==
  /\ pc = "files" /\ f \in todo.file /\ ~Quitting
  /\ Live(f) # None
  /\ Need(f) > free /\ Need(f) > Room
  /\ nospace' = TRUE
  /\ LeaveFiles(TRUE)

(* touch /tmp/flagnextpassthru, whatever the loops did.  A merge that no   *)
(* user operation disturbed and that read all its lines is the new         *)
(* recovery point.                                                         *)
FinishMerge ==
  /\ pc = "done"
  /\ nextpass' = TRUE
  /\ Goto("idle", NoLines)
  /\ IF quiet /\ ~cut THEN bare' = bare \intersect torn /\ since' = [f \in Files |-> {Live(f)}]
     ELSE UNCHANGED <<bare, since>>
  /\ NoScript
  /\ UNCHANGED <<top, bottom, clock, src, nospace, wmexit>>

-----------------------------------------------------------------------------
UserAction ==
  \/ \E f \in Files : Write(f) \/ Delete(f)
  \/ \E d \in Dirs : Rmdir(d) \/ Mkdir(d)

MergeStep ==
  \/ StartMerge
  \/ \E f \in Files : RemoveFile(f) \/ CheckFile(f) \/ FileGone(f) \/ NoRoom(f)
  \/ \E d \in Dirs : RemoveDir(d) \/ RemoveOpaque(d) \/ MakeDir(d)
  \/ TouchWh \/ DropWh \/ TouchDir \/ DropDir \/ TouchOpaque \/ DropOpaque
  \/ EndWhiteouts \/ EndDirs
  \/ RemoveLink \/ CopyLink \/ OpenCopy \/ SkipCopy \/ CloseCopy \/ UnWhiteout
  \/ EndFiles \/ FinishMerge

Next == UserAction \/ MergeStep \/ RequestExit \/ HangUp \/ PowerFail

Spec == Init /\ [][Next]_vars

-----------------------------------------------------------------------------
(* The merge never changes what the running system sees: the whiteouts it  *)
(* takes out of SNAP and the files it puts under SNAP leave the union as   *)
(* it was, whatever the user does between two commands.  The exception is  *)
(* a file that the user removes after its copy and before rm takes the     *)
(* whiteout of its name out of BASE: aufs left no whiteout in SNAP, since  *)
(* the one in BASE hid the copy, and the file comes back.                  *)
Resurrected(f) == pc = "unwh" /\ f = cur /\ snap[f] = None

LiveViewStable ==
  [][MergeStep => \A f \in Files : (Live(f))' = Live(f) \/ Resurrected(f)]_vars

(* For the user the union of the layers is an ordinary tree of files: an   *)
(* operation changes what it names and nothing else, a directory made      *)
(* again is empty, and so it stays while merges go on beneath.  A merge    *)
(* brings back no more than the file that LiveViewStable excepts, and the  *)
(* empty directory that the user removes after find has listed it and      *)
(* before mkdir -p makes it in BASE.                                       *)
LiveTree  == [f \in Files |-> Live(f)]
LiveDirs  == {d \in Dirs : d = Root \/ LiveDir(d)}
SavedTree == [f \in Files |-> Saved(f)]
SavedDirs == {d \in Dirs : d = Root \/ SavedDir(d)}

Tree == INSTANCE FileTree
  WITH Contents <- Stamps \union {Torn},
       value <- LiveTree, dirs <- LiveDirs,
       saved <- SavedTree, savedDirs <- SavedDirs

TreeSpec == Tree!Spec

(* Why that is so.  What a line of a listing names was in SNAP when find   *)
(* ran.  Whatever became of it since, if SNAP now has nothing of it that   *)
(* could hide the lower layers then they have nothing to hide either: the  *)
(* rm and touch of that line cannot uncover anything.                      *)
Covered(f) == snap[f] = None /\ ~Masked(DirOf[f]) => Saved(f) = None
Closed(d)  == ~Masked(d) => ~SavedDir(d)
Emptied(d) == \A f \in FilesIn(d) : base[f] = None

WhPass == {"wh", "touchWh", "dropWh", "touchDir", "dropDir", "touchOpq", "dropOpq"}

LinesCovered ==
  /\ \A f \in todo.file : Covered(f)
  /\ pc \in WhPass => /\ todo.dir \intersect todo.opq = {}
                      /\ \A d \in todo.dir \union todo.opq : Closed(d)

LineCovered ==
  /\ pc \in {"touchWh", "copy", "link", "copying"} => Covered(cur)
  /\ pc \in {"copy", "link", "copying", "unwh"} => cur \notin todo.file
  /\ pc \in {"touchDir", "touchOpq"} => Closed(cur)
  /\ pc \in {"touchDir", "touchOpq", "dropOpq"} => Emptied(cur)
  /\ pc = "touchWh"  => base[cur] = None
  /\ pc = "dropWh"   => Saved(cur) = None
  /\ pc = "dropDir"  => ~SavedDir(cur)
  /\ pc \in {"touchDir", "touchOpq"} => cur \notin baseDir
  /\ pc \in {"touchOpq", "dropOpq"} => cur \notin todo.dir \union todo.opq
  /\ pc = "dropOpq"  => cur \in baseOpq
  /\ pc = "copying"  => base[cur] # None /\ src \in Stamps

LayersSound ==
  /\ \A f \in Files : base[f] # None => DirOf[f] \in baseDir
  /\ \A f \in Files : snap[f] # None => snapDir[DirOf[f]] \in {"plain", "opaque"}

NothingUncovered == LayersSound /\ LinesCovered /\ LineCovered

(* Power may fail at any moment: each file is then found as the running    *)
(* system has shown it at some moment since the last merge that ran to its *)
(* end undisturbed, so no earlier version and no deleted file comes back.  *)
(* Not so between two commands that take a file out of BASE and record     *)
(* that it is gone, while cp writes it, and where the whiteout of a        *)
(* directory in BASE hides the one that the user made in its place.  A     *)
(* copy that the user disturbed is good only if the next merge replaces    *)
(* it, and what BASE hid of a file whose link or whiteout the merge        *)
(* removed there comes back if cp then copied nothing.  A hang-up keeps    *)
(* the merge in one of these windows until a later merge leaves it; with   *)
(* cp -u none may (README, Findings).                                      *)
ToSave      == {f \in Files \ Unsaved : DirOf[f] # Root}
Shadowed(f) == DirOf[f] \in baseDirWh \intersect baseDir
Redone(f)   == \/ snap[f] = Wh \/ Masked(DirOf[f])
               \/ snap[f] \in Stamps /\ base[f] < snap[f]

RecoveryPoint ==
  \A f \in ToSave :
    \/ Window(f) \/ Shadowed(f)
    \/ Saved(f) \in since[f]
    \/ Saved(f) = Torn /\ Redone(f)
    \/ f \in bare

(* A merge that no user operation disturbed and that read all its lines is *)
(* what makes a new recovery point: after a reboot every file that grep -v *)
(* lets through would show as it does now, also those that SNAP holds only *)
(* a whiteout of.  Not so where the whiteout of a directory in BASE hides  *)
(* the one in SNAP, and for the file that a hang-up left half written and  *)
(* that cp -u then took for up to date.                                    *)
GivenUp(f) == f \in torn /\ f \in bare

MergeSaves ==
  pc = "done" /\ quiet /\ ~cut =>
    \A f \in ToSave : Saved(f) = Live(f) \/ Shadowed(f) \/ GivenUp(f)

(* The estimate of the free room, taken down file by file, and the check   *)
(* against df stop the merge before cp fills the save layer: cp lacks no   *)
(* more room than the user has added, in this pass, to files that the      *)
(* merge had stat'ed and not yet copied.                                   *)
EnoughRoom == pc = "copying" => \A n \in Lengths : n <= Room + grown

(* cp has room for the file, however long it is when cp gets there.        *)
CopyFits == pc = "copying" => \A n \in Lengths : n <= Room

(* A merge that no user operation disturbed and that read all its lines    *)
(* has saved the tmpfs layer: every file that SNAP holds and grep -v lets  *)
(* through is what the user finds after a reboot.                          *)
LayerSaved ==
  pc = "done" /\ quiet /\ ~cut =>
    \A f \in Files \ Unsaved : snap[f] \in Stamps => Saved(f) = snap[f]
=============================================================================

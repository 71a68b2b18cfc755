------------------------------ MODULE DriveUse ------------------------------
(***************************************************************************)
(* Partitions that are mounted when their button is pressed and unmounted  *)
(* when nobody needs them any more.                                        *)
(*                                                                         *)
(*   start.pl      the start window.  A button of a partition runs AppRun  *)
(*                 (drive_all), or in wipe mode umount and wipe.pl, and    *)
(*                 waits for it.  Every half second set_drives looks which *)
(*                 partitions are mounted and which of them have a window  *)
(*                 of the file manager, unmounts those whose window has    *)
(*                 gone, and colours the buttons of the mounted ones.      *)
(*   drive_all     mounts the partition if df does not list it, and opens  *)
(*                 a window of the file manager on it.                     *)
(*   pmount        the mount manager, whose buttons mount and unmount.     *)
(*                 AppRun ends with it when a mount fails, and start.pl    *)
(*                 waits; but the daemon replaces it by one that nobody    *)
(*                 waits for when some drive is removed, pmount does so    *)
(*                 itself after a failure, and the user can type its name  *)
(*                 in the Terminal of start.pl's menu.  So one may be open *)
(*                 at any time.                                            *)
(*   the daemon    auto_unmount_func of pup_event_frontend_d unmounts what *)
(*                 fuser finds nobody using, unless a player, a burner or  *)
(*                 a download is running.                                  *)
(*                                                                         *)
(* The icons of the desktop lie under the start window and are left out,   *)
(* and so are drives that come and go.                                     *)
(***************************************************************************)
EXTENDS Naturals

CONSTANTS
  Parts,        (* The partitions that have a button.                      *)
  Writable,     (* Those that drive_all mounts for writing: the ones of    *)
                (* USB drives, and ntfs, for which /bin/mount drops "ro".  *)
  Listed,       (* Those that pmount lists: it knows their file system.    *)
  Used,         (* Bound: those on which programs open files.              *)
  AutoUnmount,  (* AUTOUNMOUNT of /etc/eventmanager.                       *)
  Watching,     (* TRUE if the file manager keeps the directory of a window *)
                (* open, and so in use; FALSE if it has inotify tell it.   *)
  NoPart        (* No partition.                                           *)

ASSUME DriveAssumption ==
  /\ Writable \subseteq Parts /\ Listed \subseteq Parts /\ Used \subseteq Parts
  /\ NoPart \notin Parts
  /\ AutoUnmount \in BOOLEAN /\ Watching \in BOOLEAN

VARIABLES
  mounted,    (* The mounted partitions, each on its directory of /mnt.    *)
  window,     (* Those on whose directory a window is open.                *)
  inUse,      (* Those on which a program has files open.                  *)
  app,        (* A program runs that the daemon must not disturb.          *)
  late,       (* History: those that pmount mounts while set_drives looks. *)
  mode,       (* $mode of start.pl.                                        *)
  at,         (* Where start.pl is.                                        *)
  part,       (* The partition it is busy with.                            *)
  todo,       (* The lines of PuppyPin that set_drives has yet to read.    *)
  found,      (* The mounted ones of those it has read.                    *)
  seen,       (* %seen_mounted.                                            *)
  shown,      (* The buttons with the background of a mounted partition.   *)
  closing,    (* "umount ... &" that start.pl has started.                 *)
  apprun,     (* Where AppRun is.                                          *)
  target,     (* Its partition.                                            *)
  du,         (* Where auto_unmount_func is.                               *)
  duTodo,     (* The mount points it has yet to look at.                   *)
  duPart      (* The one it is about to unmount.                           *)

system == <<mounted, window, inUse>>
others == <<app, late>>
poll   == <<todo, found, seen, shown, closing>>
start  == <<mode, at, part, poll>>
press  == <<apprun, target>>
daemon == <<du, duTodo, duPart>>
vars   == <<system, others, start, press, daemon>>

TypeOK ==
  /\ mounted \subseteq Parts /\ window \subseteq Parts
  /\ inUse \subseteq mounted
  /\ app \in BOOLEAN /\ late \subseteq Listed
  /\ mode \in {"normal", "wipe"}
  /\ at \in {"events", "poll", "window", "apprun", "umount", "wipe"}
  /\ part \in Parts \union {NoPart} /\ target \in Parts \union {NoPart}
  /\ (at \in {"events", "poll"}) <=> (part = NoPart)
  /\ (apprun = "none") <=> (target = NoPart)
  /\ todo \subseteq Parts /\ found \subseteq Parts \ todo
  /\ at \notin {"poll", "window"} => todo = {} /\ found = {}
  /\ seen \subseteq Parts /\ shown \subseteq Parts /\ closing \subseteq Parts
  /\ apprun \in {"none", "df", "mount", "openrox", "pmount"}
  /\ apprun # "none" => at = "apprun"
  /\ du \in {"asleep", "looking", "umount"}
  /\ duTodo \subseteq Parts /\ duPart \in Parts \union {NoPart}
  /\ (du = "umount") <=> (duPart \in Parts)

Init ==
  /\ mounted = {} /\ window = {} /\ inUse = {}
  /\ app = FALSE /\ late = {}
  /\ mode = "normal" /\ at = "events" /\ part = NoPart
  /\ todo = {} /\ found = {} /\ seen = {} /\ shown = {} /\ closing = {}
  /\ apprun = "none" /\ target = NoPart
  /\ du = "asleep" /\ duTodo = {} /\ duPart = NoPart

-----------------------------------------------------------------------------
(* The kernel and the file manager.                                        *)

Busy(p) == p \in inUse \/ (Watching /\ p \in window)

Unmount(p) ==
  /\ mounted' = IF Busy(p) THEN mounted ELSE mounted \ {p}
  /\ UNCHANGED <<window, inUse>>

UserFrame == UNCHANGED <<mounted, others, start, press, daemon>>

CloseWindow(p) ==
  /\ p \in window
  /\ window' = window \ {p}
  /\ UNCHANGED inUse
  /\ UserFrame

(* A file of the window is opened or copied, or files are dropped on it.   *)
(* In a bare directory they lie in memory, and keep no partition in use.   *)
Use(p) ==
  /\ p \in Used \intersect window \intersect mounted
  /\ inUse' = inUse \union {p}
  /\ UNCHANGED window
  /\ UserFrame

EndUse(p) ==
  /\ p \in inUse
  /\ inUse' = inUse \ {p}
  /\ UNCHANGED window
  /\ UserFrame

(* A player, a burner, wget or the package manager starts or ends.  The    *)
(* daemon looks for them before auto_unmount_func only: one that starts    *)
(* during the function may as well start at its end.                       *)
ToggleApp ==
  /\ du = "asleep"
  /\ app' = ~app
  /\ UNCHANGED <<system, late, start, press, daemon>>

-----------------------------------------------------------------------------
(* start.pl: its buttons.                                                  *)

SwitchMode ==
  /\ at = "events"
  /\ mode' = IF mode = "normal" THEN "wipe" ELSE "normal"
  /\ UNCHANGED <<system, others, at, part, poll, press, daemon>>

(* Mutant: AppRun runs in the background. *)
PressBehind(p) ==
  /\ at = "events" /\ mode = "normal"
  /\ apprun' = "df" /\ target' = p
  /\ UNCHANGED <<system, others, start, daemon>>

(* In normal mode the button runs AppRun, and start.pl waits for its end. *)
Press(p) ==
  /\ at = "events" /\ mode = "normal"
  /\ at' = "apprun" /\ part' = p
  /\ apprun' = "df" /\ target' = p
  /\ UNCHANGED <<system, others, mode, poll, daemon>>

AppRunReturns ==
  /\ at = "apprun" /\ apprun = "none"
  /\ at' = "events" /\ part' = NoPart
  /\ UNCHANGED <<system, others, mode, poll, press, daemon>>

PressToWipe(p) ==
  /\ at = "events" /\ mode = "wipe"
  /\ at' = "umount" /\ part' = p
  /\ UNCHANGED <<system, others, mode, poll, press, daemon>>

(* What umount answers makes no difference. *)
UmountToWipe ==
  /\ at = "umount"
  /\ Unmount(part)
  /\ at' = "wipe"
  /\ UNCHANGED <<others, mode, part, poll, press, daemon>>

WipeReturns ==
  /\ at = "wipe"
  /\ at' = "events" /\ mode' = "normal" /\ part' = NoPart
  /\ UNCHANGED <<system, others, poll, press, daemon>>

-----------------------------------------------------------------------------
(* start.pl: set_drives.                                                   *)

PollFrame == UNCHANGED <<system, app, mode, press, daemon>>

BeginPoll ==
  /\ at = "events"
  /\ at' = "poll" /\ todo' = Parts /\ late' = {}
  /\ UNCHANGED <<part, found, seen, shown, closing>>
  /\ PollFrame

GrepMounts(p) ==
  /\ at = "poll" /\ p \in todo
  /\ todo' = todo \ {p}
  /\ IF p \in mounted
       THEN at' = "window" /\ part' = p /\ found' = found \union {p}
       ELSE UNCHANGED <<at, part, found>>
  /\ UNCHANGED <<late, seen, shown, closing>>
  /\ PollFrame

(* xwininfo: only a partition that once had a window is unmounted when it  *)
(* has none.                                                               *)
LookForWindow ==
  /\ at = "window"
  /\ at' = "poll" /\ part' = NoPart
  /\ IF part \in window
       THEN seen' = seen \union {part} /\ UNCHANGED closing
       ELSE seen' = seen \ {part} /\ closing' = closing \union (seen \intersect {part})
  /\ UNCHANGED <<late, todo, found, shown>>
  /\ PollFrame

(* Mutant: a partition that is not mounted any more is no reason. *)
RedrawMore ==
  /\ at = "poll" /\ todo = {}
  /\ at' = "events" /\ shown' = shown \union found /\ found' = {} /\ late' = {}
  /\ UNCHANGED <<part, todo, seen, closing>>
  /\ PollFrame

(* Mutant: the names alone are compared. *)
RedrawSeldom ==
  /\ at = "poll" /\ todo = {}
  /\ at' = "events" /\ found' = {} /\ late' = {}
  /\ UNCHANGED <<part, todo, seen, shown, closing>>
  /\ PollFrame

(* The buttons are drawn again when one of them is to change. *)
Redraw ==
  /\ at = "poll" /\ todo = {}
  /\ at' = "events" /\ shown' = found /\ found' = {} /\ late' = {}
  /\ UNCHANGED <<part, todo, seen, closing>>
  /\ PollFrame

(* The umount that runs in the background. *)
CloseMount(p) ==
  /\ p \in closing
  /\ closing' = closing \ {p}
  /\ Unmount(p)
  /\ UNCHANGED <<others, mode, at, part, todo, found, seen, shown, press, daemon>>

-----------------------------------------------------------------------------
(* drive_all.                                                              *)

AppRunFrame == UNCHANGED <<inUse, others, start, daemon>>

Df ==
  /\ apprun = "df"
  /\ apprun' = IF target \in mounted THEN "openrox" ELSE "mount"
  /\ UNCHANGED <<mounted, window, target>>
  /\ AppRunFrame

Mount ==
  /\ apprun = "mount"
  /\ apprun' = "openrox" /\ mounted' = mounted \union {target}
  /\ UNCHANGED <<window, target>>
  /\ AppRunFrame

(* A mount that fails leads to pmount, which takes the place of another. *)
MountFails ==
  /\ apprun = "mount"
  /\ apprun' = "pmount"
  /\ UNCHANGED <<mounted, window, target>>
  /\ AppRunFrame

Openrox ==
  /\ apprun = "openrox"
  /\ apprun' = "none" /\ target' = NoPart
  /\ window' = window \union {target}
  /\ UNCHANGED mounted
  /\ AppRunFrame

(* AppRun ends with its pmount: the user quits, the daemon replaces it, or *)
(* pmount_reload does.                                                     *)
LeavePmount ==
  /\ apprun = "pmount"
  /\ apprun' = "none" /\ target' = NoPart
  /\ UNCHANGED <<mounted, window>>
  /\ AppRunFrame

-----------------------------------------------------------------------------
(* The buttons of pmount.  What fails there changes nothing.               *)

PmountFrame == UNCHANGED <<inUse, app, start, press, daemon>>

Mountme(p) ==
  /\ p \in Listed \ mounted
  /\ mounted' = mounted \union {p}
  /\ late' = IF at \in {"poll", "window"} THEN late \union {p} ELSE late
  /\ UNCHANGED window
  /\ PmountFrame

(* exec rox -x -d, for which nobody waits: the partition may be unmounted  *)
(* again.  So it is if the user goes to the directory in another window.   *)
ShowMount(p) ==
  /\ p \in Listed \ window
  /\ window' = window \union {p}
  /\ UNCHANGED <<mounted, late>>
  /\ PmountFrame

(* rox -D, which is a CloseWindow, and umount. *)
Unmountme(p) ==
  /\ p \in Listed \ window
  /\ Unmount(p)
  /\ UNCHANGED <<others, start, press, daemon>>

-----------------------------------------------------------------------------
(* auto_unmount_func of the daemon.                                        *)

DaemonFrame == UNCHANGED <<others, start, press>>

(* The daemon has read the process list just before. *)
ListMounts ==
  /\ AutoUnmount /\ du = "asleep" /\ ~app
  /\ du' = "looking" /\ duTodo' = mounted
  /\ UNCHANGED <<system, duPart>>
  /\ DaemonFrame

(* Mutant: the first partition in use ends the round. *)
StopAtUse(p) ==
  /\ du = "looking" /\ p \in duTodo
  /\ IF p \in mounted /\ ~Busy(p)
       THEN du' = "umount" /\ duPart' = p /\ duTodo' = duTodo \ {p}
       ELSE duTodo' = {} /\ UNCHANGED <<du, duPart>>
  /\ UNCHANGED system
  /\ DaemonFrame

(* fuser; of a directory that is no mount point any more it lists the      *)
(* users of the whole system.                                              *)
Fuser(p) ==
  /\ du = "looking" /\ p \in duTodo
  /\ duTodo' = duTodo \ {p}
  /\ IF p \in mounted /\ ~Busy(p)
       THEN du' = "umount" /\ duPart' = p
       ELSE UNCHANGED <<du, duPart>>
  /\ UNCHANGED system
  /\ DaemonFrame

AutoUmount ==
  /\ du = "umount"
  /\ Unmount(duPart)
  /\ du' = "looking" /\ duPart' = NoPart
  /\ UNCHANGED duTodo
  /\ DaemonFrame

EndRound ==
  /\ du = "looking" /\ duTodo = {}
  /\ du' = "asleep"
  /\ UNCHANGED <<system, duTodo, duPart>>
  /\ DaemonFrame

-----------------------------------------------------------------------------
User == \/ SwitchMode \/ WipeReturns \/ LeavePmount \/ ToggleApp
        \/ \E p \in Parts : \/ CloseWindow(p) \/ Use(p) \/ EndUse(p)
                            \/ Press(p) \/ PressToWipe(p)
                            \/ Mountme(p) \/ ShowMount(p) \/ Unmountme(p)

Poll == \/ LookForWindow \/ Redraw \/ AppRunReturns \/ UmountToWipe
        \/ \E p \in Parts : GrepMounts(p)

AppRun == Df \/ Mount \/ MountFails \/ Openrox

Daemon == ListMounts \/ AutoUmount \/ EndRound \/ \E p \in Parts : Fuser(p)

Next == \/ User \/ BeginPoll \/ Poll \/ AppRun \/ Daemon
        \/ \E p \in Parts : CloseMount(p)

(* Programs get on; nothing is asked of the user, of pmount and wipe.pl,   *)
(* which end when the user says so, or of the programs that have files     *)
(* open.  The timer of set_drives is served whenever Tk handles events     *)
(* after it is due, however often a button is pressed.                     *)
Fairness ==
  /\ SF_vars(BeginPoll) /\ WF_vars(Poll) /\ WF_vars(AppRun) /\ WF_vars(Daemon)
  /\ \A p \in Parts : WF_vars(CloseMount(p))

Spec == Init /\ [][Next]_vars /\ Fairness

-----------------------------------------------------------------------------
(* A button that set_drives draws without the background of a mounted      *)
(* partition is that of a partition that is not mounted at that moment,    *)
(* although it looked at /proc/mounts some time before: the drive may be   *)
(* taken away.  Only AppRun, for which start.pl waits, and pmount mount    *)
(* partitions; what a pmount mounts between the look and the drawing is    *)
(* shown half a second later.                                              *)
RedrawTrue ==
  [][Redraw => \A p \in Parts \ shown' : p \in mounted => p \in late]_vars

(* A partition that umount has freed for wipe.pl is mounted by nobody      *)
(* while it is wiped, unless the user does it in pmount.                   *)
WipedStaysUnmounted ==
  [][at = "wipe" /\ part \notin mounted
       => part \notin mounted' \/ Mountme(part)]_vars

(* The buttons come to show what is mounted. *)
ShownInTheEnd ==
  []<>(at = "events") =>
    \A p \in Parts : /\ <>[](p \in mounted) => <>[](p \in shown)
                     /\ <>[](p \notin mounted) => <>[](p \notin shown)

(* A partition that has no window and is used by no program for good is    *)
(* unmounted, also when start.pl did not see the window or its umount      *)
(* failed: the daemon comes after it, whatever the other partitions do.    *)
(* As long as a player or a download runs it does not, even if that one    *)
(* uses another partition or none.                                         *)
Released ==
  <>[]~app =>
    \A p \in Parts :
      <>[](p \notin window /\ p \notin inUse) => []<>(p \notin mounted)

(* What is dropped on the window of a drive goes to the drive: its         *)
(* directory is not a bare one in memory.                                  *)
DropsReachDrive == window \intersect Writable \subseteq mounted
=============================================================================

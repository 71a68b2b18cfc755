----------------------------- MODULE SaveSession -----------------------------
(***************************************************************************)
(* Who runs snapmergepuppy, and when, in a session in PUPMODE 3, 7 or 13.  *)
(*                                                                         *)
(*   pup_event_frontend_d   .xinitrc starts it with X.  It wakes every two *)
(*                          seconds and at every second wake-up looks at   *)
(*                          its clock, at the process list and at the      *)
(*                          request file, and runs the merge itself.       *)
(*   save2flash             the save icon: puts the request file there.    *)
(*   installpkg.sh,         the package scripts that write straight to the *)
(*   removepreview.sh       save layer, and must do so beside no merge.    *)
(*   wmexit, restartwm,     write /tmp/wmexitmode.txt, give the daemon     *)
(*   wmpoweroff, wmreboot   30 seconds to leave and kill the window        *)
(*                          manager; xwin reads the file when X has ended. *)
(*                          A second one may be asked for meanwhile.       *)
(*   rc.shutdown            waits for a running merge, kills X and runs    *)
(*                          the last one.  Nothing keeps two runs of it    *)
(*                          apart: one that the user has typed poweroff    *)
(*                          for, and one that xwin starts.                 *)
(*                                                                         *)
(* The content of a merge is SnapMerge's; here a merge that comes to its   *)
(* end has saved all that was done before it began.                        *)
(***************************************************************************)
EXTENDS Integers

CONSTANTS
  Installers,   (* Runs of the package scripts.                            *)
  Intervals,    (* Values of RAMSAVEINTERVAL, in rounds of the daemon.     *)
  Hotplug,      (* BACKENDON and HOTPLUGON of /etc/eventmanager.           *)
  Slow,         (* TRUE if the daemon may take more than 30 seconds over   *)
                (* what it does between two sleeps.                        *)
  MaxWork,      (* Bound: the changes that the user makes.                 *)
  MaxStarts,    (* Bound: the times X is started.                          *)
  MaxScripts    (* Bound: the wm* scripts at work at a time.               *)

ASSUME SessionAssumption ==
  /\ Intervals \subseteq Nat
  /\ Hotplug \in BOOLEAN /\ Slow \in BOOLEAN
  /\ MaxWork \in Nat /\ MaxStarts \in Nat /\ MaxScripts \in Nat

VARIABLES
  work,       (* The number of changes that the user has made.             *)
  saved,      (* So many of them, the oldest ones, are in the save layer.  *)
  x,          (* X: "up", "ending" (back in xwin) or "down" (at a prompt). *)
  starts,     (* How often X was started.                                  *)
  wmexit,     (* The content of /tmp/wmexitmode.txt, "none" without one.   *)
  scripts,    (* The wm* scripts that wait for the daemon.                 *)
  daemon,     (* What pup_event_frontend_d does.                           *)
  toggle,     (* $TOGGLE.                                                  *)
  savecnt,    (* $SAVECNT, in rounds.                                      *)
  from,       (* The work that the daemon's merge found when it began.     *)
  request,    (* /tmp/snapmergepuppyrequest exists.                        *)
  interval,   (* RAMSAVEINTERVAL, as the daemon has read it; 0 is never.   *)
  app,        (* A player or burner that must not be disturbed is running. *)
  inst,       (* What each package script does.                            *)
  shut,       (* Where each run of rc.shutdown is.                         *)
  final,      (* The work that its merge found when it began.              *)
  xrunning,   (* $XRUNNING in its merge.                                   *)
  back        (* History: xwin has started X again after an rc.shutdown    *)
              (* had killed it.                                            *)

user    == <<work, app, interval>>
xserver == <<x, starts, wmexit, scripts>>
loop    == <<daemon, toggle, savecnt, from>>
halt    == <<shut, final, xrunning, back>>
vars    == <<user, saved, xserver, loop, request, inst, halt>>

ExitModes == {"exit", "restart", "poweroff"}

(* Who runs rc.shutdown: poweroff, typed at a console (Bound: once), or    *)
(* the poweroff that xwin ends with.                                       *)
Shutdowns == {"console", "xwin"}

On      == \A s \in Shutdowns : shut[s] = "none"
Off     == \E s \in Shutdowns : shut[s] = "off"
Past(s) == shut[s] \in {"stopped", "merging", "off"}

TypeOK ==
  /\ work \in 0 .. MaxWork /\ saved \in 0 .. work
  /\ x \in {"up", "ending", "down"}
  /\ starts \in Nat
  /\ wmexit \in ExitModes \union {"none"}
  /\ scripts \in 0 .. MaxScripts
  /\ daemon \in {"gone", "asleep", "polling", "clear", "syncing", "merging"}
  /\ toggle \in 0 .. 1
  /\ interval \in Intervals
  /\ savecnt \in 0 .. interval
  /\ from \in 0 .. work
  /\ request \in BOOLEAN /\ app \in BOOLEAN
  /\ inst \in [Installers -> {"none", "waiting", "writing", "done"}]
  /\ shut \in [Shutdowns -> {"none", "waiting", "killing", "stopped", "merging", "off"}]
  /\ final \in [Shutdowns -> 0 .. work]
  /\ xrunning \in [Shutdowns -> {"yes", "no"}]
  /\ back \in BOOLEAN

(* What .xinitrc starts: with hotplug turned off the daemon exits before   *)
(* its loop.                                                               *)
Started == IF Hotplug THEN "asleep" ELSE "gone"

Init ==
  /\ work = 0 /\ saved = 0 /\ from = 0
  /\ x = "up" /\ starts = 1 /\ wmexit = "none" /\ scripts = 0
  /\ daemon = Started /\ toggle = 1 /\ savecnt = 0
  /\ request = FALSE /\ app = FALSE /\ interval \in Intervals
  /\ inst = [i \in Installers |-> "none"]
  /\ shut = [s \in Shutdowns |-> "none"] /\ final = [s \in Shutdowns |-> 0]
  /\ xrunning = [s \in Shutdowns |-> "no"] /\ back = FALSE

-----------------------------------------------------------------------------
(* The user, and the programs the user runs.                               *)

Work ==
  /\ work < MaxWork
  /\ x = "up" \/ On
  /\ work' = work + 1
  /\ UNCHANGED <<saved, app, interval, xserver, loop, request, inst, halt>>

ToggleApp ==
  /\ x = "up"
  /\ app' = ~app
  /\ UNCHANGED <<work, interval, saved, xserver, loop, request, inst, halt>>

(* save2flash; its own wait for the file to go changes nothing. *)
Save2flash ==
  /\ x = "up" /\ ~request
  /\ request' = TRUE
  /\ UNCHANGED <<user, saved, xserver, loop, inst, halt>>

(* A merge, whoever has started it, has the name that pidof looks for.     *)
Merging == daemon = "merging" \/ \E s \in Shutdowns : shut[s] = "merging"

InstFrame == UNCHANGED <<user, saved, xserver, loop, request, halt>>

StartInstall(i) ==
  /\ x = "up" /\ inst[i] = "none"
  /\ inst' = [inst EXCEPT ![i] = "waiting"]
  /\ InstFrame

(* while [ "`pidof snapmergepuppy`" != "" ]; do sleep 1; done *)
WriteDirect(i) ==
  /\ inst[i] = "waiting" /\ ~Off
  /\ ~Merging
  /\ inst' = [inst EXCEPT ![i] = "writing"]
  /\ InstFrame

EndInstall(i) ==
  /\ inst[i] = "writing" /\ ~Off
  /\ inst' = [inst EXCEPT ![i] = "done"]
  /\ InstFrame

-----------------------------------------------------------------------------
(* pup_event_frontend_d.                                                   *)

DaemonFrame == UNCHANGED <<user, xserver, inst, halt>>

(* sleep 2, and break if somebody wants X to end. *)
DaemonLeaves ==
  /\ daemon = "asleep" /\ wmexit # "none"
  /\ daemon' = "gone"
  /\ UNCHANGED <<saved, toggle, savecnt, from, request>>
  /\ DaemonFrame

(* The first of two wake-ups: hotplug events only. *)
HalfRound ==
  /\ daemon = "asleep" /\ wmexit = "none" /\ toggle = 0
  /\ toggle' = 1
  /\ UNCHANGED <<saved, daemon, savecnt, from, request>>
  /\ DaemonFrame

(* Mutant: the counter starts again without a request. *)
ForgetRequest ==
  /\ daemon = "asleep" /\ wmexit = "none" /\ toggle = 1
  /\ toggle' = 0
  /\ savecnt' = IF savecnt + 1 > interval THEN 0 ELSE savecnt + 1
  /\ daemon' = "polling"
  /\ UNCHANGED <<saved, from, request>>
  /\ DaemonFrame

(* Mutant: SAVECNT is not put back. *)
CountOn ==
  /\ daemon = "asleep" /\ wmexit = "none" /\ toggle = 1
  /\ toggle' = 0
  /\ savecnt' = savecnt + 1
  /\ request' = (request \/ savecnt + 1 > interval)
  /\ daemon' = "polling"
  /\ UNCHANGED <<saved, from>>
  /\ DaemonFrame

(* The second: the clock of the periodic save.  The counter is of no use   *)
(* without an interval.                                                    *)
Round ==
  /\ daemon = "asleep" /\ wmexit = "none" /\ toggle = 1
  /\ toggle' = 0
  /\ LET due == interval # 0 /\ savecnt + 1 > interval IN
       /\ request' = IF due THEN TRUE ELSE request
       /\ savecnt' = IF due \/ interval = 0 THEN 0 ELSE savecnt + 1
  /\ daemon' = "polling"
  /\ UNCHANGED <<saved, from>>
  /\ DaemonFrame

(* Mutant: the package scripts are not looked for. *)
PlayersOnly == app

(* A program that the grep of the process list names. *)
Busy == app \/ \E i \in Installers : inst[i] \in {"waiting", "writing"}

Poll ==
  /\ daemon = "polling"
  /\ daemon' = IF Busy THEN "asleep" ELSE "clear"
  /\ UNCHANGED <<saved, toggle, savecnt, from, request>>
  /\ DaemonFrame

(* Mutant: the request file goes, and no merge is run. *)
DropRequest ==
  /\ daemon = "clear"
  /\ daemon' = "asleep"
  /\ request' = FALSE
  /\ UNCHANGED <<saved, toggle, savecnt, from>>
  /\ DaemonFrame

(* After auto_unmount_func and free_flash_func: the request file, if it is *)
(* there, goes, and sync runs.                                             *)
TakeRequest ==
  /\ daemon = "clear"
  /\ daemon' = IF request THEN "syncing" ELSE "asleep"
  /\ request' = FALSE
  /\ UNCHANGED <<saved, toggle, savecnt, from>>
  /\ DaemonFrame

StartMerge ==
  /\ daemon = "syncing"
  /\ daemon' = "merging" /\ from' = work
  /\ UNCHANGED <<saved, toggle, savecnt, request>>
  /\ DaemonFrame

(* The merge stops before the next file or directory once somebody wants X *)
(* to end: XRUNNING is yes, since the daemon is its parent.                *)
EndMerge ==
  /\ daemon = "merging"
  /\ daemon' = "asleep"
  /\ \/ saved' = IF from > saved THEN from ELSE saved
     \/ wmexit # "none" /\ UNCHANGED saved
  /\ UNCHANGED <<toggle, savecnt, from, request>>
  /\ DaemonFrame

-----------------------------------------------------------------------------
(* Leaving X.                                                              *)

(* wmexit, restartwm, wmpoweroff, wmreboot: also while an rc.shutdown runs *)
(* that has not killed X yet.                                              *)
RequestExit(mode) ==
  /\ x = "up" /\ scripts < MaxScripts
  /\ mode = "restart" => starts < MaxStarts
  /\ wmexit' = mode /\ scripts' = scripts + 1
  /\ UNCHANGED <<user, saved, x, starts, loop, request, inst, halt>>

(* xinit hangs up the process group of .xinitrc when its client or the     *)
(* server has died: the daemon goes, and its merge with it.                *)
HangUp == daemon' = "gone" /\ UNCHANGED <<toggle, savecnt, from>>

(* kill -9 of the window manager, when ps shows no daemon any more or      *)
(* after 60 looks: also at a daemon that nobody asks to leave, because     *)
(* xwin has taken the file for another script.  Scripts from a terminal    *)
(* end with X, those from the menu do not.                                 *)
KillWM ==
  /\ scripts > 0 /\ x = "up"
  /\ daemon = "gone" \/ wmexit = "none" \/ (Slow /\ daemon # "asleep")
  /\ scripts' \in 0 .. scripts - 1
  /\ x' = "ending"
  /\ HangUp
  /\ UNCHANGED <<user, saved, starts, wmexit, request, inst, halt>>

(* There is no window manager to kill. *)
KillNobody ==
  /\ scripts > 0 /\ x # "up"
  /\ scripts' = scripts - 1
  /\ UNCHANGED <<user, saved, x, starts, wmexit, loop, request, inst, halt>>

XinitFrame == UNCHANGED <<user, saved, scripts, request, inst>>

StartX == /\ x' = "up" /\ starts' = starts + 1
          /\ back' = (back \/ \E s \in Shutdowns : Past(s))
          /\ UNCHANGED <<shut, final, xrunning>>
          /\ daemon' = Started /\ toggle' = 1 /\ savecnt' = 0
          /\ UNCHANGED from

(* The end of xwin: restart, poweroff, or a prompt, whoever has ended X.   *)
XwinRestart ==
  /\ x = "ending" /\ wmexit = "restart"
  /\ wmexit' = "none"
  /\ StartX
  /\ XinitFrame

XwinPoweroff ==
  /\ x = "ending" /\ wmexit = "poweroff"
  /\ x' = "down" /\ shut' = [shut EXCEPT !["xwin"] = "waiting"]
  /\ UNCHANGED <<starts, wmexit, loop, final, xrunning, back>>
  /\ XinitFrame

XwinPrompt ==
  /\ x = "ending" /\ wmexit \in {"exit", "none"}
  /\ x' = "down" /\ wmexit' = "none"
  /\ UNCHANGED <<starts, loop, halt>>
  /\ XinitFrame

(* The user types xwin at the prompt. *)
Xwin ==
  /\ x = "down" /\ On /\ starts < MaxStarts
  /\ StartX
  /\ UNCHANGED wmexit
  /\ XinitFrame

-----------------------------------------------------------------------------
(* rc.shutdown.                                                            *)

Goto(s, p)    == shut' = [shut EXCEPT ![s] = p]
ShutdownFrame == UNCHANGED <<user, request, inst, starts, wmexit, scripts, back>>

(* The user types poweroff or reboot at a console, or Ctrl-Alt-Del there:  *)
(* sbin/poweroff looks at nothing before it runs rc.shutdown.              *)
Poweroff ==
  /\ shut["console"] = "none"
  /\ Goto("console", "waiting")
  /\ UNCHANGED <<saved, x, loop, final, xrunning>>
  /\ ShutdownFrame

(* Mutant: rc.shutdown waits for the daemon and not for its merge. *)
AwaitDaemon(s) ==
  /\ shut[s] = "waiting" /\ daemon = "gone"
  /\ Goto(s, "killing")
  /\ UNCHANGED <<saved, x, loop, final, xrunning>>
  /\ ShutdownFrame

(* while [ ! "`pidof snapmergepuppy`" = "" ]; do sleep 1; done *)
AwaitMerge(s) ==
  /\ shut[s] = "waiting" /\ ~Merging
  /\ Goto(s, "killing")
  /\ UNCHANGED <<saved, x, loop, final, xrunning>>
  /\ ShutdownFrame

(* Mutant: X is left alone, and the daemon with it. *)
SpareX(s) ==
  /\ shut[s] = "killing"
  /\ Goto(s, "stopped")
  /\ UNCHANGED <<saved, x, loop, final, xrunning>>
  /\ ShutdownFrame

(* killall -9 X; sleep 1: xinit hangs its clients up meanwhile.  The wm*   *)
(* scripts from the menu and xwin are no clients of X.                     *)
KillX(s) ==
  /\ shut[s] = "killing"
  /\ Goto(s, "stopped")
  /\ IF x = "up" THEN x' = "ending" /\ HangUp ELSE UNCHANGED <<x, loop>>
  /\ UNCHANGED <<saved, final, xrunning>>
  /\ ShutdownFrame

(* Mutant: any X program is taken for a sign that X is up (see the v409    *)
(* note of snapmergepuppy).                                                *)
XListed == TRUE

(* ps lists the daemon. *)
DaemonListed == daemon # "gone"

FinalMerge(s) ==
  /\ shut[s] = "stopped"
  /\ Goto(s, "merging")
  /\ final' = [final EXCEPT ![s] = work]
  /\ xrunning' = [xrunning EXCEPT ![s] = IF DaemonListed THEN "yes" ELSE "no"]
  /\ UNCHANGED <<saved, x, loop>>
  /\ ShutdownFrame

(* Whatever else is running stops with the computer. *)
SwitchOff(s) ==
  /\ shut[s] = "merging"
  /\ Goto(s, "off")
  /\ \/ saved' = IF final[s] > saved THEN final[s] ELSE saved
     \/ xrunning[s] = "yes" /\ wmexit # "none" /\ UNCHANGED saved
  /\ UNCHANGED <<x, loop, final, xrunning>>
  /\ ShutdownFrame

-----------------------------------------------------------------------------
Daemon ==
  /\ ~Off
  /\ \/ DaemonLeaves \/ HalfRound \/ Round \/ Poll \/ TakeRequest
     \/ StartMerge \/ EndMerge

Leave == ~Off /\ (KillWM \/ KillNobody \/ XwinRestart \/ XwinPoweroff \/ XwinPrompt)

Shutdown(s) == ~Off /\ (AwaitMerge(s) \/ KillX(s) \/ FinalMerge(s) \/ SwitchOff(s))

User == /\ ~Off
        /\ \/ Work \/ ToggleApp \/ Save2flash \/ Xwin \/ Poweroff
           \/ \E i \in Installers : StartInstall(i)
           \/ \E mode \in ExitModes : RequestExit(mode)

Next == \/ User \/ Daemon \/ Leave
        \/ \E s \in Shutdowns : Shutdown(s)
        \/ \E i \in Installers : WriteDirect(i) \/ EndInstall(i)

(* Each process gets on when it can; nothing is asked of the user.  Between *)
(* two merges the daemon sleeps longer than rc.shutdown does between two   *)
(* looks for a merge, so rc.shutdown sees that there is none.              *)
Fairness ==
  /\ WF_vars(Daemon) /\ WF_vars(Leave)
  /\ \A s \in Shutdowns : WF_vars(Shutdown(s)) /\ SF_vars(~Off /\ AwaitMerge(s))
  /\ \A i \in Installers : WF_vars(WriteDirect(i)) /\ WF_vars(EndInstall(i))

Spec == Init /\ [][Next]_vars /\ Fairness

-----------------------------------------------------------------------------
(* Nothing that is saved is lost, and the computer is switched off only    *)
(* when all work is saved: neither the daemon nor the mode file, which is  *)
(* still there, makes the last merge leave its loops.  In other words the  *)
(* session implements SaveStore.  Not so if xwin has started X again under *)
(* rc.shutdown, for a restartwm whose X rc.shutdown has killed: the user   *)
(* and the daemon then go on beside the last merge.                        *)
Store == INSTANCE SaveStore WITH off <- Off /\ ~back

StoreSpec == Store!Spec

(* Why that is so.  The daemon lives and dies with X, and X is down before *)
(* any last merge begins; xwin starts rc.shutdown once at the most.        *)
HaltOrder ==
  /\ x # "up" => daemon = "gone"
  /\ x # "down" => shut["xwin"] = "none"
  /\ Off /\ ~back => saved = work
  /\ ~back => \A s \in Shutdowns :
       /\ Past(s) => x # "up"
       /\ shut[s] = "merging" => final[s] = work /\ xrunning[s] = "no"

(* The daemon's merge and a last one never run together, though the daemon *)
(* may begin one after rc.shutdown has looked and before X dies, unless X  *)
(* has come back.  (Two runs of rc.shutdown may merge together: README,    *)
(* Findings.)                                                              *)
OneMerge ==
  daemon = "merging" => back \/ \A s \in Shutdowns : shut[s] # "merging"

(* With periodic saves, and if players and burners are closed in the end,  *)
(* each change is saved by some merge, unless the user ends X and stays at *)
(* the prompt, or X comes back while the computer shuts down.              *)
EverySaved ==
  interval # 0 /\ <>[]~app =>
    \A k \in 1 .. MaxWork : (work >= k) ~> (saved >= k \/ x = "down" \/ back)

(* Likewise for what was there when the user asked for a save, also when   *)
(* periodic saves are turned off.  Somebody who ends X also ends the merge *)
(* that has taken the request, and nobody asks again.                      *)
RequestServed ==
  <>[]~app =>
    \A k \in 1 .. MaxWork :
      (request /\ work >= k) ~> (saved >= k \/ wmexit # "none" \/ x = "down" \/ back)

(* Merges do not starve a package script: it gets to write, whatever save  *)
(* is due meanwhile.                                                       *)
InstallerProceeds ==
  \A i \in Installers : (inst[i] = "waiting") ~> (inst[i] = "writing" \/ Off)

(* A shutdown that was asked for comes to its end, whatever the daemon is  *)
(* busy with: the waits of wmpoweroff and of rc.shutdown are over some     *)
(* time, also those of two shutdowns at a time.  Only a later request      *)
(* replaces one that xwin has not taken yet.                               *)
PoweroffCompletes ==
  (wmexit = "poweroff" \/ ~On) ~> (Off \/ (On /\ wmexit \in {"exit", "restart"}))

(* The daemon runs no merge while a package script writes to the save      *)
(* layer.                                                                  *)
InstallAlone == \A i \in Installers : ~(inst[i] = "writing" /\ daemon = "merging")
=============================================================================

----------------------------- MODULE DriveButtons -----------------------------
(***************************************************************************)
(* The row of drive buttons of the start window, composed with the daemon  *)
(* of Hotplug that makes the icons they are copied from.                   *)
(*                                                                         *)
(* Twice a second set_drives of start.pl reads PuppyPin, and draws the     *)
(* buttons again if the names in it are not those it drew last; the size   *)
(* in a button is read from the directory of the icon, and cards in slots  *)
(* get none.  While a button's program runs, start.pl waits and does not   *)
(* look.  The mounts that set_drives also looks after are in DriveUse;     *)
(* here they, and the order of the icons in PuppyPin, are a reason to draw *)
(* that may or may not be there.                                           *)
(***************************************************************************)
EXTENDS Hotplug

VARIABLES
  at,          (* Where start.pl is.                                       *)
  curdrives,   (* The names in @curdrives.                                 *)
  todo,        (* Those whose button is yet to be drawn.                   *)
  size,        (* The disks whose sizes the drawn buttons give.            *)
  placed       (* The row of buttons is on the screen.                     *)

row     == <<curdrives, todo, size, placed>>
start   == <<at, row>>
allVars == <<vars, start>>

ButtonsTypeOK ==
  /\ at \in {"closed", "events", "draw1", "draw", "busy"}
  /\ curdrives \subseteq Names /\ todo \subseteq curdrives
  /\ at \notin {"draw1", "draw"} => todo = {}
  /\ size \in [Names -> Disks \union {None}]
  /\ placed \in BOOLEAN
  /\ at \in {"closed", "draw1", "draw"} => ~placed
  /\ \A n \in curdrives \ Slots : n \in todo \/ ~placed \/ size[n] # None

Closed ==
  /\ at' = "closed" /\ curdrives' = {} /\ todo' = {} /\ placed' = FALSE
  /\ size' = [n \in Names |-> None]

ButtonsInit ==
  /\ Init
  /\ at = "closed" /\ curdrives = {} /\ todo = {} /\ placed = FALSE
  /\ size = [n \in Names |-> None]

-----------------------------------------------------------------------------
(* Mutant: the buttons that were drawn stay until the new ones are placed. *)
SetDrivesOver(changed, draw) ==
  /\ IF pin # curdrives \/ changed
       THEN /\ curdrives' = pin /\ todo' = pin \ Slots
            /\ UNCHANGED <<size, placed>>
       ELSE UNCHANGED row
  /\ at' = IF todo' = {} THEN "events" ELSE draw
  /\ UNCHANGED vars

(* set_drives.  @curdrives is set before the buttons are drawn; what is in *)
(* a slot has the type card, which %drvfnames has not, and gets none.      *)
SetDrives(changed, draw) ==
  /\ IF pin # curdrives \/ changed
       THEN /\ curdrives' = pin /\ todo' = pin \ Slots
            /\ size' = [n \in Names |-> None] /\ placed' = (todo' = {})
       ELSE UNCHANGED row
  /\ at' = IF todo' = {} THEN "events" ELSE draw
  /\ UNCHANGED vars

(* The first call, before the main loop.  .xinitrc runs start.pl after     *)
(* clean_desk_icons, and the menu of JWM again.                            *)
Open == at = "closed" /\ ~Cleaning /\ SetDrives(FALSE, "draw1")

(* Mutant: the drives are counted. *)
RepeatCount(changed) ==
  /\ at = "events" /\ (Cardinality(pin) # Cardinality(curdrives) \/ changed)
  /\ SetDrives(changed, "draw")

Repeat(changed) == at = "events" /\ SetDrives(changed, "draw")

Buttons == IF placed THEN {n \in curdrives : size[n] # None} ELSE {}

Drawing == at \in {"draw1", "draw"}

(* After the last button the row is placed.                                *)
DrawButton(n) ==
  /\ Drawing /\ IsFirst(n, todo) /\ partDir[n] \notin {None, Bare}
  /\ todo' = todo \ {n} /\ size' = [size EXCEPT ![n] = partDir[n]]
  /\ placed' = (todo' = {}) /\ at' = IF todo' = {} THEN "events" ELSE at
  /\ UNCHANGED <<vars, curdrives>>

(* There is no AppInfo.xml, and the row is not placed.  The main loop goes *)
(* on; the first call is made before it, and start.pl ends.                *)
Die(n) ==
  /\ Drawing /\ IsFirst(n, todo) /\ partDir[n] \in {None, Bare}
  /\ IF at = "draw1" THEN Closed
                     ELSE /\ at' = "events" /\ todo' = {}
                          /\ UNCHANGED <<curdrives, size, placed>>
  /\ UNCHANGED vars

(* A button is pressed.  AppRun may find the drive unreadable, ask for its *)
(* icon to be made again, and leave start.pl waiting for pmount; umount    *)
(* and wipe.pl ask for nothing.                                            *)
Press(n) ==
  /\ at = "events" /\ n \in Buttons
  /\ at' = "busy"
  /\ AskCounted(n) \/ UNCHANGED vars
  /\ UNCHANGED row

Return ==
  /\ at = "busy"
  /\ at' = "events"
  /\ UNCHANGED <<vars, row>>

-----------------------------------------------------------------------------
StartPl == Repeat(FALSE) \/ \E n \in Names : DrawButton(n) \/ Die(n)

Device == \E n \in Names : \/ AskCounted(n) \/ Notice(n)
                           \/ \E v \in Disks \union {NoDrive, NoMedium} : Change(n, v)

Start == RestartX \/ Boot

ButtonsNext == \/ (Daemon \/ Device) /\ UNCHANGED start
               \/ Start /\ Closed
               \/ Open \/ StartPl \/ Repeat(TRUE) \/ Return \/ \E n \in Names : Press(n)

(* The timer of set_drives is served whenever Tk handles events after it   *)
(* is due.                                                                 *)
ButtonsFairness ==
  /\ WF_allVars(Daemon /\ UNCHANGED start) /\ WF_allVars(Lists /\ UNCHANGED start)
  /\ WF_allVars(Open) /\ SF_allVars(StartPl)

ButtonsSpec == ButtonsInit /\ [][ButtonsNext]_allVars /\ ButtonsFairness

-----------------------------------------------------------------------------
(* While the user leaves start.pl to its events time and again, the row    *)
(* comes to have the drives with icons, but for the cards in slots, and no *)
(* others, except in the moments of drawing, or else set_drives has died   *)
(* and the row is empty for good.                                          *)
RowFollows ==
  []<>(at = "events") =>
    \A n \in Names :
      /\ n \notin Slots /\ <>[](n \in pin) =>
           <>[](at = "events" => n \in Buttons) \/ <>[](Buttons = {})
      /\ n \in Slots \/ <>[](n \notin pin) => <>[](n \notin Buttons)

(* set_drives dies only of an icon that the daemon has taken down, or of   *)
(* one whose directory has been without AppInfo.xml since X ended while it *)
(* was made or removed.                                                    *)
DiesOfGone ==
  [][\A n \in Names : Die(n) => n \notin pin \/ n \in torn]_allVars

(* The size that a button hands to wipe.pl, whose question gives it, comes *)
(* to be the one that the icon's directory gives.                          *)
SizeTrue ==
  []<>(at = "events") =>
    \A n \in Names, d \in Disks :
      <>[](n \in pin /\ partDir[n] = d) => <>[](n \in Buttons => size[n] = d)
=============================================================================

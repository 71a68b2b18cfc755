-------------------------------- MODULE Wipe --------------------------------
(***************************************************************************)
(* /root/geeps/wipe.pl: overwrites a drive with zeros and formats it.      *)
(*                                                                         *)
(* The Wipe button calls wipe(), which starts dd, and once a second looks  *)
(* whether it has ended (waitpid), asks it for its count (SIGUSR1), reads  *)
(* the answer and lets Tk handle events ($mw->update).  The button stays   *)
(* where it is, so wipe() may be called again from inside update: the      *)
(* activations are a stack, each with a dd of its own, but there is one    *)
(* $cpid.  start.pl runs umount and then wipe.pl, and waits for it.        *)
(***************************************************************************)
EXTENDS Integers, Sequences

CONSTANTS
  Blocks,     (* The drive, in blocks of dd.                               *)
  Clicks,     (* Bound: how often the Wipe button is pressed.              *)
  Mishaps     (* What may go wrong: "ioerror" in dd or in mkdosfs,         *)
              (* "slowstart" of dd, a drive "inuse" that umount leaves     *)
              (* mounted.                                                  *)

ASSUME WipeAssumption ==
  /\ Blocks \in Nat \ {0}
  /\ Clicks \in Nat
  /\ Mishaps \subseteq {"ioerror", "slowstart", "inuse"}

VARIABLES
  stack,      (* The activations of wipe(), the running one last.          *)
  clicks,     (* How often the button was pressed.                         *)
  cpid,       (* $cpid: the number of a dd, or 0 for undef.                *)
  opened,     (* The number of dds that were started.                      *)
  dd,         (* The dds.                                                  *)
  zeroed,     (* Blocks that are overwritten, from the first one on.       *)
  formatted,  (* The drive holds a file system of mkdosfs.                 *)
  status,     (* What the last mkdosfs returned, which nobody looks at.    *)
  mounted,    (* umount has failed.                                        *)
  stained,    (* The kernel has written old data back to the drive.        *)
  success,    (* The window says "Drive wiped successfuly!".               *)
  gone        (* wipe.pl has ended.                                        *)

window == <<stack, clicks, cpid, opened, success, gone>>
drive  == <<zeroed, formatted, status, mounted, stained>>
vars   == <<window, dd, drive>>

Dds == 1 .. Clicks

DdStates == {"none", "starting", "running", "done", "failed", "killed"}
Alive(i) == dd[i].st \in {"starting", "running"}
Ended(i) == dd[i].st \in {"done", "failed", "killed"}

(* Where an activation is: at update after the label (34), at sleep before *)
(* and waitpid in the loop, at the read of dd's answer (57), at update     *)
(* (71), at mkdosfs (79), at the last update (87), and where $fh is closed.*)
Places == {"asked", "sleep", "wait", "read", "update", "format", "shown", "closing"}

TypeOK ==
  /\ stack \in Seq([child : 0 .. Clicks, at : Places])
  /\ Len(stack) <= clicks
  /\ clicks \in 0 .. Clicks
  /\ opened \in 0 .. clicks
  /\ cpid \in 0 .. opened
  /\ dd \in [Dds -> [st : DdStates, reaped : BOOLEAN, pos : 0 .. Blocks,
                     asked : BOOLEAN, out : Seq(0 .. Blocks)]]
  /\ zeroed \in 0 .. Blocks
  /\ formatted \in BOOLEAN /\ mounted \in BOOLEAN /\ stained \in BOOLEAN
  /\ status \in {"none", "done", "failed"}
  /\ success \in BOOLEAN /\ gone \in BOOLEAN

Init ==
  /\ stack = <<>> /\ clicks = 0 /\ cpid = 0 /\ opened = 0
  /\ dd = [i \in Dds |-> [st |-> "none", reaped |-> FALSE, pos |-> 0,
                          asked |-> FALSE, out |-> <<>>]]
  /\ zeroed = 0 /\ formatted = FALSE /\ status = "none" /\ stained = FALSE
  /\ mounted \in BOOLEAN /\ (mounted => "inuse" \in Mishaps)
  /\ success = FALSE /\ gone = FALSE

-----------------------------------------------------------------------------
(* The window.                                                             *)

Top == stack[Len(stack)]
At(place)   == stack # <<>> /\ Top.at = place
MoveTo(place) == stack' = [stack EXCEPT ![Len(stack)].at = place]

(* Tk handles events in MainLoop and wherever update is called. *)
Listening ==
  /\ ~gone
  /\ stack # <<>> => Top.at \in {"asked", "update", "shown"}

(* The Wipe button, which success takes off the window. *)
PressWipe ==
  /\ Listening /\ ~success /\ clicks < Clicks
  /\ clicks' = clicks + 1
  /\ stack' = Append(stack, [child |-> 0, at |-> "asked"])
  /\ UNCHANGED <<cpid, opened, success, gone, dd, drive>>

(* Mutant: the window closes and dd goes on. *)
NoCleanup == dd

(* cleanup: SIGTERM to $cpid if that is defined. *)
Cleanup ==
  IF cpid # 0 /\ Alive(cpid) THEN [dd EXCEPT ![cpid].st = "killed"] ELSE dd

(* The Cancel button, the window manager's close, or Ok at the end. *)
Leave ==
  /\ Listening
  /\ dd' = Cleanup
  /\ stack' = <<>> /\ gone' = TRUE
  /\ UNCHANGED <<clicks, cpid, opened, success, drive>>

-----------------------------------------------------------------------------
(* wipe(), after its first update.                                         *)

WipeFrame == UNCHANGED <<clicks, gone>>

(* open(my $fh, '-|') and exec dd. *)
OpenDd ==
  /\ At("asked")
  /\ opened' = opened + 1 /\ cpid' = opened + 1
  /\ dd' = [dd EXCEPT ![opened + 1].st = "starting"]
  /\ stack' = [stack EXCEPT ![Len(stack)] = [child |-> opened + 1, at |-> "sleep"]]
  /\ UNCHANGED <<success, drive>>
  /\ WipeFrame

(* sleep(1) gives dd the time to install its handler of SIGUSR1, unless    *)
(* the program takes longer to load.                                       *)
Sleep ==
  /\ At("sleep")
  /\ dd[Top.child].st = "starting" => "slowstart" \in Mishaps
  /\ MoveTo("wait")
  /\ UNCHANGED <<cpid, opened, success, dd, drive>>
  /\ WipeFrame

(* The children that waitpid($cpid, WNOHANG) would return: with $cpid      *)
(* undefined, any of the process group.                                    *)
Waitable == {i \in Dds : Ended(i) /\ ~dd[i].reaped /\ cpid \in {0, i}}

(* Mutant: the loop is left although waitpid has returned no child. *)
DontWait ==
  /\ At("wait")
  /\ MoveTo("format")
  /\ cpid' = 0
  /\ UNCHANGED <<opened, success, dd, drive>>
  /\ WipeFrame

(* Mutant: waitpid's answer does not end the loop. *)
LoopForever ==
  /\ At("wait") /\ Waitable # {}
  /\ UNCHANGED <<cpid, opened, success, stack, dd, drive>>
  /\ WipeFrame

(* Mutant: -1 for undef, which kill takes for every process. *)
NoPid ==
  /\ At("wait")
  /\ \E i \in Waitable : dd' = [dd EXCEPT ![i].reaped = TRUE]
  /\ MoveTo("format")
  /\ cpid' = -1
  /\ UNCHANGED <<opened, success, drive>>
  /\ WipeFrame

Reap ==
  /\ At("wait")
  /\ \E i \in Waitable : dd' = [dd EXCEPT ![i].reaped = TRUE]
  /\ MoveTo("format")
  /\ cpid' = 0
  /\ UNCHANGED <<opened, success, drive>>
  /\ WipeFrame

(* SIGUSR1 to $cpid: its default action kills a dd without a handler.  The *)
(* process may have been reaped before.                                    *)
Signal ==
  /\ At("wait") /\ Waitable = {} /\ cpid # 0
  /\ dd' = [dd EXCEPT ![cpid].asked = TRUE,
                      ![cpid].st = IF @ = "starting" THEN "killed" ELSE @]
  /\ MoveTo("read")
  /\ UNCHANGED <<cpid, opened, success, drive>>
  /\ WipeFrame

(* kill dies of an undefined pid. *)
SignalNobody ==
  /\ At("wait") /\ Waitable = {} /\ cpid = 0
  /\ MoveTo("closing")
  /\ UNCHANGED <<cpid, opened, success, dd, drive>>
  /\ WipeFrame

(* The next line with a count.  The estimate of the remaining time divides *)
(* by it, and wipe() dies if it is zero.                                   *)
ReadCount ==
  /\ At("read")
  /\ LET out == dd[Top.child].out IN
       /\ out # <<>>
       /\ dd' = [dd EXCEPT ![Top.child].out = Tail(out)]
       /\ MoveTo(IF Head(out) = 0 THEN "closing" ELSE "update")
  /\ UNCHANGED <<cpid, opened, success, drive>>
  /\ WipeFrame

ReadEnd ==
  /\ At("read") /\ dd[Top.child].out = <<>> /\ Ended(Top.child)
  /\ MoveTo("wait")
  /\ UNCHANGED <<cpid, opened, success, dd, drive>>
  /\ WipeFrame

(* The end of update, and sleep(1). *)
Updated ==
  /\ At("update")
  /\ MoveTo("wait")
  /\ UNCHANGED <<cpid, opened, success, dd, drive>>
  /\ WipeFrame

(* mkdosfs, which refuses a mounted drive and meets the same write errors  *)
(* as dd, and the message, whatever mkdosfs returned.                      *)
Format ==
  /\ At("format")
  /\ \/ ~mounted /\ formatted' = TRUE /\ status' = "done"
     \/ /\ mounted \/ "ioerror" \in Mishaps
        /\ status' = "failed" /\ formatted' \in {formatted, FALSE}
  /\ success' = TRUE
  /\ MoveTo("shown")
  /\ UNCHANGED <<cpid, opened, dd, zeroed, mounted, stained>>
  /\ WipeFrame

Shown ==
  /\ At("shown")
  /\ MoveTo("closing")
  /\ UNCHANGED <<cpid, opened, success, dd, drive>>
  /\ WipeFrame

(* wipe() returns or dies: perl closes $fh and waits for its dd. *)
Return ==
  /\ At("closing") /\ Ended(Top.child)
  /\ dd' = [dd EXCEPT ![Top.child].reaped = TRUE]
  /\ stack' = SubSeq(stack, 1, Len(stack) - 1)
  /\ UNCHANGED <<cpid, opened, success, drive>>
  /\ WipeFrame

-----------------------------------------------------------------------------
(* dd, and the kernel.                                                     *)

DdFrame == UNCHANGED <<window, status, mounted, stained>>

(* dd's handlers are in place. *)
DdReady(i) ==
  /\ dd[i].st = "starting"
  /\ dd' = [dd EXCEPT ![i].st = "running"]
  /\ UNCHANGED <<zeroed, formatted>>
  /\ DdFrame

DdWrite(i) ==
  /\ dd[i].st = "running" /\ dd[i].pos < Blocks
  /\ dd' = [dd EXCEPT ![i].pos = @ + 1]
  /\ zeroed' = IF dd[i].pos + 1 > zeroed THEN dd[i].pos + 1 ELSE zeroed
  /\ formatted' = (formatted /\ dd[i].pos # 0)
  /\ DdFrame

(* The answer to SIGUSR1; without a reader dd dies of it. *)
DdAnswer(i) ==
  /\ dd[i].st = "running" /\ dd[i].asked
  /\ dd' = IF gone THEN [dd EXCEPT ![i].st = "killed"]
           ELSE [dd EXCEPT ![i].asked = FALSE, ![i].out = Append(@, dd[i].pos)]
  /\ UNCHANGED <<zeroed, formatted>>
  /\ DdFrame

Ends(i, st) ==
  /\ dd' = [dd EXCEPT ![i].st = st, ![i].out = Append(@, dd[i].pos)]
  /\ UNCHANGED <<zeroed, formatted>>
  /\ DdFrame

(* No space left on device: the end of the drive. *)
DdEnd(i) ==
  /\ dd[i].st = "running" /\ dd[i].pos = Blocks
  /\ Ends(i, "done")

DdError(i) ==
  /\ "ioerror" \in Mishaps
  /\ dd[i].st = "running"
  /\ Ends(i, "failed")

(* The kernel writes what the mounted file system still had in memory. *)
WriteBack ==
  /\ mounted /\ zeroed > 0
  /\ stained' = TRUE
  /\ UNCHANGED <<window, dd, zeroed, formatted, status, mounted>>

-----------------------------------------------------------------------------
Activation ==
  \/ OpenDd \/ Sleep \/ Reap \/ Signal \/ SignalNobody \/ ReadCount \/ ReadEnd
  \/ Updated \/ Format \/ Shown \/ Return

DdStep(i) == DdReady(i) \/ DdWrite(i) \/ DdAnswer(i) \/ DdEnd(i) \/ DdError(i)

Next == PressWipe \/ Leave \/ Activation \/ WriteBack \/ \E i \in Dds : DdStep(i)

(* wipe.pl gets on when it can; dd does, and handles a pending signal.  No *)
(* fairness for the user, for errors, nor for the kernel's write-back.     *)
Fairness ==
  /\ WF_vars(Activation)
  /\ \A i \in Dds : /\ WF_vars(DdReady(i))
                    /\ WF_vars(DdWrite(i) \/ DdEnd(i))
                    /\ WF_vars(DdAnswer(i))

Spec == Init /\ [][Next]_vars /\ Fairness

-----------------------------------------------------------------------------
(* The message is shown only over a drive of zeros: not while a dd is at   *)
(* work that nobody waited for, nor after one that came to an early end.   *)
SuccessMeansErased == success => zeroed = Blocks /\ ~stained

(* So it is if umount has freed the drive and each dd went on to its end.  *)
(* However often the button is pressed, no activation of wipe() takes the  *)
(* dd of another for its own end before some dd has zeroed the drive.      *)
ErasedBarMishap ==
  success /\ ~mounted /\ (\A i \in 1 .. opened : dd[i].st \notin {"failed", "killed"})
    => zeroed = Blocks /\ ~stained

(* Cancel, Ok and the close box leave no dd behind that erases on without  *)
(* a window, but for those that a second press of the button made wipe.pl  *)
(* forget.                                                                 *)
LeaveStops == gone /\ opened > 0 => ~Alive(opened)

(* The drive that is shown as wiped can be used again if mkdosfs has       *)
(* written a file system: dd is over by then and overwrites none of it,    *)
(* unless the button was pressed twice.  That mkdosfs did write it is more *)
(* than wipe.pl knows when it says so: it does not look at its status.     *)
DriveUsable == success /\ status = "done" /\ opened = 1 => formatted

(* A wipe comes to an end, whatever answers dd gives and when.  A second   *)
(* activation that dies leaves its $cpid to the first, which waits for     *)
(* ever for a child that has been waited for.                              *)
WipeEnds == (stack # <<>>) ~> (stack = <<>> \/ opened > 1)
=============================================================================

---------------------------- MODULE DriveUseProofs ----------------------------
(***************************************************************************)
(* Theorems about DriveUse, for every set of partitions: the state is well *)
(* typed and, but for what the user mounts in pmount meanwhile, what a     *)
(* redrawn button says of its partition is true, and no partition is       *)
(* mounted while it is wiped.                                              *)
(***************************************************************************)
EXTENDS DriveUse, TLAPS

(* Programs never have files open on a partition that is not mounted, and  *)
(* AppRun works only while start.pl waits for it.                          *)
LEMMA Typing == TypeOK /\ [Next]_vars => TypeOK'
  <1> SUFFICES ASSUME TypeOK, [Next]_vars PROVE TypeOK'
    OBVIOUS
  <1> USE DriveAssumption DEF TypeOK, vars, system, others, start, poll, press, daemon
  <1>1. CASE UNCHANGED vars
    BY <1>1
  <1>2. CASE User
    <2> USE DEF UserFrame
    <2>1. CASE SwitchMode
      BY <2>1 DEF SwitchMode
    <2>2. CASE WipeReturns
      BY <2>2 DEF WipeReturns
    <2>3. CASE LeavePmount
      BY <2>3 DEF LeavePmount, AppRunFrame
    <2>4. ASSUME NEW p \in Parts, CloseWindow(p) PROVE TypeOK'
      BY <2>4 DEF CloseWindow
    <2>5. ASSUME NEW p \in Parts, Use(p) \/ EndUse(p) PROVE TypeOK'
      BY <2>5 DEF Use, EndUse
    <2>6. ASSUME NEW p \in Parts, Press(p) \/ PressToWipe(p) PROVE TypeOK'
      BY <2>6 DEF Press, PressToWipe
    <2>7. CASE ToggleApp
      <3>1. app' \in BOOLEAN
        BY <2>7, Zenon DEF ToggleApp
      <3>2. UNCHANGED <<system, late, start, press, daemon>>
        BY <2>7 DEF ToggleApp
      <3> QED BY <3>1, <3>2
    <2>8. ASSUME NEW p \in Parts, Mountme(p) \/ ShowMount(p) \/ Unmountme(p) PROVE TypeOK'
      BY <2>8 DEF Mountme, ShowMount, PmountFrame, Unmountme, Unmount, Busy
    <2> QED BY <1>2, <2>1, <2>2, <2>3, <2>4, <2>5, <2>6, <2>7, <2>8 DEF User
  <1>3. CASE BeginPoll
    BY <1>3 DEF BeginPoll, PollFrame
  <1>4. CASE Poll
    <2> USE DEF PollFrame
    <2>1. CASE LookForWindow
      BY <2>1 DEF LookForWindow
    <2>2. CASE Redraw
      BY <2>2 DEF Redraw
    <2>3. CASE AppRunReturns
      BY <2>3 DEF AppRunReturns
    <2>4. CASE UmountToWipe
      BY <2>4 DEF UmountToWipe, Unmount, Busy
    <2>5. ASSUME NEW p \in Parts, GrepMounts(p) PROVE TypeOK'
      BY <2>5 DEF GrepMounts
    <2> QED BY <1>4, <2>1, <2>2, <2>3, <2>4, <2>5 DEF Poll
  <1>5. CASE AppRun
    BY <1>5 DEF AppRun, Df, Mount, MountFails, Openrox, AppRunFrame
  <1>6. CASE Daemon
    <2> USE DEF DaemonFrame
    <2>1. CASE ListMounts \/ EndRound
      BY <2>1 DEF ListMounts, EndRound
    <2>2. CASE AutoUmount
      BY <2>2 DEF AutoUmount, Unmount, Busy
    <2>3. ASSUME NEW p \in Parts, Fuser(p) PROVE TypeOK'
      BY <2>3 DEF Fuser
    <2> QED BY <1>6, <2>1, <2>2, <2>3 DEF Daemon
  <1>7. ASSUME NEW p \in Parts, CloseMount(p) PROVE TypeOK'
    BY <1>7 DEF CloseMount, Unmount, Busy
  <1> QED BY <1>1, <1>2, <1>3, <1>4, <1>5, <1>6, <1>7 DEF Next

(* Every variable of DriveUse keeps to its type. *)
THEOREM TypeCorrect == Spec => []TypeOK
  <1>1. Init => TypeOK
    BY DriveAssumption DEF Init, TypeOK
  <1> QED BY <1>1, Typing, PTL DEF Spec

(* Nothing but Mount and pmount mount, and Mount only while start.pl waits *)
(* for AppRun.                                                             *)
LEMMA OnlyMount ==
  ASSUME TypeOK, [Next]_vars, NEW p \in Parts, p \in mounted', p \notin mounted
  PROVE  \/ at = "apprun" /\ at' = "apprun"
         \/ Mountme(p)
  <1> USE DEF vars, system, others, start, poll, press, daemon
  <1>1. CASE User
    <2>1. CASE SwitchMode \/ WipeReturns \/ LeavePmount \/ ToggleApp
      BY <2>1 DEF SwitchMode, WipeReturns, LeavePmount, ToggleApp, AppRunFrame
    <2>2. ASSUME NEW q \in Parts,
                 \/ CloseWindow(q) \/ Use(q) \/ EndUse(q) \/ Press(q) \/ PressToWipe(q)
                 \/ ShowMount(q) \/ Unmountme(q)
          PROVE  FALSE
      BY <2>2 DEF CloseWindow, Use, EndUse, UserFrame, Press, PressToWipe, ShowMount,
         PmountFrame, Unmountme, Unmount
    <2>3. ASSUME NEW q \in Parts, Mountme(q) PROVE q = p
      BY <2>3 DEF Mountme
    <2> QED BY <1>1, <2>1, <2>2, <2>3 DEF User
  <1>2. CASE BeginPoll \/ Poll
    BY <1>2 DEF BeginPoll, Poll, LookForWindow, Redraw, AppRunReturns, UmountToWipe,
       Unmount, GrepMounts, PollFrame
  <1>3. CASE AppRun
    BY <1>3 DEF AppRun, Df, Mount, MountFails, Openrox, AppRunFrame, TypeOK
  <1>4. CASE Daemon
    BY <1>4 DEF Daemon, ListMounts, EndRound, AutoUmount, Unmount, Fuser, DaemonFrame
  <1>5. CASE \E q \in Parts : CloseMount(q)
    BY <1>5 DEF CloseMount, Unmount
  <1> QED BY <1>1, <1>2, <1>3, <1>4, <1>5 DEF Next

(* No partition is mounted while start.pl waits for wipe.pl, whoever else  *)
(* is at work, unless the user mounts it in pmount.                        *)
THEOREM WipeApart == Spec => WipedStaysUnmounted
  <1>1. TypeOK /\ [Next]_vars
          => [at = "wipe" /\ part \notin mounted
                => part \notin mounted' \/ Mountme(part)]_vars
    <2> SUFFICES ASSUME TypeOK, [Next]_vars, at = "wipe", part \notin mounted,
                        part \in mounted'
                 PROVE  Mountme(part)
      OBVIOUS
    <2>1. part \in Parts
      BY DEF TypeOK
    <2> QED BY <2>1, OnlyMount
  <1> QED BY <1>1, TypeCorrect, PTL DEF Spec, WipedStaysUnmounted

(* What set_drives has read and found unmounted stays so until it draws,   *)
(* or pmount has mounted it since: the strengthening that RedrawTrue       *)
(* needs.                                                                  *)
PollTrue ==
  at \in {"poll", "window"} =>
    \A p \in Parts : p \in mounted => p \in todo \union found \union late

LEMMA PollStep == TypeOK /\ PollTrue /\ [Next]_vars => PollTrue'
  <1> SUFFICES ASSUME TypeOK, PollTrue, [Next]_vars,
                      at' \in {"poll", "window"},
                      NEW p \in Parts, p \in mounted'
               PROVE  p \in todo' \union found' \union late'
    BY DEF PollTrue
  <1> USE DEF vars, system, others, start, poll, press, daemon
  <1>1. p \in mounted \/ Mountme(p)
    BY OnlyMount
  <1>2. CASE BeginPoll
    BY <1>2 DEF BeginPoll
  <1>3. CASE Poll
    <2>1. CASE LookForWindow
      BY <1>1, <2>1 DEF LookForWindow, PollFrame, PollTrue, Mountme, PmountFrame
    <2>2. CASE \E q \in Parts : GrepMounts(q)
      BY <1>1, <2>2 DEF GrepMounts, PollFrame, PollTrue, Mountme
    <2>3. CASE Redraw \/ AppRunReturns \/ UmountToWipe
      BY <2>3 DEF Redraw, AppRunReturns, UmountToWipe
    <2> QED BY <1>3, <2>1, <2>2, <2>3 DEF Poll
  <1>4. ASSUME NEW q \in Parts, Mountme(q) PROVE p \in todo' \union found' \union late'
    BY <1>1, <1>4 DEF Mountme, PmountFrame, PollTrue
  <1>5. CASE ~(BeginPoll \/ Poll \/ \E q \in Parts : Mountme(q))
    <2>1. CASE User
      BY <1>1, <1>5, <2>1 DEF User, SwitchMode, WipeReturns, LeavePmount, ToggleApp,
         AppRunFrame, CloseWindow, Use, EndUse, UserFrame, Press, PressToWipe, ShowMount,
         PmountFrame, Unmountme, PollTrue
    <2>2. CASE ~User
      <3>1. UNCHANGED <<at, todo, found, late>>
        BY <1>5, <2>2 DEF Next, AppRun, Df, Mount, MountFails, Openrox, AppRunFrame, Daemon,
           ListMounts, EndRound, AutoUmount, Fuser, DaemonFrame, CloseMount
      <3> QED BY <1>1, <1>5, <3>1 DEF PollTrue
    <2> QED BY <2>1, <2>2
  <1> QED BY <1>2, <1>3, <1>4, <1>5

(* A button drawn as that of an unmounted partition tells the truth,       *)
(* unless pmount has mounted it since set_drives began to look.            *)
THEOREM RedrawIsTrue == Spec => RedrawTrue
  <1>1. Init => PollTrue
    BY DEF Init, PollTrue
  <1>2. PollTrue /\ TypeOK
          => (Redraw => \A p \in Parts \ shown' : p \in mounted => p \in late)
    BY DEF PollTrue, Redraw
  <1> QED BY <1>1, <1>2, PollStep, TypeCorrect, PTL DEF Spec, RedrawTrue
=============================================================================

-------------------------- MODULE SaveSessionProofs --------------------------
(***************************************************************************)
(* Theorems about SaveSession, for every set of package scripts and every  *)
(* interval, and with or without hotplug and its delays: the state is well *)
(* typed and, unless xwin starts X again while the computer shuts down,    *)
(* the daemon's merge and the last one never run together, and the session *)
(* implements SaveStore, so that the computer is switched off with all     *)
(* work saved.                                                             *)
(***************************************************************************)
EXTENDS SaveSession, TLAPS

(* The types that each action keeps. *)
LEMMA Typing == TypeOK /\ [Next]_vars => TypeOK'
  <1> SUFFICES ASSUME TypeOK, [Next]_vars PROVE TypeOK'
    OBVIOUS
  <1> USE SessionAssumption
      DEF TypeOK, vars, user, xserver, loop, halt, ExitModes, Started
  <1>1. CASE UNCHANGED vars
    BY <1>1
  <1>2. CASE User
    <2>1. CASE Work
      <3>1. /\ work' = work + 1 /\ work < MaxWork
            /\ UNCHANGED <<saved, app, interval, xserver, loop, request, inst, halt>>
        BY <2>1 DEF Work
      <3> QED BY <3>1
    <2>5. CASE Save2flash
      BY <2>5 DEF Save2flash
    <2>6. CASE \E i \in Installers : StartInstall(i)
      BY <2>6 DEF StartInstall, InstFrame
    <2>2. CASE ToggleApp
      <3>1. app' \in BOOLEAN
        BY <2>2, Zenon DEF ToggleApp
      <3>2. UNCHANGED <<work, interval, saved, xserver, loop, request, inst, halt>>
        BY <2>2 DEF ToggleApp
      <3> QED BY <3>1, <3>2
    <2>3. CASE Xwin
      <3>1. back' \in BOOLEAN
        BY <2>3, Zenon DEF Xwin, StartX
      <3>2. /\ x' = "up" /\ starts' = starts + 1 /\ daemon' = Started /\ toggle' = 1
            /\ savecnt' = 0 /\ UNCHANGED <<user, saved, scripts, request, inst>>
            /\ UNCHANGED <<wmexit, shut, final, xrunning, from>>
        BY <2>3 DEF Xwin, StartX, XinitFrame
      <3> QED BY <3>1, <3>2
    <2>7. CASE Poweroff
      BY <2>7 DEF Poweroff, ShutdownFrame, Goto, Shutdowns
    <2>4. CASE \E mode \in ExitModes : RequestExit(mode)
      BY <2>4 DEF RequestExit
    <2> QED BY <1>2, <2>1, <2>2, <2>3, <2>4, <2>5, <2>6, <2>7 DEF User
  <1>3. CASE Daemon
    <2> USE DEF DaemonFrame
    <2>1. CASE DaemonLeaves \/ HalfRound
      BY <2>1 DEF DaemonLeaves, HalfRound
    <2>4. CASE Round
      <3>1. savecnt' \in 0 .. interval
        BY <2>4 DEF Round
      <3>2. request' \in BOOLEAN
        BY <2>4, Zenon DEF Round
      <3>3. toggle' = 0 /\ daemon' = "polling" /\ UNCHANGED <<saved, from>>
        BY <2>4 DEF Round
      <3>4. DaemonFrame
        BY <2>4 DEF Round
      <3> QED BY <3>1, <3>2, <3>3, <3>4
    <2>2. CASE Poll \/ TakeRequest
      BY <2>2 DEF Poll, TakeRequest
    <2>3. CASE StartMerge \/ EndMerge
      BY <2>3 DEF StartMerge, EndMerge
    <2> QED BY <1>3, <2>1, <2>2, <2>3, <2>4 DEF Daemon
  <1>4. CASE Leave
    <2>1. CASE XwinRestart
      <3>1. back' \in BOOLEAN
        BY <2>1, Zenon DEF XwinRestart, StartX
      <3>2. /\ x' = "up" /\ starts' = starts + 1 /\ daemon' = Started /\ toggle' = 1
            /\ savecnt' = 0 /\ wmexit' = "none" /\ UNCHANGED <<user, saved, scripts, request, inst>>
            /\ UNCHANGED <<shut, final, xrunning, from>>
        BY <2>1 DEF XwinRestart, StartX, XinitFrame
      <3> QED BY <3>1, <3>2
    <2>2. CASE KillWM
      BY <2>2 DEF KillWM, HangUp
    <2>3. CASE KillNobody \/ XwinPoweroff \/ XwinPrompt
      BY <2>3 DEF KillNobody, XwinPoweroff, XwinPrompt, XinitFrame
    <2> QED BY <1>4, <2>1, <2>2, <2>3 DEF Leave
  <1>5. ASSUME NEW s \in Shutdowns, Shutdown(s) PROVE TypeOK'
    BY <1>5 DEF Shutdown, AwaitMerge, KillX, HangUp, FinalMerge, SwitchOff,
       DaemonListed, ShutdownFrame, Goto
  <1>6. CASE \E i \in Installers : WriteDirect(i) \/ EndInstall(i)
    BY <1>6 DEF WriteDirect, EndInstall, InstFrame
  <1> QED BY <1>1, <1>2, <1>3, <1>4, <1>5, <1>6 DEF Next

(* Every variable of SaveSession keeps to its type. *)
THEOREM TypeCorrect == Spec => []TypeOK
  <1>1. Init => TypeOK
    <2> SUFFICES ASSUME Init PROVE TypeOK
      OBVIOUS
    <2>1. inst \in [Installers -> {"none", "waiting", "writing", "done"}]
      BY DEF Init
    <2>2. daemon \in {"gone", "asleep"}
      BY DEF Init, Started
    <2>3. request \in BOOLEAN /\ app \in BOOLEAN /\ back \in BOOLEAN
      BY Zenon DEF Init
    <2>4. /\ work = 0 /\ saved = 0 /\ from = 0
          /\ x = "up" /\ starts = 1 /\ wmexit = "none" /\ scripts = 0
          /\ toggle = 1 /\ savecnt = 0
          /\ interval \in Intervals
      BY DEF Init
    <2>5. /\ shut = [s \in Shutdowns |-> "none"] /\ final = [s \in Shutdowns |-> 0]
          /\ xrunning = [s \in Shutdowns |-> "no"]
      BY DEF Init
    <2>6. /\ shut \in [Shutdowns -> {"none", "waiting", "killing", "stopped", "merging", "off"}]
          /\ final \in [Shutdowns -> 0 .. work]
          /\ xrunning \in [Shutdowns -> {"yes", "no"}]
      BY <2>4, <2>5
    <2> QED BY <2>1, <2>2, <2>3, <2>4, <2>6, SessionAssumption DEF TypeOK
  <1> QED BY <1>1, Typing, PTL DEF Spec

(* The order in which X, the daemon and rc.shutdown go down. *)
LEMMA Ordering == TypeOK /\ HaltOrder /\ [Next]_vars => HaltOrder'
  <1> SUFFICES ASSUME TypeOK, HaltOrder, [Next]_vars PROVE HaltOrder'
    OBVIOUS
  <1> USE DEF TypeOK, HaltOrder, On, Off, Past, Shutdowns, vars, user, xserver, loop, halt
  <1>1. CASE UNCHANGED vars
    BY <1>1
  <1>2. CASE User
    <2>1. CASE Work \/ ToggleApp \/ Save2flash \/ \E i \in Installers : StartInstall(i)
      BY <2>1 DEF Work, ToggleApp, Save2flash, StartInstall, InstFrame
    <2>2. CASE Xwin
      <3>1. ~back' => ~back
        BY <2>2 DEF Xwin, StartX
      <3> QED BY <2>2, <3>1 DEF Xwin, StartX, XinitFrame
    <2>3. CASE Poweroff
      BY <2>3 DEF Poweroff, ShutdownFrame, Goto
    <2>4. CASE \E mode \in ExitModes : RequestExit(mode)
      BY <2>4 DEF RequestExit, ExitModes
    <2> QED BY <1>2, <2>1, <2>2, <2>3, <2>4 DEF User
  <1>3. CASE Daemon
    <2>1. daemon # "gone" /\ UNCHANGED <<work, xserver, halt>>
      BY <1>3 DEF Daemon, DaemonLeaves, HalfRound, Round, Poll, TakeRequest,
         StartMerge, EndMerge, DaemonFrame
    <2> QED BY <2>1
  <1>4. CASE Leave
    <2>1. CASE XwinRestart
      <3>1. ~back' => ~back /\ \A s \in Shutdowns : ~Past(s)
        BY <2>1, Zenon DEF XwinRestart, StartX
      <3>2. /\ x = "ending" /\ x' = "up"
            /\ UNCHANGED <<work, saved, shut, final, xrunning>>
        BY <2>1 DEF XwinRestart, StartX, XinitFrame
      <3> QED BY <3>1, <3>2
    <2>2. CASE KillWM
      BY <2>2 DEF KillWM, HangUp
    <2>3. CASE KillNobody \/ XwinPoweroff \/ XwinPrompt
      BY <2>3 DEF KillNobody, XwinPoweroff, XwinPrompt, XinitFrame
    <2> QED BY <1>4, <2>1, <2>2, <2>3 DEF Leave
  <1>5. ASSUME NEW s \in Shutdowns, Shutdown(s) PROVE HaltOrder'
    <2> USE DEF Goto, ShutdownFrame
    <2>1. CASE AwaitMerge(s)
      BY <2>1 DEF AwaitMerge
    <2>2. CASE KillX(s)
      BY <2>2 DEF KillX, HangUp
    <2>3. CASE FinalMerge(s)
      BY <2>3 DEF FinalMerge, DaemonListed
    <2>4. CASE SwitchOff(s)
      BY <2>4 DEF SwitchOff
    <2> QED BY <1>5, <2>1, <2>2, <2>3, <2>4 DEF Shutdown
  <1>6. CASE \E i \in Installers : WriteDirect(i) \/ EndInstall(i)
    BY <1>6 DEF WriteDirect, EndInstall, InstFrame
  <1> QED BY <1>1, <1>2, <1>3, <1>4, <1>5, <1>6 DEF Next

(* The inductive invariant of the shutdown: unless xwin starts X again     *)
(* beside it, X and the daemon are gone when a last merge begins, so that  *)
(* it leaves no loop early.                                                *)
THEOREM InOrder == Spec => [](TypeOK /\ HaltOrder)
  <1>1. Init => HaltOrder
    BY DEF Init, HaltOrder, Off, Past, Shutdowns
  <1> QED BY <1>1, TypeCorrect, Ordering, PTL DEF Spec

(* The daemon's merge never runs beside the last one, unless xwin has      *)
(* started X again.                                                        *)
THEOREM MergesApart == Spec => []OneMerge
  <1>1. HaltOrder => OneMerge
    BY DEF HaltOrder, OneMerge, Past
  <1> QED BY <1>1, InOrder, PTL

(* A step of the session is a step of SaveStore or leaves it alone. *)
LEMMA StoreStep ==
  TypeOK /\ HaltOrder /\ HaltOrder' /\ [Next]_vars
    => [Store!Next]_<<work, saved, Off /\ ~back>>
  <1> SUFFICES ASSUME TypeOK, HaltOrder, HaltOrder', [Next]_vars
               PROVE  [Store!Next]_<<work, saved, Off /\ ~back>>
    OBVIOUS
  <1> USE DEF vars, user, xserver, loop, halt
  <1>1. CASE Work /\ ~Off
    BY <1>1 DEF Work, Off, Store!Next, Store!Change
  <1>2. CASE EndMerge /\ ~Off
    <2>1. saved' \in saved .. work /\ UNCHANGED <<work, halt>>
      BY <1>2 DEF EndMerge, DaemonFrame, TypeOK
    <2> QED BY <1>2, <2>1 DEF Off, Store!Next, Store!Save
  <1>3. ASSUME NEW s \in Shutdowns, SwitchOff(s), ~Off
        PROVE  [Store!Next]_<<work, saved, Off /\ ~back>>
    <2>1. saved' \in saved .. work /\ work' = work /\ back' = back /\ Off'
      BY <1>3 DEF SwitchOff, ShutdownFrame, Goto, Off, TypeOK
    <2>2. CASE back
      BY <1>3, <2>1, <2>2 DEF Store!Next, Store!Save
    <2>3. CASE ~back
      <3>1. saved' = work
        BY <2>1, <2>3 DEF HaltOrder
      <3> QED BY <1>3, <2>1, <2>3, <3>1 DEF Store!Next, Store!SwitchOff
    <2> QED BY <2>2, <2>3
  <1>4. CASE UNCHANGED <<work, saved>> /\ ((Off /\ ~back)' = (Off /\ ~back))
    BY <1>4
  <1>5. ASSUME NEW s \in Shutdowns, Shutdown(s), ~SwitchOff(s)
        PROVE  UNCHANGED <<work, saved, back>> /\ ~Off /\ ~Off'
    BY <1>5 DEF Shutdown, AwaitMerge, KillX, FinalMerge, ShutdownFrame, Goto, Off, TypeOK
  <1>6. CASE Leave
    BY <1>4, <1>6 DEF Leave, KillWM, KillNobody, XwinRestart, XwinPoweroff, XwinPrompt,
       StartX, XinitFrame, Off, Shutdowns, TypeOK
  <1>7. CASE User /\ ~Work
    <2>1. CASE Xwin
      BY <1>4, <1>7, <2>1 DEF User, Xwin, StartX, XinitFrame, Off
    <2>2. CASE Poweroff
      BY <1>4, <1>7, <2>2 DEF User, Poweroff, Goto, ShutdownFrame, Off, Shutdowns, TypeOK
    <2>3. CASE ~Xwin /\ ~Poweroff
      <3>1. UNCHANGED <<work, saved, halt>>
        BY <1>7, <2>3 DEF User, ToggleApp, Save2flash, StartInstall, InstFrame, RequestExit
      <3> QED BY <1>4, <3>1 DEF Off
    <2> QED BY <2>1, <2>2, <2>3
  <1>8. CASE Daemon /\ ~EndMerge
    <2>1. UNCHANGED <<work, saved, halt>>
      BY <1>8 DEF Daemon, DaemonLeaves, HalfRound, Round, Poll, TakeRequest, StartMerge,
         DaemonFrame
    <2> QED BY <1>4, <2>1 DEF Off
  <1>9. CASE UNCHANGED vars \/ \E i \in Installers : WriteDirect(i) \/ EndInstall(i)
    <2>1. UNCHANGED <<work, saved, halt>>
      BY <1>9 DEF WriteDirect, EndInstall, InstFrame
    <2> QED BY <1>4, <2>1 DEF Off
  <1> QED
    BY <1>1, <1>2, <1>3, <1>4, <1>5, <1>6, <1>7, <1>8, <1>9 DEF Next, User, Daemon, Shutdown

(* Whoever runs the merges, and whenever X is left, the save layer loses   *)
(* nothing that it has, and the computer is off only with all work saved,  *)
(* unless xwin has started X again under rc.shutdown.                      *)
THEOREM Implementation == Spec => StoreSpec
  <1>1. Init => Store!Init
    BY DEF Init, Store!Init, Off, Shutdowns
  <1> QED BY <1>1, InOrder, StoreStep, PTL DEF Spec, StoreSpec, Store!Spec
=============================================================================

------------------------------ MODULE WipeProofs ------------------------------
(***************************************************************************)
(* Theorems about Wipe, for drives of every size, every number of presses  *)
(* and every mishap: the state is well typed, the last dd does not outlive *)
(* the window, and what the window says of the drive is true if umount and *)
(* the dds did their work.                                                 *)
(***************************************************************************)
EXTENDS Wipe, FiniteSets, FiniteSetTheorems, SequenceTheorems, TLAPS

(* The activations that have not started their dd yet; each press of the   *)
(* button makes one of them.                                               *)
Asked == {k \in DOMAIN stack : stack[k].at = "asked"}

Typed ==
  /\ TypeOK
  /\ IsFiniteSet(Asked) /\ opened + Cardinality(Asked) <= clicks

Activations == [child : 0 .. Clicks, at : Places]

(* What moving the running activation on does to the stack. *)
LEMMA Moved ==
  ASSUME stack \in Seq(Activations), stack # <<>>,
         NEW place \in Places \ {"asked"}, MoveTo(place)
  PROVE  /\ stack' \in Seq(Activations) /\ Len(stack') = Len(stack)
         /\ \A k \in 1 .. Len(stack) :
              stack'[k] = IF k = Len(stack) THEN [stack[k] EXCEPT !.at = place]
                                            ELSE stack[k]
         /\ Asked' \subseteq Asked
  <1>1. /\ Len(stack) \in Nat \ {0} /\ DOMAIN stack = 1 .. Len(stack)
        /\ \A k \in 1 .. Len(stack) : stack[k] \in Activations
    OBVIOUS
  <1>2. stack' = [k \in 1 .. Len(stack) |->
                    IF k = Len(stack) THEN [stack[k] EXCEPT !.at = place] ELSE stack[k]]
    BY <1>1 DEF MoveTo
  <1>3. \A k \in 1 .. Len(stack) : [stack[k] EXCEPT !.at = place] \in Activations
    BY <1>1 DEF Activations
  <1>4. stack' \in Seq(Activations) /\ Len(stack') = Len(stack)
    BY <1>1, <1>2, <1>3
  <1>5. Asked' \subseteq Asked
    <2> SUFFICES ASSUME NEW k \in 1 .. Len(stack), stack'[k].at = "asked"
                 PROVE  stack[k].at = "asked"
      BY <1>1, <1>2 DEF Asked
    <2>1. k # Len(stack)
      BY <1>1, <1>2 DEF Activations
    <2> QED BY <1>2, <2>1
  <1> QED BY <1>1, <1>2, <1>4, <1>5

LEMMA FewerAsked ==
  ASSUME Typed, Asked' \subseteq Asked, opened' = opened, clicks' = clicks
  PROVE  IsFiniteSet(Asked') /\ opened' + Cardinality(Asked') <= clicks'
  <1>1. /\ IsFiniteSet(Asked') /\ Cardinality(Asked') <= Cardinality(Asked)
        /\ Cardinality(Asked) \in Nat /\ Cardinality(Asked') \in Nat
    BY FS_Subset, FS_CardinalityType DEF Typed
  <1> QED BY <1>1, WipeAssumption DEF Typed, TypeOK

Processes == [st : DdStates, reaped : BOOLEAN, pos : 0 .. Blocks,
              asked : BOOLEAN, out : Seq(0 .. Blocks)]

(* An activation that moves on keeps the types if it keeps those of dd and *)
(* of the variables beside.                                                *)
LEMMA MovingTyped ==
  ASSUME Typed, stack # <<>>, NEW place \in Places \ {"asked"}, MoveTo(place),
         UNCHANGED <<clicks, opened, gone>>, cpid' \in 0 .. opened,
         dd' \in [Dds -> Processes], success' \in BOOLEAN,
         zeroed' = zeroed, formatted' \in BOOLEAN,
         status' \in {"none", "done", "failed"}, UNCHANGED <<mounted, stained>>
  PROVE  Typed'
  <1>1. stack \in Seq(Activations)
    BY DEF Typed, TypeOK, Activations
  <1>2. /\ stack' \in Seq(Activations) /\ Len(stack') = Len(stack)
        /\ Asked' \subseteq Asked
    BY <1>1, Moved
  <1>3. IsFiniteSet(Asked') /\ opened' + Cardinality(Asked') <= clicks'
    BY <1>2, FewerAsked
  <1>4. TypeOK'
    BY <1>2 DEF Typed, TypeOK, Activations, Processes
  <1> QED BY <1>3, <1>4 DEF Typed

LEMMA ActivationTyped == Typed /\ Activation => Typed'
  <1> SUFFICES ASSUME Typed, Activation PROVE Typed'
    OBVIOUS
  <1>0. /\ dd \in [Dds -> Processes] /\ cpid \in 0 .. opened /\ 0 \in 0 .. opened
        /\ stack \in Seq(Activations) /\ success \in BOOLEAN /\ formatted \in BOOLEAN
        /\ opened \in 0 .. Clicks /\ clicks \in 0 .. Clicks
        /\ status \in {"none", "done", "failed"}
    BY WipeAssumption DEF Typed, TypeOK, Activations, Processes
  <1>1. CASE Sleep \/ ReadEnd \/ Updated \/ Shown \/ SignalNobody
    <2>1. stack # <<>> /\ \E place \in Places \ {"asked"} : MoveTo(place)
      BY <1>1 DEF Sleep, ReadEnd, Updated, Shown, SignalNobody, At, Places
    <2>2. UNCHANGED <<clicks, opened, gone, cpid, dd, success, zeroed, formatted,
                      status, mounted, stained>>
      BY <1>1 DEF Sleep, ReadEnd, Updated, Shown, SignalNobody, WipeFrame, drive
    <2> QED BY <1>0, <2>1, <2>2, MovingTyped
  <1>2. CASE Format
    <2>1. stack # <<>> /\ MoveTo("shown") /\ "shown" \in Places \ {"asked"}
      BY <1>2 DEF Format, At, Places
    <2>2. UNCHANGED <<clicks, opened, gone, cpid, dd, zeroed, mounted, stained>>
      BY <1>2 DEF Format, WipeFrame
    <2>3. success' \in BOOLEAN /\ formatted' \in BOOLEAN
      BY <1>0, <1>2, Zenon DEF Format
    <2>4. status' \in {"none", "done", "failed"}
      BY <1>2, Zenon DEF Format
    <2> QED BY <1>0, <2>1, <2>2, <2>3, <2>4, MovingTyped
  <1>3. CASE Reap
    <2>1. stack # <<>> /\ MoveTo("format") /\ "format" \in Places \ {"asked"}
      BY <1>3 DEF Reap, At, Places
    <2>2. UNCHANGED <<clicks, opened, gone, success, zeroed, formatted, status, mounted, stained>>
          /\ cpid' = 0
      BY <1>3 DEF Reap, WipeFrame, drive
    <2>3. dd' \in [Dds -> Processes]
      BY <1>0, <1>3 DEF Reap, Processes
    <2> QED BY <1>0, <2>1, <2>2, <2>3, MovingTyped
  <1>4. CASE Signal
    <2>1. stack # <<>> /\ MoveTo("read") /\ "read" \in Places \ {"asked"}
      BY <1>4 DEF Signal, At, Places
    <2>2. UNCHANGED <<clicks, opened, gone, cpid, success, zeroed, formatted,
                      status, mounted, stained>>
      BY <1>4 DEF Signal, WipeFrame, drive
    <2>3. dd' \in [Dds -> Processes]
      <3>1. dd' = [dd EXCEPT ![cpid].asked = TRUE,
                             ![cpid].st = IF @ = "starting" THEN "killed" ELSE @]
        BY <1>4 DEF Signal
      <3> QED BY <1>0, <3>1 DEF Processes, DdStates
    <2> QED BY <1>0, <2>1, <2>2, <2>3, MovingTyped
  <1>5. CASE ReadCount
    <2> DEFINE out == dd[Top.child].out
    <2>1. stack # <<>> /\ \E place \in Places \ {"asked"} : MoveTo(place)
      BY <1>5 DEF ReadCount, At, Places
    <2>2. UNCHANGED <<clicks, opened, gone, cpid, success, zeroed, formatted,
                      status, mounted, stained>>
      BY <1>5 DEF ReadCount, WipeFrame, drive
    <2>3. dd' = [dd EXCEPT ![Top.child].out = Tail(out)] /\ out # <<>>
      BY <1>5 DEF ReadCount
    <2>4. Top.child \in Dds => Tail(out) \in Seq(0 .. Blocks)
      <3> SUFFICES ASSUME Top.child \in Dds PROVE Tail(out) \in Seq(0 .. Blocks)
        OBVIOUS
      <3>1. out \in Seq(0 .. Blocks)
        BY <1>0 DEF Processes
      <3> QED BY <2>3, <3>1, HeadTailProperties
    <2>5. dd' \in [Dds -> Processes]
      BY <1>0, <2>3, <2>4 DEF Processes
    <2> QED BY <1>0, <2>1, <2>2, <2>5, MovingTyped
  <1>6. CASE Return
    <2> DEFINE L == Len(stack)
    <2>1. stack # <<>> /\ L \in Nat \ {0} /\ stack' = SubSeq(stack, 1, L - 1)
      BY <1>0, <1>6 DEF Return, At
    <2>2. /\ stack' \in Seq(Activations) /\ Len(stack') = L - 1
          /\ \A k \in 1 .. L - 1 : stack'[k] = stack[k]
      <3>1. 1 \in Int /\ L - 1 \in Int /\ \A k \in 1 .. L - 1 : stack[k] \in Activations
        BY <1>0, <2>1
      <3>2. /\ stack' \in Seq(Activations)
            /\ Len(stack') = IF 1 <= L - 1 THEN L - 1 - 1 + 1 ELSE 0
            /\ \A k \in 1 .. L - 1 - 1 + 1 : stack'[k] = stack[1 + k - 1]
        BY <2>1, <3>1, SubSeqProperties
      <3>3. /\ (IF 1 <= L - 1 THEN L - 1 - 1 + 1 ELSE 0) = L - 1
            /\ L - 1 - 1 + 1 = L - 1 /\ \A k \in 1 .. L - 1 : 1 + k - 1 = k
        <4>1. L \in Nat \ {0}
          BY <2>1
        <4> HIDE DEF L
        <4> QED BY <4>1
      <3>4. \A k \in 1 .. L - 1 : stack'[k] = stack[k]
        <4> SUFFICES ASSUME NEW k \in 1 .. L - 1 PROVE stack'[k] = stack[k]
          OBVIOUS
        <4> HIDE DEF L
        <4> QED BY <3>2, <3>3
      <3> QED BY <3>2, <3>3, <3>4
    <2>3. Asked' \subseteq Asked
      BY <1>0, <2>1, <2>2 DEF Asked
    <2>4. dd' \in [Dds -> Processes]
      BY <1>0, <1>6 DEF Return, Processes
    <2>5. UNCHANGED <<clicks, opened, gone, cpid, success, zeroed, formatted,
                      status, mounted, stained>>
      BY <1>6 DEF Return, WipeFrame, drive
    <2>6. IsFiniteSet(Asked') /\ opened' + Cardinality(Asked') <= clicks'
      BY <2>3, <2>5, FewerAsked
    <2>7. TypeOK'
      BY <1>0, <2>1, <2>2, <2>4, <2>5 DEF Typed, TypeOK, Activations, Processes
    <2> QED BY <2>6, <2>7 DEF Typed
  <1>7. CASE OpenDd
    <2> DEFINE L == Len(stack)
    <2>1. /\ stack # <<>> /\ L \in Nat \ {0} /\ stack[L].at = "asked"
          /\ opened' = opened + 1 /\ cpid' = opened + 1
          /\ stack' = [stack EXCEPT ![L] = [child |-> opened + 1, at |-> "sleep"]]
      BY <1>0, <1>7 DEF OpenDd, At, Top
    <2>2. L \in Asked /\ Asked' = Asked \ {L}
      BY <1>0, <2>1 DEF Asked, Activations
    <2>3. /\ IsFiniteSet(Asked') /\ Cardinality(Asked') = Cardinality(Asked) - 1
          /\ Cardinality(Asked) \in Nat /\ Cardinality(Asked') \in Nat
      BY <2>2, FS_RemoveElement, FS_CardinalityType DEF Typed
    <2>4. UNCHANGED <<clicks, gone, success, zeroed, formatted, status, mounted, stained>>
      BY <1>7 DEF OpenDd, WipeFrame, drive
    <2>5. opened' + Cardinality(Asked') <= clicks' /\ opened' \in 0 .. clicks'
      BY <1>0, <2>1, <2>3, <2>4 DEF Typed, TypeOK
    <2>6. stack' \in Seq(Activations) /\ Len(stack') = L
      <3>1. [child |-> opened + 1, at |-> "sleep"] \in Activations
        <4>1. opened + 1 \in 0 .. Clicks
          BY <1>0, <2>1, <2>4, <2>5, WipeAssumption
        <4> QED BY <4>1 DEF Activations, Places
      <3> QED BY <1>0, <2>1, <3>1
    <2>7. dd' \in [Dds -> Processes]
      BY <1>0, <1>7 DEF OpenDd, Processes, DdStates
    <2>8. cpid' \in 0 .. opened'
      BY <1>0, <2>1
    <2>9. TypeOK'
      BY <1>0, <2>4, <2>5, <2>6, <2>7, <2>8 DEF Typed, TypeOK, Activations, Processes
    <2> QED BY <2>3, <2>5, <2>9 DEF Typed
  <1> QED BY <1>1, <1>2, <1>3, <1>4, <1>5, <1>6, <1>7 DEF Activation

(* The button, and the end of the window. *)
LEMMA WindowTyped == Typed /\ (PressWipe \/ Leave) => Typed'
  <1> SUFFICES ASSUME Typed, PressWipe \/ Leave PROVE Typed'
    OBVIOUS
  <1>0. /\ dd \in [Dds -> Processes] /\ stack \in Seq(Activations)
        /\ Clicks \in Nat /\ opened \in 0 .. clicks /\ clicks \in 0 .. Clicks
        /\ Len(stack) <= clicks
        /\ Len(stack) \in Nat /\ DOMAIN stack = 1 .. Len(stack)
    BY WipeAssumption DEF Typed, TypeOK, Activations, Processes
  <1>1. CASE PressWipe
    <2> DEFINE L == Len(stack)
    <2>1. /\ stack' = Append(stack, [child |-> 0, at |-> "asked"])
          /\ clicks' = clicks + 1 /\ clicks < Clicks
          /\ UNCHANGED <<cpid, opened, success, gone, dd, drive>>
      BY <1>1 DEF PressWipe
    <2>2. [child |-> 0, at |-> "asked"] \in Activations
      BY <1>0 DEF Activations, Places
    <2>3. /\ stack' \in Seq(Activations) /\ Len(stack') = L + 1
          /\ DOMAIN stack' = 1 .. L + 1
          /\ stack'[L + 1].at = "asked" /\ \A k \in 1 .. L : stack'[k] = stack[k]
      BY <1>0, <2>1, <2>2
    <2>4. L + 1 \notin Asked /\ Asked' = Asked \union {L + 1}
      BY <1>0, <2>3 DEF Asked
    <2>5. /\ IsFiniteSet(Asked') /\ Cardinality(Asked') = Cardinality(Asked) + 1
          /\ Cardinality(Asked) \in Nat
      BY <2>4, FS_AddElement, FS_CardinalityType DEF Typed
    <2>6. opened' + Cardinality(Asked') <= clicks'
      BY <1>0, <2>1, <2>5 DEF Typed
    <2>7. /\ opened' \in 0 .. clicks' /\ clicks' \in 0 .. Clicks
          /\ Len(stack') <= clicks'
      BY <1>0, <2>1, <2>3
    <2>8. TypeOK'
      BY <2>1, <2>3, <2>7 DEF Typed, TypeOK, Activations, drive
    <2> QED BY <2>5, <2>6, <2>8 DEF Typed
  <1>2. CASE Leave
    <2>1. /\ stack' = <<>> /\ gone' = TRUE /\ dd' = Cleanup
          /\ UNCHANGED <<clicks, cpid, opened, success, drive>>
      BY <1>2 DEF Leave
    <2>2. dd' \in [Dds -> Processes]
      BY <1>0, <2>1 DEF Cleanup, Processes, DdStates
    <2>3. stack' \in Seq(Activations) /\ Len(stack') = 0 /\ Asked' \subseteq Asked
      BY <1>0, <2>1 DEF Asked
    <2>4. TypeOK'
      BY <1>0, <2>1, <2>2, <2>3 DEF Typed, TypeOK, Activations, Processes, drive
    <2> QED BY <2>1, <2>3, <2>4, FewerAsked DEF Typed
  <1> QED BY <1>1, <1>2

(* The steps of the dds. *)
LEMMA DdTyped ==
  ASSUME Typed, NEW i \in Dds, DdStep(i)
  PROVE  Typed'
  <1>0. /\ dd \in [Dds -> Processes] /\ zeroed \in 0 .. Blocks /\ Blocks \in Nat
        /\ formatted \in BOOLEAN
        /\ dd[i].pos \in 0 .. Blocks /\ dd[i].out \in Seq(0 .. Blocks)
    BY WipeAssumption DEF Typed, TypeOK, Processes
  <1>1. dd' \in [Dds -> Processes]
    <2>1. CASE DdReady(i)
      BY <1>0, <2>1 DEF DdReady, Processes, DdStates
    <2>2. CASE DdWrite(i)
      <3>1. dd' = [dd EXCEPT ![i].pos = @ + 1] /\ dd[i].pos + 1 \in 0 .. Blocks
        BY <1>0, <2>2 DEF DdWrite
      <3> QED BY <1>0, <3>1 DEF Processes
    <2>3. ASSUME NEW st \in DdStates,
                 \/ dd' = [dd EXCEPT ![i].st = st]
                 \/ dd' = [dd EXCEPT ![i].asked = FALSE, ![i].out = Append(@, dd[i].pos)]
                 \/ dd' = [dd EXCEPT ![i].st = st, ![i].out = Append(@, dd[i].pos)]
          PROVE  dd' \in [Dds -> Processes]
      <3>1. Append(dd[i].out, dd[i].pos) \in Seq(0 .. Blocks)
        BY <1>0
      <3> QED BY <1>0, <2>3, <3>1 DEF Processes
    <2>4. CASE DdAnswer(i)
      BY <2>3, <2>4 DEF DdAnswer, DdStates
    <2>5. CASE DdEnd(i) \/ DdError(i)
      BY <2>3, <2>5 DEF DdEnd, DdError, Ends, DdStates
    <2> QED BY <2>1, <2>2, <2>4, <2>5 DEF DdStep
  <1>2. UNCHANGED <<window, status, mounted, stained>>
    BY DEF DdStep, DdReady, DdWrite, DdAnswer, DdEnd, DdError, Ends, DdFrame
  <1>3. zeroed' \in 0 .. Blocks /\ formatted' \in BOOLEAN
    <2>1. CASE DdWrite(i)
      <3>1. zeroed' \in 0 .. Blocks
        BY <1>0, <2>1 DEF DdWrite
      <3>2. formatted' \in BOOLEAN
        BY <2>1, Zenon DEF DdWrite
      <3> QED BY <3>1, <3>2
    <2>2. CASE ~DdWrite(i)
      BY <1>0, <2>2 DEF DdStep, DdReady, DdAnswer, DdEnd, DdError, Ends
    <2> QED BY <2>1, <2>2
  <1>4. Asked' = Asked /\ opened' = opened /\ clicks' = clicks
    BY <1>2 DEF Asked, window
  <1>5. TypeOK'
    BY <1>1, <1>2, <1>3 DEF Typed, TypeOK, window, Processes
  <1> QED BY <1>4, <1>5 DEF Typed

LEMMA Typing == Typed /\ [Next]_vars => Typed'
  <1>1. Typed /\ UNCHANGED vars => Typed'
    BY DEF Typed, TypeOK, Asked, vars, window, drive
  <1>2. Typed /\ WriteBack => Typed'
    BY DEF Typed, TypeOK, Asked, WriteBack, window
  <1> QED BY <1>1, <1>2, ActivationTyped, WindowTyped, DdTyped DEF Next

LEMMA TypesKept == Spec => []Typed
  <1>1. Init => Typed
    <2> SUFFICES ASSUME Init PROVE Typed
      OBVIOUS
    <2>1. /\ stack = <<>> /\ clicks = 0 /\ opened = 0 /\ cpid = 0 /\ zeroed = 0
          /\ formatted = FALSE /\ stained = FALSE /\ success = FALSE /\ gone = FALSE
          /\ status = "none"
      BY DEF Init
    <2>5. mounted \in BOOLEAN
      BY Zenon DEF Init
    <2>2. dd \in [Dds -> Processes]
      BY WipeAssumption DEF Init, Processes, DdStates
    <2>3. Asked = {} /\ stack \in Seq(Activations) /\ Len(stack) = 0
      BY <2>1 DEF Asked
    <2>4. TypeOK
      <3>1. /\ Len(stack) <= clicks /\ clicks \in 0 .. Clicks /\ opened \in 0 .. clicks
            /\ cpid \in 0 .. opened /\ zeroed \in 0 .. Blocks
        BY <2>1, <2>3, WipeAssumption
      <3>2. formatted \in BOOLEAN /\ stained \in BOOLEAN /\ success \in BOOLEAN
            /\ gone \in BOOLEAN /\ status \in {"none", "done", "failed"}
        BY <2>1
      <3> QED BY <2>2, <2>3, <2>5, <3>1, <3>2 DEF TypeOK, Activations, Processes
    <2> QED BY <2>1, <2>3, <2>4, FS_EmptySet DEF Typed
  <1> QED BY <1>1, Typing, PTL DEF Spec

(* Every variable of Wipe keeps to its type: there is a dd for each press  *)
(* of the button at most, and $cpid is one of them.                        *)
THEOREM TypeCorrect == Spec => []TypeOK
  <1>1. Typed => TypeOK
    BY DEF Typed
  <1> QED BY <1>1, TypesKept, PTL

-----------------------------------------------------------------------------
(* What LeaveStops needs to be inductive: as long as the last dd is alive, *)
(* $cpid is its number.                                                    *)
LastDdKnown ==
  /\ gone => stack = <<>>
  /\ \A i \in Dds : i > opened => dd[i].st = "none"
  /\ opened > 0 /\ Alive(opened) => cpid = opened /\ ~gone

(* What an activation does with the dds, but for the one that it starts.   *)
LEMMA ActivationDds ==
  ASSUME Typed, Activation, ~OpenDd
  PROVE  /\ opened' = opened
         /\ cpid' = cpid \/ (cpid' = 0 /\ (cpid = 0 \/ Ended(cpid)))
         /\ \A i \in Dds : /\ dd'[i].st = dd[i].st
                             \/ (dd[i].st = "starting" /\ dd'[i].st = "killed")
                         /\ dd'[i].pos = dd[i].pos
  <1>0. dd \in [Dds -> Processes]
    BY DEF Typed, TypeOK, Processes
  <1>1. CASE Sleep \/ ReadEnd \/ Updated \/ Shown \/ SignalNobody \/ Format
    BY <1>1 DEF Sleep, ReadEnd, Updated, Shown, SignalNobody, Format
  <1>2. CASE Reap
    BY <1>0, <1>2 DEF Reap, Waitable, Processes
  <1>3. CASE Signal
    <2>1. dd' = [dd EXCEPT ![cpid].asked = TRUE,
                           ![cpid].st = IF @ = "starting" THEN "killed" ELSE @]
          /\ UNCHANGED <<cpid, opened>>
      BY <1>3 DEF Signal
    <2> QED BY <1>0, <2>1 DEF Processes
  <1>4. CASE ReadCount
    <2>1. \E s : dd' = [dd EXCEPT ![Top.child].out = s]
      BY <1>4 DEF ReadCount
    <2>2. UNCHANGED <<cpid, opened>>
      BY <1>4 DEF ReadCount
    <2> QED BY <1>0, <2>1, <2>2 DEF Processes
  <1>5. CASE Return
    <2>1. dd' = [dd EXCEPT ![Top.child].reaped = TRUE] /\ UNCHANGED <<cpid, opened>>
      BY <1>5 DEF Return
    <2> QED BY <1>0, <2>1 DEF Processes
  <1> QED BY <1>1, <1>2, <1>3, <1>4, <1>5 DEF Activation

(* What a dd does: it never comes to life again. *)
LEMMA DdDds ==
  ASSUME Typed, NEW i \in Dds, DdStep(i)
  PROVE  /\ UNCHANGED window
         /\ Alive(i)
         /\ \A j \in Dds : j # i => dd'[j] = dd[j]
         /\ \/ dd'[i].st \in {"running", "killed", "failed"}
            \/ dd'[i].st = "done" /\ dd[i].pos = Blocks
         /\ dd'[i].pos = dd[i].pos \/ DdWrite(i)
  <1>0. dd \in [Dds -> Processes]
    BY DEF Typed, TypeOK, Processes
  <1>1. Alive(i) /\ UNCHANGED window
    BY DEF DdStep, DdReady, DdWrite, DdAnswer, DdEnd, DdError, Ends, DdFrame, Alive
  <1>2. CASE DdReady(i) \/ DdWrite(i)
    BY <1>0, <1>1, <1>2 DEF DdReady, DdWrite, Processes
  <1>3. CASE DdAnswer(i)
    BY <1>0, <1>1, <1>3 DEF DdAnswer, Processes
  <1>4. CASE DdEnd(i) \/ DdError(i)
    BY <1>0, <1>1, <1>4 DEF DdEnd, DdError, Ends, Processes
  <1> QED BY <1>2, <1>3, <1>4 DEF DdStep

(* What starting one does. *)
LEMMA OpenDds ==
  ASSUME Typed, OpenDd
  PROVE  /\ opened' = opened + 1 /\ cpid' = opened + 1 /\ opened + 1 \in Dds
         /\ dd'[opened + 1].st = "starting"
         /\ dd'[opened + 1].pos = dd[opened + 1].pos
         /\ \A i \in Dds : i # opened + 1 => dd'[i] = dd[i]
  <1>0. dd \in [Dds -> Processes]
    BY DEF Typed, TypeOK, Processes
  <1>1. stack \in Seq(Activations) /\ stack # <<>> /\ stack[Len(stack)].at = "asked"
    BY DEF Typed, TypeOK, Activations, OpenDd, At, Top
  <1>2. Len(stack) \in Asked
    BY <1>1 DEF Asked
  <1>3. Cardinality(Asked) \in Nat /\ Cardinality(Asked) # 0
    BY <1>2, FS_CardinalityType, FS_EmptySet DEF Typed
  <1>4. opened + 1 \in Dds
    BY <1>3, WipeAssumption DEF Typed, TypeOK, Dds
  <1>5. dd' = [dd EXCEPT ![opened + 1].st = "starting"]
        /\ opened' = opened + 1 /\ cpid' = opened + 1
    BY DEF OpenDd
  <1> QED BY <1>0, <1>4, <1>5 DEF Processes

LEMMA LastDdStep == Typed /\ LastDdKnown /\ [Next]_vars => LastDdKnown'
  <1> SUFFICES ASSUME Typed, LastDdKnown, [Next]_vars PROVE LastDdKnown'
    OBVIOUS
  <1>0. /\ opened \in 0 .. Clicks /\ Dds = 1 .. Clicks /\ Clicks \in Nat
        /\ opened > 0 => opened \in Dds
        /\ dd \in [Dds -> Processes] /\ cpid \in 0 .. opened
    BY WipeAssumption DEF Typed, TypeOK, Dds, Processes
  <1> USE DEF LastDdKnown, Alive, Ended
  <1>1. CASE UNCHANGED <<window, dd>>
    BY <1>1 DEF window
  <1>2. CASE PressWipe
    BY <1>2 DEF PressWipe, Listening
  <1>3. CASE Leave
    <2>1. stack' = <<>> /\ opened' = opened
          /\ dd' = IF cpid # 0 /\ dd[cpid].st \in {"starting", "running"}
                     THEN [dd EXCEPT ![cpid].st = "killed"] ELSE dd
      BY <1>3 DEF Leave, Cleanup
    <2>2. \A i \in Dds : dd'[i].st = IF i = cpid /\ dd[i].st \in {"starting", "running"}
                                      THEN "killed" ELSE dd[i].st
      BY <1>0, <2>1 DEF Processes
    <2> QED BY <1>0, <2>1, <2>2
  <1>4. CASE OpenDd
    <2>1. ~gone /\ ~gone'
      BY <1>4 DEF OpenDd, At, WipeFrame
    <2> QED BY <1>0, <1>4, <2>1, OpenDds
  <1>5. CASE Activation /\ ~OpenDd
    <2>1. stack # <<>> /\ gone' = gone
      <3>1. CASE Format
        BY <3>1 DEF Format, At, WipeFrame
      <3>2. CASE ~Format
        BY <1>5, <3>2 DEF Activation, Sleep, Reap, Signal, SignalNobody, ReadCount, ReadEnd,
           Updated, Shown, Return, At, WipeFrame
      <3> QED BY <3>1, <3>2
    <2>2. ~gone /\ ~gone'
      BY <2>1
    <2> QED BY <1>0, <1>5, <2>2, ActivationDds
  <1>6. ASSUME NEW i \in Dds, DdStep(i) PROVE LastDdKnown'
    BY <1>0, <1>6, DdDds DEF window
  <1>7. CASE WriteBack \/ UNCHANGED vars
    BY <1>1, <1>7 DEF WriteBack, vars
  <1> QED BY <1>2, <1>3, <1>4, <1>5, <1>6, <1>7 DEF Next

(* Whichever way the window is left and however often the button was       *)
(* pressed, the dd that was started last does not erase on without it.     *)
THEOREM NoDdLeft == Spec => []LeaveStops
  <1>1. Init => LastDdKnown
    BY WipeAssumption DEF Init, LastDdKnown, Dds
  <1>2. LastDdKnown => LeaveStops
    BY DEF LastDdKnown, LeaveStops
  <1> QED BY <1>1, <1>2, LastDdStep, TypesKept, PTL DEF Spec

-----------------------------------------------------------------------------
(* An activation is about to format the drive, or has done so. *)
Formats == success \/ \E k \in DOMAIN stack : stack[k].at = "format"

(* What the message needs: some dd has ended before the drive is formatted,*)
(* and a dd that is done has zeroed all of it.                             *)
DdsBefore ==
  /\ Formats => \E i \in 1 .. opened : Ended(i)
  /\ \A i \in Dds : /\ dd[i].pos <= zeroed
                    /\ dd[i].st = "done" => dd[i].pos = Blocks
  /\ stained => mounted
  /\ DriveUsable

(* Only Reap leads an activation to the format, and it has found a dd.     *)
LEMMA FormatsAfterReap ==
  ASSUME Typed, Activation, ~OpenDd, ~Reap
  PROVE  Formats' => Formats
  <1> SUFFICES ASSUME Formats' PROVE Formats
    OBVIOUS
  <1>0. stack \in Seq(Activations)
    BY DEF Typed, TypeOK, Activations
  <1>1. CASE Sleep \/ ReadEnd \/ Updated \/ Shown \/ SignalNobody \/ ReadCount \/ Signal
    <2>1. /\ stack # <<>> /\ success' = success
          /\ \E place \in Places \ {"asked", "format"} : MoveTo(place)
      BY <1>1 DEF Sleep, ReadEnd, Updated, Shown, SignalNobody, ReadCount, Signal, At, Places
    <2>2. PICK place \in Places \ {"asked", "format"} : MoveTo(place)
      BY <2>1
    <2>3. /\ stack' \in Seq(Activations) /\ Len(stack') = Len(stack)
          /\ \A k \in 1 .. Len(stack) :
               stack'[k] = IF k = Len(stack) THEN [stack[k] EXCEPT !.at = place]
                                             ELSE stack[k]
      BY <1>0, <2>1, <2>2, Moved
    <2>4. DOMAIN stack = 1 .. Len(stack) /\ DOMAIN stack' = 1 .. Len(stack)
          /\ \A k \in 1 .. Len(stack) : stack[k] \in Activations
      BY <1>0, <2>3
    <2>5. \A k \in 1 .. Len(stack) : stack'[k].at = "format" => stack[k].at = "format"
      BY <2>3, <2>4 DEF Activations
    <2> QED BY <2>1, <2>4, <2>5 DEF Formats
  <1>2. CASE Format
    <2>1. Len(stack) \in DOMAIN stack /\ stack[Len(stack)].at = "format"
      BY <1>0, <1>2 DEF Format, At, Top
    <2> QED BY <2>1 DEF Formats
  <1>3. CASE Return
    <2>1. stack # <<>> /\ stack' = SubSeq(stack, 1, Len(stack) - 1) /\ success' = success
      BY <1>3 DEF Return, At
    <2>2. \A k \in DOMAIN stack' : k \in DOMAIN stack /\ stack'[k] = stack[k]
      BY <1>0, <2>1
    <2> QED BY <2>1, <2>2 DEF Formats
  <1> QED BY <1>1, <1>2, <1>3 DEF Activation

LEMMA DdsBeforeStep ==
  Typed /\ LastDdKnown /\ DdsBefore /\ [Next]_vars => DdsBefore'
  <1> SUFFICES ASSUME Typed, LastDdKnown, DdsBefore, [Next]_vars PROVE DdsBefore'
    OBVIOUS
  <1>0. /\ opened \in 0 .. Clicks /\ Dds = 1 .. Clicks /\ Clicks \in Nat
        /\ 1 .. opened \subseteq Dds
        /\ stack \in Seq(Activations) /\ Blocks \in Nat /\ zeroed \in 0 .. Blocks
        /\ dd \in [Dds -> Processes] /\ \A i \in Dds : dd[i].pos \in 0 .. Blocks
    <2>1. /\ opened \in 0 .. Clicks /\ Dds = 1 .. Clicks /\ Clicks \in Nat
          /\ Blocks \in Nat /\ zeroed \in 0 .. Blocks
      BY WipeAssumption DEF Typed, TypeOK, Dds
    <2>2. stack \in Seq(Activations) /\ dd \in [Dds -> Processes]
      BY DEF Typed, TypeOK, Activations, Processes
    <2>3. \A i \in Dds : dd[i].pos \in 0 .. Blocks
      BY <2>2 DEF Processes
    <2> QED BY <2>1, <2>2, <2>3
  <1> USE DEF DdsBefore, Ended, DriveUsable
  <1>1. CASE UNCHANGED vars
    BY <1>1 DEF vars, window, drive, Formats
  <1>2. CASE WriteBack
    BY <1>2 DEF WriteBack, window, Formats
  <1>3. CASE PressWipe
    <2>1. /\ UNCHANGED <<opened, success, dd, drive>>
          /\ stack' = Append(stack, [child |-> 0, at |-> "asked"])
      BY <1>3 DEF PressWipe
    <2>2. Formats' => Formats
      BY <1>0, <2>1 DEF Formats
    <2> QED BY <2>1, <2>2 DEF drive
  <1>4. CASE Leave
    <2>1. stack' = <<>> /\ UNCHANGED <<opened, success, drive>>
          /\ dd' = IF cpid # 0 /\ Alive(cpid)
                     THEN [dd EXCEPT ![cpid].st = "killed"] ELSE dd
      BY <1>4 DEF Leave, Cleanup
    <2>2. Formats' => Formats
      BY <2>1 DEF Formats
    <2>3. \A i \in Dds : dd'[i].pos = dd[i].pos /\ (dd'[i].st = dd[i].st \/ dd'[i].st = "killed")
      BY <1>0, <2>1 DEF Processes
    <2> QED BY <1>0, <2>1, <2>2, <2>3 DEF drive
  <1>5. CASE OpenDd
    <2>1. /\ UNCHANGED <<success, drive>>
          /\ stack' = [stack EXCEPT ![Len(stack)] = [child |-> opened + 1, at |-> "sleep"]]
      BY <1>5 DEF OpenDd
    <2>2. Formats' => Formats
      BY <1>0, <2>1 DEF Formats
    <2>3. \A i \in 1 .. opened : i \in 1 .. opened' /\ dd'[i] = dd[i]
      BY <1>0, <1>5, OpenDds
    <2>4. Formats' => \E i \in 1 .. opened' : Ended(i)'
      BY <2>2, <2>3
    <2>5. \A i \in Dds : dd'[i].pos <= zeroed' /\ (dd'[i].st = "done" => dd'[i].pos = Blocks)
      BY <1>5, <2>1, OpenDds DEF drive
    <2>6. DriveUsable'
      <3>1. opened' = 1 => ~success
        BY <1>0, <1>5, OpenDds DEF Formats
      <3> QED BY <2>1, <3>1
    <2> QED BY <2>1, <2>4, <2>5, <2>6 DEF drive
  <1>6. CASE Activation /\ ~OpenDd
    <2>1. opened' = opened /\ zeroed' = zeroed /\ UNCHANGED <<mounted, stained>>
      BY <1>6, ActivationDds DEF Activation, Sleep, Reap, Signal, SignalNobody, ReadCount,
         ReadEnd, Updated, Format, Shown, Return, drive
    <2>2. \A i \in Dds : dd'[i].pos <= zeroed' /\ (dd'[i].st = "done" => dd'[i].pos = Blocks)
      BY <1>6, <2>1, ActivationDds
    <2>3. \A i \in Dds : Ended(i) => Ended(i)'
      BY <1>6, ActivationDds
    <2>4. Formats' => \E i \in 1 .. opened' : Ended(i)'
      <3>1. CASE Reap
        <4>1. PICK i \in Dds : Ended(i)
          BY <3>1 DEF Reap, Waitable
        <4>2. i \in 1 .. opened
          BY <1>0, <4>1 DEF LastDdKnown
        <4> QED BY <1>0, <2>1, <2>3, <4>1, <4>2
      <3>2. CASE ~Reap
        BY <1>0, <1>6, <2>1, <2>3, <3>2, FormatsAfterReap
      <3> QED BY <3>1, <3>2
    <2>5. DriveUsable'
      <3>1. CASE Format
        <4>1. status' = "done" => formatted'
          BY <3>1, Zenon DEF Format
        <4> QED BY <2>1, <4>1
      <3>2. CASE ~Format
        <4>1. success' = success /\ formatted' = formatted /\ status' = status
          BY <1>6, <3>2 DEF Activation, Sleep, Reap, Signal, SignalNobody, ReadCount,
             ReadEnd, Updated, Shown, Return, drive
        <4> QED BY <2>1, <4>1
      <3> QED BY <3>1, <3>2
    <2> QED BY <2>1, <2>2, <2>4, <2>5
  <1>7. ASSUME NEW i \in Dds, DdStep(i) PROVE DdsBefore'
    <2>1. /\ UNCHANGED <<window, status, mounted, stained>> /\ Alive(i)
          /\ \A j \in Dds : j # i => dd'[j] = dd[j]
      BY <1>7, DdDds DEF DdStep, DdReady, DdWrite, DdAnswer, DdEnd, DdError, Ends, DdFrame
    <2>2. Formats' => Formats
      BY <2>1 DEF Formats, window
    <2>3. \A j \in Dds : Ended(j) => j # i /\ Ended(j)'
      BY <2>1 DEF Alive
    <2>4. Formats' => \E j \in 1 .. opened' : Ended(j)'
      BY <1>0, <2>1, <2>2, <2>3 DEF window
    <2>5. zeroed' >= zeroed /\ dd'[i].pos <= zeroed'
          /\ (dd'[i].st = "done" => dd'[i].pos = Blocks)
      <3>1. CASE DdWrite(i)
        <4>1. /\ dd[i].pos < Blocks /\ dd[i].st = "running"
              /\ dd' = [dd EXCEPT ![i].pos = @ + 1]
              /\ zeroed' = IF dd[i].pos + 1 > zeroed THEN dd[i].pos + 1 ELSE zeroed
          BY <3>1 DEF DdWrite
        <4>2. dd'[i].pos = dd[i].pos + 1 /\ dd'[i].st = "running"
          BY <1>0, <4>1 DEF Processes
        <4> QED BY <1>0, <4>1, <4>2
      <3>2. CASE ~DdWrite(i)
        <4>1. zeroed' = zeroed /\ dd'[i].pos = dd[i].pos
          BY <1>7, <3>2, DdDds DEF DdStep, DdReady, DdAnswer, DdEnd, DdError, Ends
        <4> QED BY <1>0, <1>7, <4>1, DdDds
      <3> QED BY <3>1, <3>2
    <2>6. \A j \in Dds : dd'[j].pos <= zeroed' /\ (dd'[j].st = "done" => dd'[j].pos = Blocks)
      <3> SUFFICES ASSUME NEW j \in Dds, j # i
                   PROVE  dd'[j].pos <= zeroed' /\ (dd'[j].st = "done" => dd'[j].pos = Blocks)
        BY <2>5
      <3>1. zeroed' \in Int
        BY <1>7, DdTyped DEF Typed, TypeOK
      <3> QED BY <1>0, <2>1, <2>5, <3>1
    <2>7. DriveUsable'
      <3> SUFFICES ASSUME success, status = "done", opened = 1 PROVE formatted'
        BY <2>1 DEF window
      <3>1. Ended(1) /\ i # 1 /\ formatted
        BY <2>3 DEF Formats
      <3>2. dd[i].st = "none"
        BY <1>0, <3>1 DEF LastDdKnown
      <3> QED BY <2>1, <3>2 DEF Alive
    <2> QED BY <2>1, <2>4, <2>6, <2>7
  <1> QED BY <1>1, <1>2, <1>3, <1>4, <1>5, <1>6, <1>7 DEF Next

LEMMA DdsKept == Spec => [](Typed /\ DdsBefore)
  <1>1. Init => LastDdKnown /\ DdsBefore
    <2> SUFFICES ASSUME Init PROVE LastDdKnown /\ DdsBefore
      OBVIOUS
    <2>1. stack = <<>> /\ success = FALSE /\ opened = 0 /\ zeroed = 0 /\ gone = FALSE
          /\ stained = FALSE /\ \A i \in Dds : dd[i].pos = 0 /\ dd[i].st = "none"
      BY DEF Init
    <2> QED BY <2>1, WipeAssumption DEF LastDdKnown, DdsBefore, Formats, DriveUsable
  <1> QED BY <1>1, LastDdStep, DdsBeforeStep, TypesKept, PTL DEF Spec

(* The message is true of a drive that umount has freed if no dd came to   *)
(* an early end, whatever activations were nested.                         *)
THEOREM MessageTrue == Spec => []ErasedBarMishap
  <1>1. Typed /\ DdsBefore => ErasedBarMishap
    <2> SUFFICES ASSUME Typed, DdsBefore, success, ~mounted,
                        \A i \in 1 .. opened : dd[i].st \notin {"failed", "killed"}
                 PROVE  zeroed = Blocks /\ ~stained
      BY DEF ErasedBarMishap
    <2>1. PICK i \in 1 .. opened : dd[i].st = "done"
      BY DEF DdsBefore, Formats, Ended
    <2>2. i \in Dds /\ zeroed \in 0 .. Blocks /\ Blocks \in Nat
      BY WipeAssumption DEF Typed, TypeOK, Dds
    <2> QED BY <2>1, <2>2 DEF DdsBefore
  <1> QED BY <1>1, DdsKept, PTL

(* With one press of the button, the drive that is shown as wiped holds    *)
(* the file system of mkdosfs if mkdosfs has not failed.                   *)
THEOREM WipedUsable == Spec => []DriveUsable
  <1>1. DdsBefore => DriveUsable
    BY DEF DdsBefore
  <1> QED BY <1>1, DdsKept, PTL
=============================================================================

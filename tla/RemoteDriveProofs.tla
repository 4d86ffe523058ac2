--------------------------- MODULE RemoteDriveProofs ---------------------------
(***************************************************************************)
(* The telematics unit and the ASPM together: what the session's handlers, *)
(* the loops and time preserve, for every set of maneuvers the client asks *)
(* for, every length of a maneuver, of the dead man's handle and of a      *)
(* press, and however much the client does between two ticks.              *)
(***************************************************************************)
EXTENDS RemoteDrive, AspTurnProofs

Sessions == {"accept", "idle", "threatWait", "listWait", "resetWait", "initWait", "cancelWait"}
Views == [status : Statuses, confirm : {"None", "OfferEnabled"}, resume : {"None", "OfferEnabled"},
          progress : 0..Complete, active : Actives]

\* The session thread, with the request it serves; a reset is for a maneuver.
SessionInv ==
    /\ session \in Sessions /\ asleep \in BOOLEAN /\ authenticated \in BOOLEAN
    /\ attempts \in 0..MaxAttempts /\ asked \in Asked \cup {NoManeuver}
    /\ session = "resetWait" => asked \in Asked
    /\ approval \in {"NoDevice", "NotAllowedDevice", "AllowedDevice"}
    /\ done \in 0..Burst

TcmInv == tcm \in TcmSignals /\ buttonStart \in 0..TimerWrap

\* A valid input is sent only while the client holds the handle, and the handle's
\* clock in a maneuvering ASPM is no younger than its release, unless the vehicle
\* was forgotten.
HandleInv ==
    /\ released \in 0..DmhTicks + 2 /\ stood \in 0..Forgotten
    /\ tcm.input = "ValidScrnInput" => released = 0
    /\ Fresh(asp, stood)
    /\ asp.status = "Maneuvering" /\ stood < Forgotten => released <= asp.dmhStart

\* What was last decoded is at most one turn old, and one turn does not begin a
\* maneuver and drive it twice.
SeenInv ==
    /\ link # "waiting" => asp.progress = 0 \/ view.status = asp.status
    /\ asp.status \in Begun /\ asp.progress > 1 => view.status \in Begun

IInv ==
    /\ SessionInv /\ TcmInv /\ AspInv(asp) /\ view \in Views
    /\ link \in {"ready", "waiting", "asleep"}
    /\ HandleInv /\ SeenInv

-----------------------------------------------------------------------------
(* What the handlers write.                                                 *)

LEMMA SignalsType ==
  ASSUME NEW a, AspInv(a)
  PROVE  Signals(a) \in Views /\ Signals(a).status = a.status
  BY DEF Signals, Views, AspInv, Consistent, AspStates

LEMMA PressType ==
  ASSUME TcmInv, NEW button \in Buttons, Press(button)
  PROVE  TcmInv' /\ tcm'.input = tcm.input
<1>1. tcm' \in TcmSignals /\ tcm'.input = tcm.input
  BY DEF TcmInv, Press, TcmSignals
<1>2. buttonStart' \in 0..TimerWrap
  BY Values DEF Press
<1>3. QED
  BY <1>1, <1>2 DEF TcmInv

LEMMA MenuType ==
  ASSUME TcmInv, NEW mode \in Modes, LoadMenu(mode)
  PROVE  TcmInv' /\ tcm'.input = "NoScrnInput"
<1>1. tcm' \in TcmSignals /\ tcm'.input = "NoScrnInput"
  BY DEF TcmInv, LoadMenu, TcmSignals, Buttons, Inputs
<1>2. buttonStart' \in 0..TimerWrap
  BY Values DEF LoadMenu
<1>3. QED
  BY <1>1, <1>2 DEF TcmInv

LEMMA SelectType ==
  ASSUME TcmInv, NEW m \in Asked, Select(m)
  PROVE  TcmInv' /\ tcm'.input = "NoScrnInput"
<1>1. CASE m = ReturnToOrigin
  <2>1. tcm' = [tcm EXCEPT !.button = "ReturnToStart", !.mode = "NoMode", !.input = "NoScrnInput"]
        /\ buttonStart' = 1
    BY <1>1 DEF Select
  <2>2. tcm' \in TcmSignals /\ tcm'.input = "NoScrnInput"
    BY <2>1 DEF TcmInv, TcmSignals, Buttons, Inputs, Modes
  <2>3. QED
    BY <2>1, <2>2, Values DEF TcmInv
<1>2. CASE m # ReturnToOrigin
  <2>1. m \in Maneuvers
    BY <1>2, DriveAssumption
  <2>2. ModeOf(m) \in Modes /\ InputSignals(m) \in Selections
    BY <2>1, Selected
  <2>3. tcm' = [tcm EXCEPT !.mode = ModeOf(m), !.select = InputSignals(m), !.input = "NoScrnInput"]
        /\ buttonStart' = buttonStart
    BY <1>2 DEF Select
  <2>4. tcm' \in TcmSignals /\ tcm'.input = "NoScrnInput"
    BY <2>2, <2>3 DEF TcmInv, TcmSignals, Inputs
  <2>5. QED
    BY <2>3, <2>4 DEF TcmInv
<1>3. QED
  BY <1>1, <1>2

LEMMA GestureType ==
  ASSUME TcmInv, NEW gesture \in BOOLEAN, UpdateDMH(gesture)
  PROVE  TcmInv' /\ (tcm'.input = "ValidScrnInput" => gesture)
<1> DEFINE input == IF gesture THEN "ValidScrnInput" ELSE "NoScrnInput"
           button == CASE view.status = "Interrupted" -> "ResumeSelected"
                       [] view.status = "Selecting"   -> "ConfirmationSelected"
                       [] OTHER                       -> tcm.button
<1>1. input \in Inputs /\ (input = "ValidScrnInput" => gesture)
  BY DEF Inputs
<1>2. button \in Buttons
  BY DEF Buttons, TcmInv, TcmSignals
<1>3. tcm' = [tcm EXCEPT !.input = input, !.button = button]
  BY DEF UpdateDMH, TcmInv, TcmSignals
<1>4. buttonStart' \in 0..TimerWrap
  BY Values DEF UpdateDMH, TcmInv
<1> HIDE DEF input, button
<1>5. tcm' \in TcmSignals /\ tcm'.input = input
  BY <1>1, <1>2, <1>3 DEF TcmInv, TcmSignals
<1>6. QED
  BY <1>1, <1>4, <1>5 DEF TcmInv

LEMMA ReadBack ==
  ASSUME TcmInv, NEW active, getManeuverFromASP(active) # NoManeuver
  PROVE  InputSignals(getManeuverFromASP(active)) \in Selections
<1>1. getManeuverFromASP(active) \in Maneuvers
  BY DEF getManeuverFromASP
<1>2. QED
  BY <1>1, Selected

-----------------------------------------------------------------------------
(* A step of the session thread or of its client.                           *)

\* What such a step has to leave in order; the ASPM and what was decoded of it
\* are as they were.
Orderly ==
    /\ UNCHANGED linkVars
    /\ SessionInv' /\ TcmInv'
    /\ released' \in {0, released, LetGo}
    /\ tcm'.input = "ValidScrnInput" => released' = 0

LEMMA OrderlyInv == IInv /\ Orderly => IInv'
<1> SUFFICES ASSUME IInv, Orderly PROVE IInv'
  OBVIOUS
<1>1. asp' = asp /\ view' = view /\ link' = link /\ stood' = stood
  BY DEF Orderly, linkVars
<1>2. released \in 0..DmhTicks + 2 /\ asp.dmhStart \in Nat /\ DmhTicks \in Nat
  BY AspAssumption DEF IInv, HandleInv, AspInv, Consistent, AspStates
<1>3. released' \in 0..DmhTicks + 2
  BY <1>2 DEF Orderly, LetGo
<1>4. HandleInv'
  <2>1. ASSUME asp.status = "Maneuvering", stood < Forgotten
        PROVE  released' <= asp.dmhStart
    <3>1. asp.dmhStart >= 1 /\ released <= asp.dmhStart
      BY <1>2, <2>1 DEF IInv, HandleInv, Fresh
    <3>2. QED
      BY <1>2, <3>1 DEF Orderly, LetGo
  <2>2. QED
    BY <1>1, <1>3, <2>1 DEF Orderly, IInv, HandleInv, Fresh
<1>5. SeenInv'
  BY <1>1 DEF IInv, SeenInv
<1>6. QED
  BY <1>1, <1>4, <1>5 DEF IInv, Orderly

\* What the sessions have in common when they leave signals and handle alone.
LEMMA Untouched ==
  ASSUME IInv, SessionInv', UNCHANGED linkVars, UNCHANGED tcmVars, released' = released
  PROVE  Orderly
<1>1. tcm' = tcm /\ buttonStart' = buttonStart
  BY DEF tcmVars
<1>2. TcmInv'
  BY <1>1 DEF IInv, TcmInv
<1>3. QED
  BY <1>1, <1>2 DEF Orderly, IInv, HandleInv

\* ... and when they withdraw the input.
LEMMA Withdrawn ==
  ASSUME SessionInv', UNCHANGED linkVars, TcmInv', tcm'.input = "NoScrnInput",
         released' \in {released, LetGo}
  PROVE  Orderly
  BY DEF Orderly

\* ... and when they keep it.
LEMMA InputKept ==
  ASSUME IInv, SessionInv', UNCHANGED linkVars, TcmInv', tcm'.input = tcm.input, released' = released
  PROVE  Orderly
  BY DEF Orderly, IInv, HandleInv

LEMMA ConnectionStep ==
  ASSUME IInv, done' \in 0..Burst, Connect \/ Disconnect \/ SendPin
  PROVE  Orderly
<1>1. TRUE \in BOOLEAN /\ FALSE \in BOOLEAN /\ Verdicts \subseteq BOOLEAN
  BY DriveAssumption
<1>2. SessionInv' /\ UNCHANGED linkVars
  <2>1. CASE Connect
    BY <2>1 DEF Connect, Goes, KeepsRequest, IInv, SessionInv, Sessions
  <2>2. CASE Disconnect
    BY <2>2 DEF Disconnect, Goes, KeepsRequest, IInv, SessionInv, Sessions
  <2>3. CASE SendPin
    BY <1>1, <2>3 DEF SendPin, Goes, KeepsRequest, IInv, SessionInv, Sessions
  <2>4. QED
    BY <2>1, <2>2, <2>3
<1>3. UNCHANGED tcmVars /\ released' = released
  BY DEF Connect, Disconnect, SendPin
<1>4. QED
  BY <1>2, <1>3, Untouched

LEMMA MobileInitStep ==
  ASSUME IInv, done' \in 0..Burst, MobileInit
  PROVE  Orderly
<1>1. SessionInv' /\ UNCHANGED linkVars
  BY DEF MobileInit, Goes, KeepsRequest, IInv, SessionInv, Sessions
<1>2. released' = released
  BY DEF MobileInit
<1>3. CASE LoadMenu("RCMainMenu")
  <2>1. TcmInv' /\ tcm'.input = "NoScrnInput"
    BY <1>3, MenuType DEF IInv, Modes
  <2>2. QED
    BY <1>1, <1>2, <2>1, Withdrawn
<1>4. CASE UNCHANGED tcmVars
  BY <1>1, <1>2, <1>4, Untouched
<1> DEFINE active == getManeuverFromASP(view.active)
           select == IF active = NoManeuver THEN tcm.select ELSE InputSignals(active)
<1>5. CASE /\ tcm' = [tcm EXCEPT !.mode = "RCParkIn", !.input = "NoScrnInput", !.select = select]
           /\ buttonStart' = buttonStart
  <2>1. select \in Selections
    BY ReadBack DEF IInv, TcmInv, TcmSignals
  <2> HIDE DEF select
  <2>2. tcm' \in TcmSignals /\ tcm'.input = "NoScrnInput"
    BY <1>5, <2>1 DEF IInv, TcmInv, TcmSignals, Modes, Inputs
  <2>3. TcmInv'
    BY <1>5, <2>2 DEF IInv, TcmInv
  <2>4. QED
    BY <1>1, <1>2, <2>2, <2>3, Withdrawn
<1>6. \/ LoadMenu("RCMainMenu") \/ UNCHANGED tcmVars
      \/ /\ tcm' = [tcm EXCEPT !.mode = "RCParkIn", !.input = "NoScrnInput", !.select = select]
         /\ buttonStart' = buttonStart
  <2>1. tcm \in TcmSignals
    BY DEF IInv, TcmInv
  <2>2. QED
    BY <2>1 DEF MobileInit, TcmSignals
<1>7. QED
  BY <1>3, <1>4, <1>5, <1>6

\* get_threat_data and list_maneuvers, the loops they wait in, and cancel_drive_on
LEMMA RequestStep ==
  ASSUME IInv, done' \in 0..Burst,
         GetThreatData \/ ListManeuvers \/ CancelDriveOn \/ CancelManeuver
         \/ ThreatWait \/ ListWait \/ CancelWait
  PROVE  Orderly
<1>1. SessionInv' /\ UNCHANGED linkVars
  <2>1. CASE GetThreatData
    BY <2>1 DEF GetThreatData, deviceVars, Goes, KeepsRequest, IInv, SessionInv, Sessions
  <2>2. CASE ListManeuvers
    BY <2>2 DEF ListManeuvers, deviceVars, Goes, KeepsRequest, IInv, SessionInv, Sessions
  <2>3. CASE CancelDriveOn \/ CancelManeuver
    BY <2>3 DEF CancelDriveOn, CancelManeuver, deviceVars, Goes, KeepsRequest, IInv, SessionInv, Sessions
  <2>4. CASE ThreatWait
    BY <2>4 DEF ThreatWait, deviceVars, Goes, KeepsRequest, IInv, SessionInv, Sessions
  <2>5. CASE ListWait
    BY <2>5 DEF ListWait, deviceVars, Goes, KeepsRequest, IInv, SessionInv, Sessions
  <2>6. CASE CancelWait
    BY <2>6 DEF CancelWait, deviceVars, Goes, KeepsRequest, IInv, SessionInv, Sessions
  <2>7. QED
    BY <2>1, <2>2, <2>3, <2>4, <2>5, <2>6
<1>2. released' = released
  BY DEF GetThreatData, ListManeuvers, CancelDriveOn, CancelManeuver, ThreatWait, ListWait, CancelWait, deviceVars
<1>3. \/ UNCHANGED tcmVars
      \/ LoadMenu("RCMainMenu") \/ LoadMenu("RCParkOutSpaceSlctn")
      \/ Press("ResumeSelected") \/ Press("CancellationSelected")
  BY DEF GetThreatData, ListManeuvers, CancelDriveOn, CancelManeuver, ThreatWait, ListWait, CancelWait
<1>4. CASE UNCHANGED tcmVars
  BY <1>1, <1>2, <1>4, Untouched
<1>5. CASE LoadMenu("RCMainMenu") \/ LoadMenu("RCParkOutSpaceSlctn")
  <2>1. TcmInv' /\ tcm'.input = "NoScrnInput"
    BY <1>5, MenuType DEF IInv, Modes
  <2>2. QED
    BY <1>1, <1>2, <2>1, Withdrawn
<1>6. CASE Press("ResumeSelected") \/ Press("CancellationSelected")
  <2>1. TcmInv' /\ tcm'.input = tcm.input
    BY <1>6, PressType DEF IInv, Buttons
  <2>2. QED
    BY <1>1, <1>2, <2>1, InputKept
<1>7. QED
  BY <1>3, <1>4, <1>5, <1>6

LEMMA ManeuverInitStep ==
  ASSUME IInv, done' \in 0..Burst, NEW m \in Asked, ManeuverInit(m)
  PROVE  Orderly
<1>1. SessionInv' /\ UNCHANGED linkVars
  <2>1. attempts' = 0 /\ asked' = m /\ approval' = approval /\ authenticated' = authenticated
    BY DEF ManeuverInit
  <2>2. session' \in {"initWait", "resetWait"} /\ asleep' = FALSE /\ UNCHANGED linkVars
    BY DEF ManeuverInit, Goes
  <2>3. attempts' \in 0..MaxAttempts
    BY <2>1, DriveAssumption
  <2>4. session' \in Sessions /\ asleep' \in BOOLEAN
    BY <2>2 DEF Sessions
  <2>5. QED
    BY <2>1, <2>2, <2>3, <2>4 DEF IInv, SessionInv
<1>2. released' = LetGo
  BY DEF ManeuverInit
<1>3. TcmInv' /\ tcm'.input = "NoScrnInput"
  <2>1. CASE Select(m)
    BY <2>1, SelectType DEF IInv
  <2>2. CASE LoadMenu("RCParkOutSpaceSlctn")
    BY <2>2, MenuType DEF IInv, Modes
  <2>3. QED
    BY <2>1, <2>2 DEF ManeuverInit
<1>4. QED
  BY <1>1, <1>2, <1>3, Withdrawn

LEMMA DeadmansHandleStep ==
  ASSUME IInv, done' \in 0..Burst, NEW gesture \in BOOLEAN, DeadmansHandle(gesture)
  PROVE  Orderly
<1>1. SessionInv' /\ UNCHANGED linkVars
  BY DEF DeadmansHandle, Goes, KeepsRequest, IInv, SessionInv, Sessions
<1>2. TcmInv' /\ (tcm'.input = "ValidScrnInput" => gesture)
  BY GestureType DEF DeadmansHandle, IInv
<1>3. released' = IF gesture THEN 0 ELSE LetGo
  BY DEF DeadmansHandle
<1>4. QED
  BY <1>1, <1>2, <1>3 DEF Orderly

LEMMA InitWaitStep ==
  ASSUME IInv, done' \in 0..Burst, ResetWait \/ InitWait
  PROVE  Orderly
<1>1. CASE ResetWait
  <2>1. SessionInv' /\ UNCHANGED linkVars /\ released' = released
    BY <1>1 DEF ResetWait, deviceVars, Goes, KeepsRequest, IInv, SessionInv, Sessions
  <2>2. CASE UNCHANGED tcmVars
    BY <2>1, <2>2, Untouched
  <2>3. CASE Select(asked)
    <3>1. asked \in Asked
      BY <1>1 DEF ResetWait, Goes, IInv, SessionInv
    <3>2. TcmInv' /\ tcm'.input = "NoScrnInput"
      BY <2>3, <3>1, SelectType DEF IInv
    <3>3. QED
      BY <2>1, <3>2, Withdrawn
  <2>4. QED
    BY <1>1, <2>2, <2>3 DEF ResetWait
<1>2. CASE InitWait
  <2>1. attempts' \in 0..MaxAttempts
    <3>1. attempts \in 0..MaxAttempts /\ MaxAttempts \in Nat
      BY DriveAssumption DEF IInv, SessionInv
    <3>2. (attempts < MaxAttempts /\ attempts' = attempts + 1) \/ attempts' = 0
      BY <1>2 DEF InitWait
    <3>3. QED
      BY <3>1, <3>2
  <2>2. asked' \in Asked \cup {NoManeuver}
    BY <1>2 DEF InitWait, IInv, SessionInv
  <2>3. session' \in {"initWait", "idle"} /\ asleep' \in BOOLEAN
    BY <1>2 DEF InitWait, Goes
  <2>4. UNCHANGED linkVars /\ UNCHANGED deviceVars /\ UNCHANGED tcmVars
    BY <1>2 DEF InitWait, Goes
  <2>5. approval' = approval /\ authenticated' = authenticated /\ released' = released
    BY <2>4 DEF deviceVars
  <2>6. SessionInv'
    BY <2>1, <2>2, <2>3, <2>5 DEF IInv, SessionInv, Sessions
  <2>7. QED
    BY <2>4, <2>5, <2>6, Untouched
<1>3. QED
  BY <1>1, <1>2

LEMMA SessionStepInv ==
  ASSUME IInv, Client \/ WaitStep
  PROVE  IInv' /\ asp' = asp
<1>1. done' \in 0..Burst
  BY DriveAssumption DEF Client, WaitStep, IInv, SessionInv
<1>2. Orderly
  BY <1>1, ConnectionStep, MobileInitStep, RequestStep, ManeuverInitStep, DeadmansHandleStep, InitWaitStep
     DEF Client, WaitStep
<1>3. QED
  BY <1>2, OrderlyInv DEF Orderly, linkVars

-----------------------------------------------------------------------------
(* The start, the loops and time.                                           *)

LEMMA InitInv == Init => IInv
<1> SUFFICES ASSUME Init PROVE IInv
  OBVIOUS
<1>1. PICK m \in Preferred : asp = Built(m)
  BY DEF Init
<1>2. AspInv(asp) /\ asp.status # "Maneuvering" /\ asp.progress = 0
  BY <1>1, BuiltInv, AspAssumption
<1>3. view \in Views
  BY BuiltInv, SignalsType DEF Init
<1>4. SessionInv
  <2>1. attempts \in 0..MaxAttempts /\ done \in 0..Burst
    BY DriveAssumption DEF Init
  <2>2. QED
    BY <2>1 DEF Init, SessionInv, Sessions
<1>5. TcmInv
  <2>1. NoSelection \in Selections
    BY DEF NoSelection, Selections
  <2>2. tcm \in TcmSignals
    BY <2>1 DEF Init, TcmSignals, Modes, Buttons, Inputs
  <2>3. QED
    BY <2>2, Values DEF Init, TcmInv
<1>6. HandleInv
  BY <1>2, AspAssumption DEF Init, HandleInv, Fresh, Forgotten
<1>7. SeenInv
  BY <1>2 DEF SeenInv
<1>8. link = "ready"
  BY DEF Init
<1>9. QED
  BY <1>2, <1>3, <1>4, <1>5, <1>6, <1>7, <1>8 DEF IInv

LEMMA ExchangeInv ==
  ASSUME IInv, Exchange
  PROVE  IInv' /\ (Advances(asp, asp') => released <= DmhTicks + 1 \/ stood = Forgotten)
<1> DEFINE d == [mode |-> tcm.mode, button |-> tcm.button, input |-> tcm.input,
                 select |-> tcm.select, reply |-> "unchecked"]
<1>1. d.mode \in Modes /\ d.select \in Selections /\ d.reply \in Replies /\ d.input = tcm.input
  BY DEF IInv, TcmInv, TcmSignals, Replies
<1>2. asp' = Turn(asp, d)
  BY DEF Exchange
<1> HIDE DEF d
<1>3. /\ AspInv(asp') /\ Handles(asp, asp', tcm.input)
      /\ asp'.progress > 1 => asp.progress > 0 /\ (asp'.status \in Begun => asp.status \in Begun)
  BY <1>1, <1>2, TurnInv DEF IInv
<1>4. /\ released \in 0..DmhTicks + 2 /\ asp.dmhStart \in Nat /\ DmhTicks \in Nat
      /\ stood \in 0..Forgotten /\ Forgotten \in Nat /\ asp \in AspStates
  BY AspAssumption DEF IInv, HandleInv, AspInv, Consistent, AspStates, Forgotten
<1>5. Advances(asp, asp') => released <= DmhTicks + 1 \/ stood = Forgotten
  <2> SUFFICES ASSUME Advances(asp, asp'), stood < Forgotten
               PROVE  released <= DmhTicks + 1
    BY <1>4
  <2>1. CASE tcm.input = "ValidScrnInput"
    BY <1>4, <2>1 DEF IInv, HandleInv
  <2>2. CASE asp.status = "Maneuvering" /\ asp.dmhStart \in 1..DmhTicks + 1
    <3>1. released <= asp.dmhStart
      BY <2>2 DEF IInv, HandleInv
    <3>2. QED
      BY <1>4, <2>2, <3>1
  <2>3. QED
    BY <1>3, <2>1, <2>2 DEF Handles
<1>6. /\ session' = session /\ asleep' = asleep /\ attempts' = attempts /\ asked' = asked
      /\ approval' = approval /\ authenticated' = authenticated /\ released' = released
      /\ tcm' = tcm /\ buttonStart' = buttonStart /\ view' = view /\ done' = done
      /\ link = "ready" /\ link' = "waiting"
  BY DEF Exchange, sessionVars, deviceVars, tcmVars
<1>7. SessionInv' /\ TcmInv'
  BY <1>6 DEF IInv, SessionInv, TcmInv
<1>8. HandleInv'
  <2>1. stood' = StoodAfter(asp, asp', tcm.input, stood)
    BY DEF Exchange
  <2>2. stood' \in 0..Forgotten /\ Fresh(asp', stood')
    BY <1>3, <1>4, <2>1, FreshTurn DEF IInv, HandleInv
  <2>3. ASSUME asp'.status = "Maneuvering", stood' < Forgotten
        PROVE  released <= asp'.dmhStart
    <3>1. CASE tcm.input = "ValidScrnInput"
      <4>1. released = 0 /\ asp'.dmhStart \in Nat
        BY <1>3, <3>1, AspAssumption DEF IInv, HandleInv, AspInv, Consistent, AspStates
      <4>2. QED
        BY <4>1
    <3>2. CASE tcm.input # "ValidScrnInput"
      <4>1. asp.status = "Maneuvering" /\ asp'.dmhStart = asp.dmhStart
        BY <1>3, <2>3, <3>2 DEF Handles
      <4>2. stood < Forgotten
        BY <1>4, <2>1, <2>3, <3>2 DEF StoodAfter
      <4>3. QED
        BY <4>1, <4>2 DEF IInv, HandleInv
    <3>3. QED
      BY <3>1, <3>2
  <2>4. QED
    BY <1>6, <2>2, <2>3 DEF IInv, HandleInv
<1>9. SeenInv'
  <2>1. asp.progress \in Nat
    BY AspAssumption DEF IInv, AspInv, Consistent, AspStates
  <2>2. asp.progress > 0 => view.status = asp.status
    BY <1>6, <2>1 DEF IInv, SeenInv
  <2>3. asp'.status \in Begun /\ asp'.progress > 1 => view.status \in Begun
    BY <1>3, <2>2
  <2>4. QED
    BY <1>6, <2>3 DEF SeenInv
<1>10. IInv'
  BY <1>3, <1>6, <1>7, <1>8, <1>9 DEF IInv
<1>11. QED
  BY <1>5, <1>10

LEMMA DecodeInv ==
  ASSUME IInv, Decode
  PROVE  IInv' /\ asp' = asp
<1>1. /\ session' = session /\ asleep' = asleep /\ attempts' = attempts /\ asked' = asked
      /\ approval' = approval /\ authenticated' = authenticated /\ released' = released
      /\ tcm' = tcm /\ buttonStart' = buttonStart /\ asp' = asp /\ done' = done /\ stood' = stood
      /\ view' = Signals(asp) /\ link' = "asleep"
  BY DEF Decode, sessionVars, deviceVars, tcmVars
<1>2. view' \in Views /\ view'.status = asp.status
  BY <1>1, SignalsType DEF IInv
<1>3. QED
  BY <1>1, <1>2 DEF IInv, SessionInv, TcmInv, HandleInv, Fresh, SeenInv

LEMMA ReleaseInv ==
  ASSUME IInv, ReleaseButton
  PROVE  IInv' /\ asp' = asp
<1>1. /\ session' = session /\ asleep' = asleep /\ attempts' = attempts /\ asked' = asked
      /\ approval' = approval /\ authenticated' = authenticated /\ released' = released
      /\ tcm' = [tcm EXCEPT !.button = "None"] /\ buttonStart' = 0
      /\ asp' = asp /\ stood' = stood /\ done' = done /\ view' = view /\ link' = link
  BY DEF ReleaseButton, sessionVars, deviceVars, linkVars
<1>2. tcm' \in TcmSignals /\ tcm'.input = tcm.input
  BY <1>1 DEF IInv, TcmInv, TcmSignals, Buttons
<1>3. buttonStart' \in 0..TimerWrap
  BY <1>1, Values
<1>4. QED
  BY <1>1, <1>2, <1>3 DEF IInv, SessionInv, TcmInv, HandleInv, Fresh, SeenInv

LEMMA TickInv ==
  ASSUME IInv, Tick
  PROVE  IInv' /\ asp'.progress = asp.progress
<1>1. /\ session' = session /\ attempts' = attempts /\ asked' = asked
      /\ approval' = approval /\ authenticated' = authenticated
      /\ tcm' = tcm /\ view' = view
      /\ link' = "ready" /\ asleep' = FALSE /\ done' = 0 /\ link # "waiting"
      /\ buttonStart' = Older(buttonStart) /\ stood' = StoodLonger(asp, stood)
      /\ released' = IF released \in {0, DmhTicks + 2} THEN released ELSE released + 1
      /\ asp' = Aged(asp)
  BY DEF Tick
<1>2. /\ AspInv(asp') /\ asp'.progress = asp.progress /\ asp'.status = asp.status
      /\ asp'.dmhStart = Older(asp.dmhStart)
  BY <1>1, AgedInv DEF IInv
<1>3. SessionInv'
  <2>1. done' \in 0..Burst
    BY <1>1, DriveAssumption
  <2>2. QED
    BY <1>1, <2>1 DEF IInv, SessionInv
<1>4. TcmInv'
  BY <1>1, OlderBound DEF IInv, TcmInv
<1>5. HandleInv'
  <2>1. released \in 0..DmhTicks + 2 /\ asp.dmhStart \in Nat /\ DmhTicks \in Nat /\ asp \in AspStates
    BY AspAssumption DEF IInv, HandleInv, AspInv, Consistent, AspStates
  <2>2. /\ stood' \in 0..Forgotten /\ Fresh(asp', stood')
        /\ asp.status = "Maneuvering" /\ stood' < Forgotten
             => stood < Forgotten /\ asp'.dmhStart = asp.dmhStart + 1
    BY <1>1, <1>2, <2>1, FreshTick DEF IInv, HandleInv
  <2>3. released' \in 0..DmhTicks + 2 /\ (released = 0 => released' = 0) /\ released' <= released + 1
    BY <1>1, <2>1
  <2>4. asp'.status = "Maneuvering" /\ stood' < Forgotten => released' <= asp'.dmhStart
    <3> SUFFICES ASSUME asp'.status = "Maneuvering", stood' < Forgotten
                 PROVE  released' <= asp'.dmhStart
      OBVIOUS
    <3>1. asp'.dmhStart = asp.dmhStart + 1 /\ released <= asp.dmhStart
      BY <1>2, <2>2 DEF IInv, HandleInv
    <3>2. QED
      BY <2>1, <2>3, <3>1
  <2>5. QED
    BY <1>1, <2>2, <2>3, <2>4 DEF IInv, HandleInv
<1>6. SeenInv'
  BY <1>1, <1>2 DEF IInv, SeenInv
<1>7. QED
  BY <1>1, <1>2, <1>3, <1>4, <1>5, <1>6 DEF IInv

\* The vehicle advances in no step but an exchange.
LEMMA StepInv ==
  ASSUME IInv, [Next]_vars
  PROVE  IInv' /\ (Advances(asp, asp') => released <= DmhTicks + 1 \/ stood = Forgotten)
<1>1. asp.progress \in Nat
  BY AspAssumption DEF IInv, AspInv, Consistent, AspStates
<1>2. CASE Client \/ WaitStep
  BY <1>1, <1>2, SessionStepInv DEF Advances
<1>3. CASE Exchange
  BY <1>3, ExchangeInv
<1>4. CASE Decode
  BY <1>1, <1>4, DecodeInv DEF Advances
<1>5. CASE ReleaseButton
  BY <1>1, <1>5, ReleaseInv DEF Advances
<1>6. CASE Tick
  <2>1. IInv' /\ asp'.progress = asp.progress
    BY <1>6, TickInv
  <2>2. QED
    BY <1>1, <2>1 DEF Advances
<1>7. CASE UNCHANGED vars
  <2>1. /\ session' = session /\ asleep' = asleep /\ attempts' = attempts /\ asked' = asked
        /\ approval' = approval /\ authenticated' = authenticated /\ released' = released
        /\ tcm' = tcm /\ buttonStart' = buttonStart /\ asp' = asp /\ done' = done
        /\ view' = view /\ link' = link /\ stood' = stood
    BY <1>7 DEF vars, sessionVars, deviceVars, tcmVars, linkVars
  <2>2. QED
    BY <1>1, <2>1 DEF IInv, SessionInv, TcmInv, HandleInv, Fresh, SeenInv, Advances
<1>8. QED
  BY <1>2, <1>3, <1>4, <1>5, <1>6, <1>7 DEF Next, Loops

-----------------------------------------------------------------------------
(* The results.                                                             *)

\* The inductive invariant of the telematics unit with its ASPM.
THEOREM Invariant == Spec => []IInv
<1>1. Init => IInv
  BY InitInv
<1>2. IInv /\ [Next]_vars => IInv'
  BY StepInv
<1>3. QED
  BY <1>1, <1>2, PTL DEF Spec

\* Every signal, clock and place of a thread keeps its type.
THEOREM TypeCorrect == Spec => []TypeOK
<1>1. IInv => TypeOK
  BY DEF IInv, SessionInv, Sessions, TcmInv, HandleInv, AspInv, Consistent, Views, TypeOK
<1>2. QED
  BY <1>1, Invariant, PTL

\* Whatever the client does between two ticks, and wherever its requests fall in
\* an exchange, the vehicle no longer advances once the time of the dead man's
\* handle has passed since the client let go (updateDMH_, maneuver_init), unless it
\* stood in Maneuvering without an exchange until the age of the handle's clock
\* wrapped.
THEOREM StopsInTime == Spec => StopsAfterRelease
<1>1. IInv /\ [Next]_vars => [Advances(asp, asp') => released <= DmhTicks + 1 \/ stood = Forgotten]_vars
  <2> SUFFICES ASSUME IInv, [Next]_vars
               PROVE  Advances(asp, asp') => released <= DmhTicks + 1 \/ stood = Forgotten
    OBVIOUS
  <2>1. QED
    BY StepInv
<1>2. QED
  BY <1>1, Invariant, PTL DEF Spec, StopsAfterRelease

\* What mobile_init last saw of the ASPM is at most one turn old, so that it
\* takes no vehicle that is under way for idle.
THEOREM InitLeavesDriven == Spec => DrivingOutlivesMobileInit
<1>1. IInv =>
        [MobileInit /\ tcm.mode # "RCMainMenu" /\ tcm'.mode = "RCMainMenu"
         => ~(asp.status = "Maneuvering" /\ asp.progress > 1)]_vars
  <2> SUFFICES ASSUME IInv, MobileInit, tcm.mode # "RCMainMenu", tcm'.mode = "RCMainMenu",
                      asp.status = "Maneuvering", asp.progress > 1
               PROVE  FALSE
    OBVIOUS
  <2>1. view.status \in Begun
    BY DEF IInv, SeenInv, Begun
  <2>2. InProgress
    BY <2>1 DEF InProgress, Begun
  <2>3. tcm'.mode # "RCMainMenu"
    <3>1. tcm \in TcmSignals
      BY DEF IInv, TcmInv
    <3>2. CASE UNCHANGED tcmVars
      BY <3>2 DEF tcmVars
    <3>3. CASE ~UNCHANGED tcmVars
      BY <2>2, <3>1, <3>3 DEF MobileInit, TcmSignals
    <3>4. QED
      BY <3>2, <3>3
  <2>4. QED
    BY <2>3
<1>2. QED
  BY <1>1, Invariant, PTL DEF DrivingOutlivesMobileInit

-----------------------------------------------------------------------------
(* The simulator under the telematics unit.  AspSimulator promises its      *)
(* properties for any sequence of datagrams; here it is fed by the signal   *)
(* loop, and what it promises holds of it.                                  *)

VARIABLE gesture

\* RemoteDrive with the history that AspSimulator keeps: the ticks since a
\* datagram last held a valid gesture.
HistoryInit == Init /\ gesture = DmhTicks + 1
HistoryNext ==
    \/ (Client \/ WaitStep \/ Decode \/ ReleaseButton) /\ UNCHANGED gesture
    \/ Exchange /\ gesture' = IF tcm.input = "ValidScrnInput" THEN 0 ELSE gesture
    \/ Tick /\ gesture' = IF gesture > DmhTicks THEN gesture ELSE gesture + 1
HistorySpec == HistoryInit /\ [][HistoryNext]_<<vars, gesture>>

\* It is ready for any selection in any mode.
Simulator == INSTANCE AspSimulator WITH Sent <- Modes \X Selections

\* The instance has its own copy of the definitions of AspTurn.  The lemmas Same...
\* say that they are the same functions, from the parts of a turn to the whole.

\* Maneuvers, their signals and times.
LEMMA SameNames ==
  /\ Simulator!Maneuvers = Maneuvers /\ Simulator!ParkManeuvers = ParkManeuvers
  /\ Simulator!NoSelection = NoSelection /\ Simulator!Waiting = Waiting
  /\ \A m : Simulator!FamilyOf(m) = FamilyOf(m)
  /\ \A m : Simulator!Reversed(m) = Reversed(m)
  /\ \A dir : Simulator!OrientationOf(dir) = OrientationOf(dir)
  /\ \A m : Simulator!ModeOf(m) = ModeOf(m)
  /\ \A start, limit : Simulator!checkTimeout(start, limit) = checkTimeout(start, limit)
  /\ \A start : Simulator!Older(start) = Older(start)
<1>1. Simulator!ParkManeuvers = ParkManeuvers
  BY DEF ParkManeuvers, Simulator!ParkManeuvers
<1>2. Simulator!Maneuvers = Maneuvers
  BY <1>1 DEF Maneuvers, Simulator!Maneuvers
<1>3. Simulator!NoSelection = NoSelection /\ Simulator!Waiting = Waiting
  BY DEF NoSelection, Simulator!NoSelection, Waiting, Simulator!Waiting
<1>4. \A m : Simulator!FamilyOf(m) = FamilyOf(m)
  BY DEF FamilyOf, Simulator!FamilyOf
<1>5. \A m : Simulator!Reversed(m) = Reversed(m)
  BY DEF Reversed, Simulator!Reversed
<1>6. \A dir : Simulator!OrientationOf(dir) = OrientationOf(dir)
  BY DEF OrientationOf, Simulator!OrientationOf
<1>7. \A m : Simulator!ModeOf(m) = ModeOf(m)
  BY DEF ModeOf, Simulator!ModeOf
<1>8. \A start, limit : Simulator!checkTimeout(start, limit) = checkTimeout(start, limit)
  BY DEF checkTimeout, Simulator!checkTimeout
<1>9. \A start : Simulator!Older(start) = Older(start)
  BY DEF Older, Simulator!Older
<1>10. QED
  BY <1>1, <1>2, <1>3, <1>4, <1>5, <1>6, <1>7, <1>8, <1>9

LEMMA SameInputs == \A m : Simulator!InputSignals(m) = InputSignals(m)
  BY SameNames DEF InputSignals, Simulator!InputSignals

\* What a change of mode does.
LEMMA SameOffer ==
  /\ \A a, direction : Simulator!Explored(a, direction) = Explored(a, direction)
  /\ \A a, active : Simulator!Offer(a, active) = Offer(a, active)
  /\ \A a : Simulator!MainMenu(a) = MainMenu(a)
  /\ \A a : Simulator!SpaceSelection(a) = SpaceSelection(a)
<1>1. \A a, direction : Simulator!Explored(a, direction) = Explored(a, direction)
  BY DEF Explored, Simulator!Explored
<1>2. \A a, active : Simulator!Offer(a, active) = Offer(a, active)
  BY DEF Offer, Simulator!Offer
<1>3. \A a : Simulator!MainMenu(a) = MainMenu(a)
  BY DEF MainMenu, Simulator!MainMenu
<1>4. \A a : Simulator!SpaceSelection(a) = SpaceSelection(a)
  BY DEF SpaceSelection, Simulator!SpaceSelection
<1>5. QED
  BY <1>1, <1>2, <1>3, <1>4

LEMMA SameParkIn == \A a : Simulator!ParkIn(a) = ParkIn(a)
  BY SameNames, SameOffer DEF ParkIn, Simulator!ParkIn
LEMMA SameParkOut == \A a, s : Simulator!ParkOut(a, s) = ParkOut(a, s)
  BY SameOffer DEF ParkOut, Simulator!ParkOut
LEMMA SamePushPull == \A a, s : Simulator!PushPull(a, s) = PushPull(a, s)
  BY SameOffer DEF PushPull, Simulator!PushPull
LEMMA SameEnterMode == \A a, mode, s : Simulator!EnterMode(a, mode, s) = EnterMode(a, mode, s)
  BY SameOffer, SameParkIn, SameParkOut, SamePushPull DEF EnterMode, Simulator!EnterMode

\* The parts of a turn.
LEMMA SameSimple ==
  /\ \A a, reply : Simulator!checkResponse(a, reply) = checkResponse(a, reply)
  /\ \A a : Simulator!Cancel(a) = Cancel(a)
  /\ \A a : Simulator!EndManeuver(a) = EndManeuver(a)
  /\ \A a : Simulator!CanReturn(a) <=> CanReturn(a)
  /\ \A a : Simulator!ReturnToStart(a) = ReturnToStart(a)
  /\ \A a : Simulator!Finish(a) = Finish(a)
<1>1. \A a, reply : Simulator!checkResponse(a, reply) = checkResponse(a, reply)
  BY DEF checkResponse, Simulator!checkResponse
<1>2. \A a : Simulator!Cancel(a) = Cancel(a) /\ Simulator!EndManeuver(a) = EndManeuver(a)
  BY DEF Cancel, Simulator!Cancel, EndManeuver, Simulator!EndManeuver
<1>3. \A a : Simulator!CanReturn(a) <=> CanReturn(a)
  BY SameNames DEF CanReturn, Simulator!CanReturn
<1>4. \A a : Simulator!ReturnToStart(a) = ReturnToStart(a)
  BY SameNames, SameInputs, SameEnterMode DEF ReturnToStart, Simulator!ReturnToStart
<1>5. \A a : Simulator!Finish(a) = Finish(a)
  BY DEF Finish, Simulator!Finish
<1>6. QED
  BY <1>1, <1>2, <1>3, <1>4, <1>5

LEMMA SameScan == \A a : Simulator!Scan(a) = Scan(a)
<1>1. \A a : Simulator!StartScan(a) = StartScan(a)
  BY DEF StartScan, Simulator!StartScan
<1>2. \A a : Simulator!FinishScan(a) = FinishScan(a)
  BY SameNames DEF FinishScan, Simulator!FinishScan
<1>3. QED
  BY <1>1, <1>2, SameNames DEF Scan, Simulator!Scan

LEMMA SameDrive == \A a, button, input : Simulator!Drive(a, button, input) = Drive(a, button, input)
<1>1. \A a, button : Simulator!Confirm(a, button) = Confirm(a, button)
  BY SameNames DEF Confirm, Simulator!Confirm
<1>2. \A a, input : Simulator!StillManeuvering(a, input) <=> StillManeuvering(a, input)
  BY SameNames DEF StillManeuvering, Simulator!StillManeuvering
<1>3. \A a, input : Simulator!DmhAfter(a, input) = DmhAfter(a, input)
  BY SameNames DEF DmhAfter, Simulator!DmhAfter
<1>4. \A a : Simulator!Interrupt(a) = Interrupt(a) /\ Simulator!Maneuver(a) = Maneuver(a)
  BY DEF Interrupt, Simulator!Interrupt, Maneuver, Simulator!Maneuver
<1>5. QED
  BY <1>1, <1>2, <1>3, <1>4 DEF Drive, Simulator!Drive

LEMMA SameTurn == \A a, d : Simulator!Turn(a, d) = Turn(a, d)
<1>1. \A a, button, input :
        Simulator!updateSignalsAfterMsgFromTCM(a, button, input) = updateSignalsAfterMsgFromTCM(a, button, input)
  BY SameSimple, SameScan, SameDrive
     DEF updateSignalsAfterMsgFromTCM, Simulator!updateSignalsAfterMsgFromTCM
<1>2. \A a, mode, s : Simulator!setDeviceControlMode(a, mode, s) = setDeviceControlMode(a, mode, s)
  BY SameEnterMode DEF setDeviceControlMode, Simulator!setDeviceControlMode
<1>3. QED
  BY <1>1, <1>2, SameSimple DEF Turn, Simulator!Turn

LEMMA SameAged == \A a : Simulator!Aged(a) = Aged(a)
  BY SameNames DEF Aged, Simulator!Aged

\* How long it has stood is measured alike.
LEMMA SameStood ==
  /\ Simulator!Forgotten = Forgotten
  /\ \A a, b, input, ticks : Simulator!StoodAfter(a, b, input, ticks) = StoodAfter(a, b, input, ticks)
  /\ \A a, ticks : Simulator!StoodLonger(a, ticks) = StoodLonger(a, ticks)
<1>1. Simulator!Forgotten = Forgotten
  BY DEF Forgotten, Simulator!Forgotten
<1>2. \A a, b : Simulator!Advances(a, b) <=> Advances(a, b)
  BY DEF Advances, Simulator!Advances
<1>3. \A a, b, input, ticks : Simulator!StoodAfter(a, b, input, ticks) = StoodAfter(a, b, input, ticks)
  BY <1>1, <1>2 DEF StoodAfter, Simulator!StoodAfter
<1>4. \A a, ticks : Simulator!StoodLonger(a, ticks) = StoodLonger(a, ticks)
  BY <1>1 DEF StoodLonger, Simulator!StoodLonger
<1>5. QED
  BY <1>1, <1>3, <1>4

LEMMA SameBuilt == \A m : Simulator!Built(m) = Built(m)
  BY SameNames, SameEnterMode DEF Built, Simulator!Built

\* What the telematics unit sends is a datagram that the simulator is ready for.
LEMMA SentDatagram ==
  ASSUME TcmInv
  PROVE  [mode |-> tcm.mode, select |-> tcm.select, button |-> tcm.button, input |-> tcm.input,
          reply |-> "unchecked"] \in Simulator!Datagrams
<1>1. /\ <<tcm.mode, tcm.select>> \in Modes \X Selections
      /\ tcm.button \in Buttons /\ tcm.input \in Inputs
  BY DEF TcmInv, TcmSignals
<1>2. "unchecked" \in Simulator!Replies
  BY DEF Simulator!Replies
<1>3. Simulator!Buttons = Buttons /\ Simulator!Inputs = Inputs
  BY DEF Buttons, Simulator!Buttons, Inputs, Simulator!Inputs
<1>4. PICK sent \in Modes \X Selections : sent = <<tcm.mode, tcm.select>>
  BY <1>1
<1>5. sent[1] = tcm.mode /\ sent[2] = tcm.select
  BY <1>4
<1>6. tcm.button \in Simulator!Buttons /\ tcm.input \in Simulator!Inputs
  BY <1>1, <1>3
<1>7. [mode |-> sent[1], select |-> sent[2], button |-> tcm.button, input |-> tcm.input,
       reply |-> "unchecked"] \in Simulator!Datagrams
  BY <1>2, <1>6 DEF Simulator!Datagrams
<1>8. QED
  BY <1>5, <1>7

LEMMA SimulatorStep ==
  ASSUME IInv, [HistoryNext]_<<vars, gesture>>
  PROVE  [Simulator!Next]_Simulator!vars
<1>1. CASE (Client \/ WaitStep \/ Decode \/ ReleaseButton) /\ UNCHANGED gesture
  <2>1. UNCHANGED <<asp, stood>>
    <3>1. CASE Client
      BY <3>1 DEF Client, Connect, Disconnect, SendPin, MobileInit, GetThreatData, ListManeuvers,
                  CancelDriveOn, CancelManeuver, ManeuverInit, DeadmansHandle, Goes, linkVars
    <3>2. CASE WaitStep
      BY <3>2 DEF WaitStep, ThreatWait, ListWait, ResetWait, InitWait, CancelWait, Goes, linkVars
    <3>3. CASE Decode \/ ReleaseButton
      BY <3>3 DEF Decode, ReleaseButton, linkVars
    <3>4. QED
      BY <1>1, <3>1, <3>2, <3>3
  <2>2. QED
    BY <1>1, <2>1 DEF Simulator!vars
<1>2. CASE Exchange /\ gesture' = IF tcm.input = "ValidScrnInput" THEN 0 ELSE gesture
  <2>1. PICK d \in Simulator!Datagrams : asp' = Turn(asp, d) /\ d.input = tcm.input
    BY <1>2, SentDatagram DEF Exchange, IInv
  <2>2. Simulator!Receive
    BY <1>2, <2>1, SameTurn, SameStood DEF Simulator!Receive, Exchange
  <2>3. QED
    BY <2>2 DEF Simulator!Next
<1>3. CASE Tick /\ gesture' = IF gesture > DmhTicks THEN gesture ELSE gesture + 1
  <2>1. asp' = Simulator!Aged(asp)
    BY <1>3, SameAged DEF Tick
  <2>2. Simulator!Tick
    BY <1>3, <2>1, SameStood DEF Simulator!Tick, Tick
  <2>3. QED
    BY <2>2 DEF Simulator!Next
<1>4. CASE UNCHANGED <<vars, gesture>>
  BY <1>4 DEF vars, linkVars, Simulator!vars
<1>5. QED
  BY <1>1, <1>2, <1>3, <1>4 DEF HistoryNext

\* The ASPM that the telematics unit drives is the simulator of AspSimulator: each
\* exchange of the signal loop is one of its datagrams, every other step of the
\* session, the loops and the client leaves it alone, and its clocks go with the
\* ticks.  So what AspSimulatorProofs proves of any sender holds here.
THEOREM SimulatorImplemented == HistorySpec => Simulator!Spec
<1>1. HistoryInit => Init /\ Simulator!Init
  <2> SUFFICES ASSUME HistoryInit PROVE Init /\ Simulator!Init
    OBVIOUS
  <2>1. PICK m \in Preferred : asp = Built(m)
    BY DEF HistoryInit, Init
  <2>2. QED
    BY <2>1, SameBuilt DEF HistoryInit, Init, Simulator!Init
<1>2. [HistoryNext]_<<vars, gesture>> => [Next]_vars
  BY DEF HistoryNext, Next, Loops
<1>3. IInv /\ [HistoryNext]_<<vars, gesture>> => [Simulator!Next]_Simulator!vars
  BY SimulatorStep
<1>4. HistorySpec => Spec
  BY <1>1, <1>2, PTL DEF HistorySpec, Spec
<1>5. QED
  BY <1>1, <1>3, <1>4, Invariant, PTL DEF HistorySpec, Simulator!Spec
==============================================================================

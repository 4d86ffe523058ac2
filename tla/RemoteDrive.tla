----------------------------- MODULE RemoteDrive -----------------------------
(***************************************************************************)
(* A client drives the vehicle: the handlers of the session thread         *)
(* (RemoteDeviceHandler::messageEvent_ for the maneuver messages), the TCM *)
(* signals they write, the signal loop of the SignalHandler that exchanges *)
(* them with the ASPM, the button loop that lets go of a pressed button,   *)
(* and the ASPM of AspTurn.tla at the other end.                           *)
(*                                                                         *)
(* The session thread writes the signals and reads what was last decoded   *)
(* without the lock of the signal loop, so a handler's steps fall anywhere *)
(* in an exchange.  A tick is the 30 ms (ASP_REFRESH_RATE) each loop       *)
(* sleeps: every thread that is due runs before the next tick.             *)
(*                                                                         *)
(* PIN validation is PinAuth.tla's; here the verdict is only whether the   *)
(* PIN is authenticated.  Challenge replies are AspSimulator.tla's.        *)
(***************************************************************************)
EXTENDS AspTurn

CONSTANTS
    Asked,            \* maneuvers the client asks for
    ButtonTicks,      \* BUTTON_TIMEOUT_RATE
    MaxAttempts,      \* the attempts of maneuver_init
    Verdicts,         \* what PIN validation may answer
    Burst             \* bound: what the client does between two ticks

ASSUME DriveAssumption ==
    /\ Asked \subseteq Maneuvers \cup {ReturnToOrigin} /\ ReturnToOrigin \notin Maneuvers \cup {NoManeuver}
    /\ ButtonTicks \in Nat /\ ButtonTicks + 1 < TimerWrap /\ MaxAttempts \in Nat /\ Burst \in Nat
    /\ Verdicts \subseteq BOOLEAN

VARIABLES
    session,       \* where the session thread is
    asleep,        \* the session thread sleeps until the next tick
    attempts,      \* maneuverInitAttemptCount
    asked,         \* msgManeuver of the maneuver_init that is being served
    approval,      \* ConnectionApproval
    authenticated, \* AcknowledgeRemotePIN is CorrectPIN
    tcm,           \* the TCM signals: mode, button, input, select
    buttonStart,   \* maneuverButtonPressTime_
    view,          \* the ASPM signals last decoded
    link,          \* where the signal loop is
    asp,           \* the ASPM
    done,          \* what the client has done since the last tick
    released,      \* history: 0 while the client holds the handle, else 1 + the ticks since
    stood          \* history: ticks that a maneuvering vehicle has stood still

sessionVars == <<session, asleep, attempts, asked>>
deviceVars == <<approval, authenticated, released>>
tcmVars == <<tcm, buttonStart>>
linkVars == <<view, link, asp, stood>>
vars == <<sessionVars, deviceVars, tcmVars, linkVars, done>>

\* What the TCM decodes of the ASPM's signals.
Signals(a) == [status |-> a.status, confirm |-> a.confirm, resume |-> a.resume,
               progress |-> a.progress, active |-> a.active]

Init ==
    /\ session = "accept" /\ asleep = FALSE /\ attempts = 0 /\ asked = NoManeuver
    /\ approval = "NoDevice" /\ authenticated = FALSE
    /\ tcm = [mode |-> "NoMode", button |-> "None", input |-> "NoScrnInput", select |-> NoSelection]
    /\ buttonStart = 0
    /\ asp \in {Built(m) : m \in Preferred}
    /\ view = Signals(Built(NoManeuver))
    /\ link = "ready"
    /\ done = 0 /\ released = DmhTicks + 2 /\ stood = 0

-----------------------------------------------------------------------------
(* What the handlers read and write.                                        *)

InProgress_Offered ==
    /\ view.status \in {"Selecting", "Confirming", "Maneuvering", "Interrupted", "Finishing"}
    /\ view.confirm = "OfferEnabled"
InProgress ==
    \/ view.status \in {"Confirming", "Maneuvering", "Interrupted", "Finishing"}
    \/ view.status = "Selecting" /\ view.confirm = "OfferEnabled"

\* setManeuverButtonPress starts the time of the button; that of None is never read.
Press(button) ==
    /\ tcm' = [tcm EXCEPT !.button = button]
    /\ buttonStart' = 1

\* loadMainMenu_ and loadSpaceSelection_
LoadMenu(mode) ==
    /\ tcm' = [tcm EXCEPT !.button = "None", !.mode = mode, !.input = "NoScrnInput"]
    /\ buttonStart' = 0

Select_KeepsInput(m) ==
    /\ tcm' = [tcm EXCEPT !.mode = IF m = ReturnToOrigin THEN "NoMode" ELSE ModeOf(m),
                          !.button = IF m = ReturnToOrigin THEN "ReturnToStart" ELSE @,
                          !.select = IF m = ReturnToOrigin THEN @ ELSE InputSignals(m)]
    /\ buttonStart' = IF m = ReturnToOrigin THEN 1 ELSE buttonStart

\* pushPullSelected_, parkInSelected_, parkOutSelected_, adjustSelected_ and
\* returnToOriginSelected_; only the last one touches the button.
Select(m) ==
    \/ /\ m = ReturnToOrigin
       /\ tcm' = [tcm EXCEPT !.button = "ReturnToStart", !.mode = "NoMode", !.input = "NoScrnInput"]
       /\ buttonStart' = 1
    \/ /\ m # ReturnToOrigin
       /\ tcm' = [tcm EXCEPT !.mode = ModeOf(m), !.select = InputSignals(m), !.input = "NoScrnInput"]
       /\ UNCHANGED buttonStart

\* updateDMH_
UpdateDMH(gesture) ==
    /\ tcm' = [tcm EXCEPT
                 !.input = IF gesture THEN "ValidScrnInput" ELSE "NoScrnInput",
                 !.button = CASE view.status = "Interrupted" -> "ResumeSelected"
                              [] view.status = "Selecting"   -> "ConfirmationSelected"
                              [] OTHER                       -> @]
    /\ buttonStart' = IF view.status \in {"Interrupted", "Selecting"} THEN 1 ELSE buttonStart

-----------------------------------------------------------------------------
(* The session thread.  A handler runs in one step up to its end or to the  *)
(* loop it waits in; each turn of such a loop is a step.                    *)

Goes(from, to, sleeps) ==
    /\ session = from /\ ~asleep
    /\ session' = to /\ asleep' = sleeps
    /\ UNCHANGED linkVars

KeepsRequest == UNCHANGED <<attempts, asked>>

Connect ==
    /\ Goes("accept", "idle", FALSE)
    /\ approval' = "NotAllowedDevice"
    /\ UNCHANGED <<authenticated, released, tcmVars>> /\ KeepsRequest

Disconnect ==
    /\ Goes("idle", "accept", FALSE)
    /\ approval' = "NoDevice" /\ authenticated' = FALSE
    /\ UNCHANGED <<released, tcmVars>> /\ KeepsRequest

SendPin ==
    /\ Goes("idle", "idle", FALSE)
    /\ authenticated' \in Verdicts
    /\ UNCHANGED <<approval, released, tcmVars>> /\ KeepsRequest

\* A maneuver in progress is left alone, unless it is one of parking in, which
\* is selected again as it is read back.
MobileInit ==
    /\ authenticated
    /\ Goes("idle", "idle", FALSE)
    /\ approval' = "AllowedDevice"
    /\ LET active == getManeuverFromASP(view.active)
       IN \/ ~InProgress /\ LoadMenu("RCMainMenu")
          \/ InProgress /\ view.active.mode # "ParkIn" /\ UNCHANGED tcmVars
          \/ /\ InProgress /\ view.active.mode = "ParkIn"
             /\ tcm' = [tcm EXCEPT !.mode = "RCParkIn", !.input = "NoScrnInput",
                                   !.select = IF active = NoManeuver THEN @ ELSE InputSignals(active)]
             /\ UNCHANGED buttonStart
    /\ UNCHANGED <<authenticated, released>> /\ KeepsRequest

GetThreatData ==
    /\ Goes("idle", "threatWait", FALSE)
    /\ IF view.status = "Cancelled" THEN LoadMenu("RCMainMenu") ELSE UNCHANGED tcmVars
    /\ UNCHANGED deviceVars /\ KeepsRequest

ListManeuvers ==
    /\ \/ /\ view.status \in {"Cancelled", "Finishing", "Ended"}
          /\ LoadMenu("RCMainMenu")
          /\ Goes("idle", "listWait", TRUE)
       \/ /\ view.status \notin {"Cancelled", "Finishing", "Ended"}
          /\ UNCHANGED tcmVars
          /\ Goes("idle", "listWait", FALSE)
    /\ UNCHANGED deviceVars /\ KeepsRequest

Ready == authenticated /\ approval = "AllowedDevice"

\* What the client that held the handle has done by asking for something else.
LetGo == IF released = 0 THEN 1 ELSE released

\* A request for the maneuver in progress is only answered; for another one the
\* ASPM is first to be reset to space selection.
ManeuverInit(m) ==
    /\ Ready
    /\ asked' = m /\ attempts' = 0
    /\ \/ ~InProgress /\ Select(m) /\ Goes("idle", "initWait", FALSE)
       \/ /\ InProgress /\ m # getManeuverFromASP(view.active)
          /\ LoadMenu("RCParkOutSpaceSlctn")
          /\ Goes("idle", "resetWait", FALSE)
    /\ released' = LetGo
    /\ UNCHANGED <<approval, authenticated>>

DeadmansHandle(gesture) ==
    /\ Goes("idle", "idle", FALSE)
    /\ UpdateDMH(gesture)
    /\ released' = IF gesture THEN 0 ELSE LetGo
    /\ UNCHANGED <<approval, authenticated>> /\ KeepsRequest

CancelDriveOn ==
    /\ Goes("idle", "idle", FALSE)
    /\ Press("ResumeSelected")
    /\ UNCHANGED deviceVars /\ KeepsRequest

CancelManeuver ==
    /\ Goes("idle", "cancelWait", FALSE)
    /\ UNCHANGED <<deviceVars, tcmVars>> /\ KeepsRequest

Client ==
    /\ done < Burst /\ done' = done + 1
    /\ \/ Connect \/ Disconnect \/ SendPin \/ MobileInit \/ GetThreatData \/ ListManeuvers
       \/ CancelDriveOn \/ CancelManeuver
       \/ \E m \in Asked : ManeuverInit(m)
       \/ \E gesture \in BOOLEAN : DeadmansHandle(gesture)

ThreatWait ==
    /\ Goes("threatWait", IF view.status = "Scanning" THEN "threatWait" ELSE "idle",
            view.status = "Scanning")
    /\ UNCHANGED <<deviceVars, tcmVars>> /\ KeepsRequest

ListWait ==
    /\ \/ /\ view.status = "Scanning"
          /\ Goes("listWait", "listWait", TRUE)
          /\ UNCHANGED tcmVars
       \/ /\ view.status # "Scanning"
          /\ Goes("listWait", "idle", FALSE)
          /\ IF Ready /\ view.progress \in {0, Complete}
             THEN LoadMenu("RCParkOutSpaceSlctn") ELSE UNCHANGED tcmVars
    /\ UNCHANGED deviceVars /\ KeepsRequest

ResetWait ==
    /\ IF "OfferEnabled" \in {view.confirm, view.resume}
       THEN Goes("resetWait", "resetWait", TRUE) /\ UNCHANGED tcmVars
       ELSE Goes("resetWait", "initWait", FALSE) /\ Select(asked)
    /\ UNCHANGED deviceVars /\ KeepsRequest

Confirmed == view.confirm # "None" /\ getManeuverFromASP(view.active) = asked

InitWait_Late ==
    /\ \/ /\ ~Confirmed /\ attempts <= MaxAttempts
          /\ Goes("initWait", "initWait", TRUE)
          /\ attempts' = attempts + 1
          /\ UNCHANGED asked
       \/ /\ Confirmed \/ attempts > MaxAttempts
          /\ Goes("initWait", "idle", FALSE)
          /\ attempts' = 0 /\ asked' = NoManeuver
    /\ UNCHANGED <<deviceVars, tcmVars>>
InitWait ==
    /\ \/ /\ ~Confirmed /\ attempts < MaxAttempts
          /\ Goes("initWait", "initWait", TRUE)
          /\ attempts' = attempts + 1
          /\ UNCHANGED asked
       \/ /\ Confirmed \/ attempts >= MaxAttempts
          /\ Goes("initWait", "idle", FALSE)
          /\ attempts' = 0 /\ asked' = NoManeuver
    /\ UNCHANGED <<deviceVars, tcmVars>>

CancelWait ==
    /\ \/ /\ view.status # "Cancelled"
          /\ Goes("cancelWait", "cancelWait", TRUE)
          /\ Press("CancellationSelected")
       \/ /\ view.status = "Cancelled"
          /\ Goes("cancelWait", "idle", FALSE)
          /\ UNCHANGED tcmVars
    /\ UNCHANGED deviceVars /\ KeepsRequest

WaitStep == (ThreatWait \/ ListWait \/ ResetWait \/ InitWait \/ CancelWait) /\ UNCHANGED done

-----------------------------------------------------------------------------
(* The signal loop, in lockstep with the ASPM, and the button loop.         *)

\* The ASPM only turns when a datagram arrives, and nothing else reads it before
\* its answer is decoded: its turn is part of the step that sends the datagram.
Exchange ==
    /\ link = "ready" /\ approval # "NoDevice"
    /\ link' = "waiting"
    /\ asp' = Turn(asp, [mode |-> tcm.mode, button |-> tcm.button, input |-> tcm.input,
                         select |-> tcm.select, reply |-> "unchecked"])
    /\ stood' = StoodAfter(asp, asp', tcm.input, stood)
    /\ UNCHANGED <<sessionVars, deviceVars, tcmVars, view, done>>

Decode ==
    /\ link = "waiting"
    /\ link' = "asleep"
    /\ view' = Signals(asp)
    /\ UNCHANGED <<sessionVars, deviceVars, tcmVars, asp, stood, done>>

ButtonExpired == tcm.button # "None" /\ checkTimeout(buttonStart, ButtonTicks)
ReleaseButton ==
    /\ ButtonExpired
    /\ tcm' = [tcm EXCEPT !.button = "None"]
    /\ buttonStart' = 0
    /\ UNCHANGED <<sessionVars, deviceVars, linkVars, done>>

Tick ==
    /\ link = "asleep" \/ (link = "ready" /\ approval = "NoDevice")
    /\ session \in {"accept", "idle"} \/ asleep
    /\ ~ButtonExpired
    /\ link' = "ready" /\ asleep' = FALSE /\ done' = 0
    /\ asp' = Aged(asp) /\ stood' = StoodLonger(asp, stood)
    /\ buttonStart' = Older(buttonStart)
    /\ released' = IF released \in {0, DmhTicks + 2} THEN released ELSE released + 1
    /\ UNCHANGED <<session, attempts, asked, approval, authenticated, tcm, view>>

Loops == WaitStep \/ Exchange \/ Decode \/ ReleaseButton \/ Tick

Next == Client \/ Loops

Spec == Init /\ [][Next]_vars

\* The loops of the telematics unit and of the ASPM keep running and time passes,
\* in whatever order; nothing is assumed of the client.
FairSpec == Spec /\ WF_vars(Loops)

-----------------------------------------------------------------------------
(* Properties.                                                              *)

TcmSignals == [mode : Modes, button : Buttons, input : Inputs, select : Selections]

TypeOK ==
    /\ session \in {"accept", "idle", "threatWait", "listWait", "resetWait", "initWait", "cancelWait"}
    /\ asleep \in BOOLEAN /\ authenticated \in BOOLEAN
    /\ attempts \in 0..MaxAttempts /\ asked \in Asked \cup {NoManeuver}
    /\ approval \in {"NoDevice", "NotAllowedDevice", "AllowedDevice"}
    /\ tcm \in TcmSignals
    /\ buttonStart \in 0..TimerWrap
    /\ asp \in AspStates
    /\ view.status \in Statuses /\ view.active \in Actives
    /\ link \in {"ready", "waiting", "asleep"}
    /\ done \in 0..Burst /\ released \in 0..DmhTicks + 2 /\ stood \in 0..Forgotten

\* After the client lets go of the handle or asks for another maneuver, the
\* vehicle advances for no longer than the time of the dead man's handle and the
\* exchange that was already under way.  The exception is a vehicle that was left
\* in Maneuvering when the exchange stopped with the client's session, until the
\* age of the handle's clock wrapped (2^32 us, 71.6 minutes): the next exchange
\* drives it on.
StopsAfterRelease ==
    [][Advances(asp, asp') => released <= DmhTicks + 1 \/ stood = Forgotten]_vars

\* mobile_init decides from what was last decoded whether a maneuver is in
\* progress; late as that may be, it never sends a vehicle that has been driven
\* for more than one turn back to the main menu.
DrivingOutlivesMobileInit ==
    [][MobileInit /\ tcm.mode # "RCMainMenu" /\ tcm'.mode = "RCMainMenu"
       => ~(asp.status = "Maneuvering" /\ asp.progress > 1)]_vars

\* get_threat_data, list_maneuvers, cancel_maneuver and the second loop of
\* maneuver_init end: the scan the first two wait for is finished, and the
\* cancellation gets through although the button loop lets go of its button.
\* (The first loop of maneuver_init, ResetWait, need not end: an ASPM that is
\* in the mode of space selection already keeps its offer to resume.)
WaitsEnd == session \in {"threatWait", "listWait", "cancelWait", "initWait"} ~> session = "idle"

-----------------------------------------------------------------------------
(* What is documented and does not hold of the code.                        *)

\* The input of the dead man's handle is reset by the signal loop, so that it
\* times out when the client falls silent.
InputTimesOut == <>[](done = 0) => <>[](tcm.input = "NoScrnInput")
==============================================================================

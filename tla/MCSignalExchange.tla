--------------------------- MODULE MCSignalExchange ---------------------------
(***************************************************************************)
(* SignalExchange with an excerpt of the TCM_LM PDU that keeps what is hard *)
(* about its layout: a 12-bit value that begins in the middle of a byte    *)
(* and a 2-bit one that lies in two bytes.                                 *)
(***************************************************************************)
EXTENDS SignalExchange

Excerpt == <<<<"ManeuverGearSelect", 2>>, <<"NudgeSelect", 2>>, <<"AppSliderPosY", 12>>,
             <<"ManeuverButtonPress", 3>>, <<"DeviceControlMode", 4>>, <<"ManeuverTypeSelect", 2>>,
             <<"RemoteDeviceBatteryLevel", 7>>>>

\* A battery level of 77; everything else is 0.
MCInitial == [n \in Names |-> IF n = "RemoteDeviceBatteryLevel" THEN {0, 2, 3, 6} ELSE {}]

RCParkOut == {0, 1, 2}
RCPushPull == {3}

\* pushPullSelected_("StrFwd") and parkOutSelected_("OutRgtRvs"), the signals of
\* the excerpt in the order they are written
StraightForward == <<<<"NudgeSelect", {0}>>, <<"ManeuverTypeSelect", {}>>, <<"ManeuverGearSelect", {0}>>,
                     <<Mode, RCPushPull>>>>
OutRight == <<<<"NudgeSelect", {0}>>, <<"ManeuverTypeSelect", {0}>>, <<"ManeuverGearSelect", {1}>>,
              <<Mode, RCParkOut>>>>
\* updateDMH_ with a slider beyond its 12 bits, and the button of a paused vehicle
Touch == <<<<"AppSliderPosY", {0, 11, 12, 13}>>, <<Button, {0, 1}>>, <<Time, {}>>>>

MCRequests == {StraightForward, OutRight, Touch}
==============================================================================

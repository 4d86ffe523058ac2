---------------------------- MODULE AspTurnProofs ----------------------------
(***************************************************************************)
(* What a turn of the ASPM preserves, for every length of the maneuver, of *)
(* the scan and of the dead man's handle.                                  *)
(***************************************************************************)
EXTENDS AspTurn, TLAPS

\* A state of the ASPM in which what is offered agrees with the status.
Consistent(a) ==
    /\ a \in AspStates
    /\ a.status = "Scanning" => a.progress = 0 /\ a.resume = "None"
    /\ a.status = "Selecting" => a.progress = 0
    /\ a.status = "Interrupted" => a.resume = "OfferEnabled" \/ a.confirm = "OfferEnabled"
    /\ a.returnToStart = "OfferEnabled"
         => a.status \in {"Maneuvering", "Interrupted", "Confirming", "Finishing"}

\* Within a turn the end of a complete maneuver may still have to be noticed.
AtRest(a) == a.progress = Complete => a.status \in {"Finishing", "Cancelled", "Ended"}
AspInv(a) ==
    /\ Consistent(a)
    /\ a.progress = Complete => a.status \in {"Finishing", "Cancelled"}

\* The maneuver has been begun and is not over.
Begun == {"Confirming", "Maneuvering", "Interrupted"}

\* What every part of a turn but driving does to the progress and the handle.
StandsStill(a, b) ==
    /\ \/ b.progress = 0
       \/ b.progress = a.progress /\ (b.status \in Begun => a.status \in Begun)
    /\ b.dmhStart = a.dmhStart /\ b.mode = a.mode
    /\ b.status = "Maneuvering" => a.status = "Maneuvering"

\* What a turn does to the handle's clock: only a gesture makes a vehicle maneuver
\* and restarts the clock, and only a gesture or a clock within its time makes it
\* advance.
Handles(a, b, input) ==
    /\ b.status = "Maneuvering" => \/ input = "ValidScrnInput" /\ b.dmhStart = 1
                                   \/ a.status = "Maneuvering" /\ b.dmhStart = a.dmhStart
    /\ Advances(a, b) => \/ input = "ValidScrnInput" /\ b.dmhStart = 1
                         \/ /\ a.status = "Maneuvering" /\ b.dmhStart = a.dmhStart
                            /\ a.dmhStart \in 1..DmhTicks + 1

\* The clock of a maneuvering vehicle that is not forgotten is as old as its last
\* advance allows: its age has not wrapped.
Fresh(a, stood) ==
    a.status = "Maneuvering" /\ stood < Forgotten => a.dmhStart \in 1..DmhTicks + 1 + stood

Over == {"NotActive", "Finishing", "Ended", "Cancelled"}

-----------------------------------------------------------------------------
(* Values of the fields, and what the selections lead to.                   *)

LEMMA Values ==
  /\ \A status \in {"NotActive", "Scanning", "Selecting", "Confirming", "Maneuvering",
                    "Interrupted", "Finishing", "Ended", "Cancelled"} : status \in Statuses
  /\ "None" \in Availabilities /\ "OfferEnabled" \in Availabilities /\ "OfferDisabled" \in Availabilities
  /\ [type |-> "None", mode |-> "None", orientation |-> "None", side |-> "None"] \in Actives
  /\ \A mode \in {"NoMode", "RCMainMenu", "RCParkOutSpaceSlctn", "RCParkIn", "RCParkOut", "RCPushPull"} :
        mode \in Modes
  /\ 0 \in 0..Complete /\ 0 \in 0..TimerWrap /\ 1 \in 0..TimerWrap
  /\ 0 \in 0..ExploreWrap - 1 /\ 1 \in 0..ExploreWrap - 1
  /\ {} \in SUBSET {"Left", "Right"} /\ {"Left", "Right"} \in SUBSET {"Left", "Right"}
  /\ {} \in SUBSET {"Fwd", "Rvs"} /\ {"Fwd", "Rvs"} \in SUBSET {"Fwd", "Rvs"}
<1>1. /\ 0 \in 0..Complete /\ 0 \in 0..TimerWrap /\ 1 \in 0..TimerWrap
      /\ 0 \in 0..ExploreWrap - 1 /\ 1 \in 0..ExploreWrap - 1
  BY AspAssumption
<1>2. /\ {} \in SUBSET {"Left", "Right"} /\ {"Left", "Right"} \in SUBSET {"Left", "Right"}
      /\ {} \in SUBSET {"Fwd", "Rvs"} /\ {"Fwd", "Rvs"} \in SUBSET {"Fwd", "Rvs"}
  OBVIOUS
<1>3. [type |-> "None", mode |-> "None", orientation |-> "None", side |-> "None"] \in Actives
  BY DEF Actives
<1>4. QED
  BY <1>1, <1>2, <1>3 DEF Statuses, Availabilities, Modes

\* A maneuver that was selected has a family, a side and a direction.
LEMMA PreferredIn ==
  ASSUME NEW m \in Maneuvers \cup {NoManeuver}, FamilyOf(m) = "In"
  PROVE  /\ m \in [family : {"In"}, side : {"Left", "Right"}, dir : {"Fwd", "Rvs"}]
         /\ OrientationOf(m.dir) \in {"PerpendicularFront", "PerpendicularRear"}
         /\ Reversed(m) \in Maneuvers
<1>1. m \in Maneuvers /\ m.family = "In"
  BY DEF FamilyOf
<1>2. m \in [family : {"In"}, side : {"Left", "Right"}, dir : {"Fwd", "Rvs"}]
  BY <1>1 DEF Maneuvers, ParkManeuvers
<1>3. OrientationOf(m.dir) \in {"PerpendicularFront", "PerpendicularRear"}
  BY <1>2 DEF OrientationOf
<1>4. Reversed(m) \in Maneuvers
  BY <1>2 DEF Reversed, Maneuvers, ParkManeuvers
<1>5. QED
  BY <1>2, <1>3, <1>4

LEMMA ParkOrientation ==
  ASSUME NEW m \in Maneuvers \cup {NoManeuver}, FamilyOf(m) \in {"In", "Out"}
  PROVE  OrientationOf(m.dir) \in {"Parallel", "PerpendicularFront", "PerpendicularRear"}
<1>1. m \in Maneuvers /\ m.family \in {"In", "Out"}
  BY DEF FamilyOf
<1>2. m.dir \in {"Fwd", "Rvs", "Prl"}
  BY <1>1 DEF Maneuvers, ParkManeuvers
<1>3. QED
  BY <1>2 DEF OrientationOf

LEMMA Selected ==
  ASSUME NEW m \in Maneuvers
  PROVE  InputSignals(m) \in Selections /\ ModeOf(m) \in Modes
<1>1. m.side \in {"Left", "Right", "Center"} /\ m.family \in {"Str", "In", "Out", "Ndg"}
  BY DEF Maneuvers, ParkManeuvers
<1>2. InputSignals(m) \in Selections
  BY <1>1 DEF InputSignals, Selections
<1>3. ModeOf(m) \in Modes
  BY <1>1 DEF ModeOf, Modes
<1>4. QED
  BY <1>2, <1>3

-----------------------------------------------------------------------------
(* The modes.                                                               *)

LEMMA ExploredInv ==
  ASSUME NEW a, AspInv(a), NEW direction \in Explorations
  PROVE  AspInv(Explored(a, direction)) /\ StandsStill(a, Explored(a, direction))
<1> DEFINE again == direction # "ReturnToStart" /\ direction = a.lastExplore
           idx == IF ~again THEN 0
                  ELSE IF a.exploreIdx + 1 = ExploreWrap THEN 0 ELSE a.exploreIdx + 1
           reached == idx >= ExploreLimit
           b == [a EXCEPT !.lastExplore = direction, !.exploreIdx = idx, !.exploreLimitReached = reached]
<1>1. idx \in 0..ExploreWrap - 1
  BY AspAssumption DEF AspInv, Consistent, AspStates
<1>2. reached \in BOOLEAN
  OBVIOUS
<1>3. Explored(a, direction) = b
  BY DEF Explored
<1> HIDE DEF idx, reached
<1>4. b \in AspStates
  BY <1>1, <1>2 DEF AspInv, Consistent, AspStates
<1>5. /\ b.progress = a.progress /\ b.status = a.status /\ b.resume = a.resume /\ b.confirm = a.confirm
      /\ b.returnToStart = a.returnToStart /\ b.dmhStart = a.dmhStart /\ b.mode = a.mode
  BY DEF AspInv, Consistent, AspStates
<1>6. QED
  BY <1>3, <1>4, <1>5 DEF AspInv, Consistent, StandsStill

LEMMA MainMenuInv ==
  ASSUME NEW a, AspInv(a)
  PROVE  AspInv(MainMenu(a)) /\ StandsStill(a, MainMenu(a))
<1>1. MainMenu(a) \in AspStates
  BY Values DEF AspInv, Consistent, MainMenu, AspStates
<1>2. /\ MainMenu(a).progress = 0 /\ MainMenu(a).status = "Scanning" /\ MainMenu(a).resume = "None"
      /\ MainMenu(a).returnToStart = "None" /\ MainMenu(a).dmhStart = a.dmhStart /\ MainMenu(a).mode = a.mode
  BY DEF AspInv, Consistent, MainMenu, AspStates
<1>3. QED
  BY <1>1, <1>2, AspAssumption DEF AspInv, Consistent, StandsStill

LEMMA SpaceSelectionInv ==
  ASSUME NEW a, AspInv(a)
  PROVE  AspInv(SpaceSelection(a)) /\ StandsStill(a, SpaceSelection(a))
<1>1. SpaceSelection(a) \in AspStates
  BY Values DEF AspInv, Consistent, SpaceSelection, AspStates
<1>2. /\ SpaceSelection(a).progress = 0 /\ SpaceSelection(a).status = "Selecting"
      /\ SpaceSelection(a).returnToStart = "None" /\ SpaceSelection(a).dmhStart = a.dmhStart /\ SpaceSelection(a).mode = a.mode
  BY DEF AspInv, Consistent, SpaceSelection, AspStates
<1>3. QED
  BY <1>1, <1>2, AspAssumption DEF AspInv, Consistent, StandsStill

\* To offer a maneuver keeps the status; what was offered before is withdrawn.
LEMMA OfferInv ==
  ASSUME NEW a, AspInv(a), NEW active \in Actives
  PROVE  AspInv(Offer(a, active)) /\ StandsStill(a, Offer(a, active))
<1>1. Offer(a, active) \in AspStates
  BY Values DEF AspInv, Consistent, Offer, AspStates
<1>2. /\ Offer(a, active).progress = 0 /\ Offer(a, active).status = a.status
      /\ Offer(a, active).confirm = "OfferEnabled" /\ Offer(a, active).resume = "None"
      /\ Offer(a, active).returnToStart = "None" /\ Offer(a, active).dmhStart = a.dmhStart /\ Offer(a, active).mode = a.mode
  BY DEF AspInv, Consistent, Offer, AspStates
<1>3. QED
  BY <1>1, <1>2, AspAssumption DEF AspInv, Consistent, StandsStill

LEMMA OppositeInv ==
  ASSUME NEW a, AspInv(a), NEW opposite \in Maneuvers \cup {NoManeuver}
  PROVE  /\ AspInv([a EXCEPT !.opposite = opposite])
         /\ StandsStill(a, [a EXCEPT !.opposite = opposite])
  BY DEF AspInv, Consistent, AspStates, StandsStill

LEMMA StandsStillTwice ==
  ASSUME NEW a, NEW b, NEW c, StandsStill(a, b), StandsStill(b, c)
  PROVE  StandsStill(a, c)
  BY DEF StandsStill

LEMMA ParkInInv ==
  ASSUME NEW a, AspInv(a)
  PROVE  AspInv(ParkIn(a)) /\ StandsStill(a, ParkIn(a))
<1> DEFINE found == FamilyOf(a.preferred) = "In"
           active == [type |-> "Remote", mode |-> "ParkIn",
                      orientation |-> IF found THEN OrientationOf(a.preferred.dir) ELSE a.active.orientation,
                      side |-> IF found THEN a.preferred.side ELSE a.active.side]
           opposite == IF found THEN Reversed(a.preferred) ELSE a.opposite
           b == Offer(a, active)
           c == [b EXCEPT !.status = "Selecting", !.opposite = opposite]
<1>1. a.preferred \in Maneuvers \cup {NoManeuver} /\ a.active \in Actives
      /\ a.opposite \in Maneuvers \cup {NoManeuver}
  BY DEF AspInv, Consistent, AspStates
<1>2. active \in Actives
  BY <1>1, PreferredIn DEF Actives
<1>3. opposite \in Maneuvers \cup {NoManeuver}
  BY <1>1, PreferredIn
<1>4. ParkIn(a) = Explored(c, "ReturnToStart")
  BY DEF ParkIn
<1> HIDE DEF active, opposite
<1>5. AspInv(b) /\ StandsStill(a, b)
  BY <1>2, OfferInv
<1>6. b.returnToStart = "None" /\ b.progress = 0
  BY DEF AspInv, Consistent, Offer, AspStates
<1> HIDE DEF b
<1>7. AspInv(c) /\ StandsStill(b, c)
  <2>1. c \in AspStates
    BY <1>3, <1>5, Values DEF AspInv, Consistent, AspStates
  <2>2. /\ c.progress = 0 /\ c.status = "Selecting" /\ c.returnToStart = "None"
        /\ c.dmhStart = b.dmhStart /\ c.mode = b.mode
    BY <1>5, <1>6 DEF AspInv, Consistent, AspStates
  <2>3. QED
    BY <2>1, <2>2, AspAssumption DEF AspInv, Consistent, StandsStill
<1> HIDE DEF c
<1>8. QED
  BY <1>4, <1>5, <1>7, ExploredInv, StandsStillTwice DEF Explorations

LEMMA ParkOutInv ==
  ASSUME NEW a, AspInv(a), NEW s \in Selections
  PROVE  AspInv(ParkOut(a, s)) /\ StandsStill(a, ParkOut(a, s))
<1> DEFINE orientation ==
               CASE s.type = "Parallel"                                         -> "Parallel"
                 [] s.type = "Perpendicular" /\ s.direction = "NoseFirst" -> "PerpendicularFront"
                 [] s.type = "Perpendicular" /\ s.direction = "RearFirst" -> "PerpendicularRear"
                 [] OTHER                                                 -> "None"
           back == CASE orientation = "PerpendicularFront" -> {"Rvs"}
                     [] orientation = "PerpendicularRear"  -> {"Fwd"}
                     [] OTHER                              -> {}
           opposites == [family : {"In"}, side : {s.side} \cap {"Left", "Right"}, dir : back]
           active == [type |-> "Remote", mode |-> "ParkOut", orientation |-> orientation, side |-> s.side]
           opposite == IF opposites = {} THEN a.opposite ELSE CHOOSE m \in opposites : TRUE
           b == Offer(a, active)
<1>1. orientation \in {"None", "Parallel", "PerpendicularRear", "PerpendicularFront"}
  OBVIOUS
<1>2. back \in {{"Rvs"}, {"Fwd"}, {}}
  OBVIOUS
<1>3. ParkOut(a, s) = Explored([b EXCEPT !.opposite = opposite], "ReturnToStart")
  BY DEF ParkOut
<1> HIDE DEF orientation, back
<1>4. active \in Actives
  BY <1>1 DEF Actives, Selections
<1>5. opposites \subseteq Maneuvers
  BY <1>2 DEF Maneuvers, ParkManeuvers
<1>6. opposite \in Maneuvers \cup {NoManeuver}
  <2>1. a.opposite \in Maneuvers \cup {NoManeuver}
    BY DEF AspInv, Consistent, AspStates
  <2> HIDE DEF opposites
  <2>2. QED
    BY <1>5, <2>1
<1> HIDE DEF active, opposite
<1>7. AspInv(b) /\ StandsStill(a, b)
  BY <1>4, OfferInv
<1> HIDE DEF b
<1> DEFINE c == [b EXCEPT !.opposite = opposite]
<1>8. AspInv(c) /\ StandsStill(b, c)
  BY <1>6, <1>7, OppositeInv
<1> HIDE DEF c
<1>9. AspInv(Explored(c, "ReturnToStart")) /\ StandsStill(c, Explored(c, "ReturnToStart"))
  BY <1>8, ExploredInv DEF Explorations
<1>10. StandsStill(a, Explored(c, "ReturnToStart"))
  BY <1>7, <1>8, <1>9, StandsStillTwice
<1>11. QED
  BY <1>3, <1>9, <1>10 DEF c

LEMMA PushPullInv ==
  ASSUME NEW a, AspInv(a), NEW s \in Selections
  PROVE  AspInv(PushPull(a, s)) /\ StandsStill(a, PushPull(a, s))
<1> DEFINE Straight(dir) == [family |-> "Str", side |-> "Center", dir |-> dir]
           Pushed(orientation) ==
               Offer(a, [type |-> "PushPull", mode |-> "None", orientation |-> orientation, side |-> s.side])
           Turned(orientation, dir) == [Pushed(orientation) EXCEPT !.opposite = Straight(dir)]
<1>1. ASSUME NEW orientation \in {"None", "PerpendicularFront", "PerpendicularRear"}
      PROVE  AspInv(Pushed(orientation)) /\ StandsStill(a, Pushed(orientation))
  <2>1. [type |-> "PushPull", mode |-> "None", orientation |-> orientation, side |-> s.side] \in Actives
    BY DEF Actives, Selections
  <2>2. QED
    BY <2>1, OfferInv
<1>2. ASSUME NEW orientation \in {"PerpendicularFront", "PerpendicularRear"}, NEW dir \in {"Fwd", "Rvs"}
      PROVE  AspInv(Turned(orientation, dir)) /\ StandsStill(a, Turned(orientation, dir))
  <2>1. Straight(dir) \in Maneuvers \cup {NoManeuver}
    BY DEF Maneuvers
  <2>2. AspInv(Pushed(orientation)) /\ StandsStill(a, Pushed(orientation))
    BY <1>1
  <2> HIDE DEF Pushed, Straight
  <2>3. QED
    BY <2>1, <2>2, OppositeInv, StandsStillTwice
<1>3. PushPull(a, s) = CASE s.gear = "Forward" -> Explored(Turned("PerpendicularFront", "Rvs"), "StrFwd")
                         [] s.gear = "Reverse" -> Explored(Turned("PerpendicularRear", "Fwd"), "StrRvs")
                         [] OTHER -> Pushed("None")
  BY DEF PushPull
<1> HIDE DEF Pushed, Straight, Turned
<1>4. ASSUME NEW orientation \in {"PerpendicularFront", "PerpendicularRear"}, NEW dir \in {"Fwd", "Rvs"},
             NEW direction \in {"StrFwd", "StrRvs"}
      PROVE  /\ AspInv(Explored(Turned(orientation, dir), direction))
             /\ StandsStill(a, Explored(Turned(orientation, dir), direction))
  <2>1. AspInv(Turned(orientation, dir)) /\ StandsStill(a, Turned(orientation, dir))
    BY <1>2
  <2>2. direction \in Explorations
    BY DEF Explorations
  <2>3. QED
    BY <2>1, <2>2, ExploredInv, StandsStillTwice
<1>5. AspInv(Pushed("None")) /\ StandsStill(a, Pushed("None"))
  BY <1>1
<1>6. CASE s.gear = "Forward"
  BY <1>3, <1>4, <1>6
<1>7. CASE s.gear = "Reverse"
  BY <1>3, <1>4, <1>7
<1>8. CASE s.gear \notin {"Forward", "Reverse"}
  BY <1>3, <1>5, <1>8
<1>9. QED
  BY <1>6, <1>7, <1>8

LEMMA EnterModeInv ==
  ASSUME NEW a, AspInv(a), NEW mode \in Modes, NEW s \in Selections
  PROVE  /\ AspInv(EnterMode(a, mode, s))
         /\ StandsStill([a EXCEPT !.mode = mode], EnterMode(a, mode, s))
<1> DEFINE b == [a EXCEPT !.mode = mode]
<1>1. AspInv(b)
  BY DEF AspInv, Consistent, AspStates
<1>2. EnterMode(a, mode, s) \in {MainMenu(b), SpaceSelection(b), ParkIn(b), ParkOut(b, s), PushPull(b, s), b}
  BY DEF EnterMode
<1> HIDE DEF b
<1>3. \A c \in {MainMenu(b), SpaceSelection(b), ParkIn(b), ParkOut(b, s), PushPull(b, s), b} :
         AspInv(c) /\ StandsStill(b, c)
  BY <1>1, MainMenuInv, SpaceSelectionInv, ParkInInv, ParkOutInv, PushPullInv DEF StandsStill
<1>4. QED
  BY <1>2, <1>3 DEF b

\* Only a new mode changes anything.
LEMMA ModeInv ==
  ASSUME NEW a, AspInv(a), NEW mode \in Modes, NEW s \in Selections
  PROVE  LET b == setDeviceControlMode(a, mode, s)
         IN /\ AspInv(b) /\ b.mode = mode /\ b.dmhStart = a.dmhStart
            /\ b.status = "Maneuvering" => a.status = "Maneuvering"
            /\ \/ b.progress = 0
               \/ b.progress = a.progress /\ (b.status \in Begun => a.status \in Begun)
            /\ mode = a.mode => b = a
<1> DEFINE c == [a EXCEPT !.mode = mode]
<1>1. CASE mode = a.mode
  BY <1>1 DEF setDeviceControlMode
<1>2. CASE mode # a.mode
  <2>1. c.mode = mode /\ c.dmhStart = a.dmhStart /\ c.progress = a.progress /\ c.status = a.status
    BY DEF AspInv, Consistent, AspStates
  <2>2. AspInv(EnterMode(a, mode, s)) /\ StandsStill(c, EnterMode(a, mode, s))
    BY EnterModeInv
  <2> HIDE DEF c
  <2>3. QED
    BY <1>2, <2>1, <2>2 DEF setDeviceControlMode, StandsStill
<1>3. QED
  BY <1>1, <1>2

LEMMA ResponseInv ==
  ASSUME NEW a, AspInv(a), NEW reply \in Replies
  PROVE  LET b == checkResponse(a, reply)
         IN /\ AspInv(b) /\ StandsStill(a, b)
            /\ b.progress = a.progress /\ b.mode = a.mode /\ b.status = a.status
<1> DEFINE right == [a EXCEPT !.paused = FALSE, !.challengeWarning = FALSE]
           pause == [a EXCEPT !.paused = TRUE]
           warn == [a EXCEPT !.challengeWarning = TRUE]
<1>1. checkResponse(a, reply) \in {right, pause, warn, a}
  BY DEF checkResponse, Replies
<1> DEFINE Same(b) ==
               /\ b.progress = a.progress /\ b.mode = a.mode /\ b.status = a.status /\ b.dmhStart = a.dmhStart
               /\ b.resume = a.resume /\ b.confirm = a.confirm /\ b.returnToStart = a.returnToStart
<1>2. \A b \in {right, pause, warn, a} : b \in AspStates /\ Same(b)
  <2>1. right \in AspStates /\ Same(right)
    BY DEF AspInv, Consistent, AspStates
  <2>2. pause \in AspStates /\ Same(pause)
    BY DEF AspInv, Consistent, AspStates
  <2>3. warn \in AspStates /\ Same(warn)
    BY DEF AspInv, Consistent, AspStates
  <2>4. a \in AspStates /\ Same(a)
    BY DEF AspInv, Consistent
  <2> HIDE DEF right, pause, warn, Same
  <2>5. QED
    BY <2>1, <2>2, <2>3, <2>4
<1> HIDE DEF right, pause, warn
<1>3. QED
  BY <1>1, <1>2 DEF AspInv, Consistent, StandsStill

-----------------------------------------------------------------------------
(* The rest of a turn.                                                      *)

\* What only driving may do, and when: no pause, no maneuver that is over, and a
\* dead man's handle that is held or was within its time.
Drives(a, b, input) ==
    /\ Advances(a, b) => ~a.paused /\ ~b.paused /\ a.status \notin Over
    /\ Handles(a, b, input)
    /\ b.progress > 1 => a.progress > 0 /\ (b.status \in Begun => a.status \in Begun)
    /\ b.mode = a.mode

LEMMA CancelInv ==
  ASSUME NEW a, AspInv(a)
  PROVE  AspInv(Cancel(a)) /\ StandsStill(a, Cancel(a))
<1>1. Cancel(a) \in AspStates
  BY Values DEF AspInv, Consistent, Cancel, AspStates
<1>2. /\ Cancel(a).progress = a.progress /\ Cancel(a).status = "Cancelled"
      /\ Cancel(a).returnToStart = "None" /\ Cancel(a).dmhStart = a.dmhStart /\ Cancel(a).mode = a.mode
  BY DEF AspInv, Consistent, Cancel, AspStates
<1>3. QED
  BY <1>1, <1>2 DEF AspInv, Consistent, StandsStill, Begun

LEMMA EndInv ==
  ASSUME NEW a, AspInv(a)
  PROVE  /\ Consistent(EndManeuver(a)) /\ AtRest(EndManeuver(a)) /\ StandsStill(a, EndManeuver(a))
         /\ EndManeuver(a).progress = a.progress /\ EndManeuver(a).status = "Ended"
<1>1. EndManeuver(a) \in AspStates
  BY Values DEF AspInv, Consistent, EndManeuver, AspStates
<1>2. /\ EndManeuver(a).progress = a.progress /\ EndManeuver(a).status = "Ended"
      /\ EndManeuver(a).returnToStart = "None" /\ EndManeuver(a).dmhStart = a.dmhStart /\ EndManeuver(a).mode = a.mode
  BY DEF AspInv, Consistent, EndManeuver, AspStates
<1>3. QED
  BY <1>1, <1>2 DEF Consistent, AtRest, StandsStill, Begun

\* Another selection is made; what was driven is not driven further.
LEMMA ReturnInv ==
  ASSUME NEW a, AspInv(a), CanReturn(a)
  PROVE  LET b == ReturnToStart(a)
         IN /\ AspInv(b) /\ b.dmhStart = a.dmhStart
            /\ b.status = "Maneuvering" => a.status = "Maneuvering"
            /\ \/ b.progress = 0
               \/ b.progress = a.progress /\ (b.status \in Begun => a.status \in Begun)
<1> DEFINE mode == ModeOf(a.opposite)
           c == [a EXCEPT !.mode = mode]
<1>1. a.opposite \in Maneuvers
  BY DEF CanReturn, Maneuvers
<1>2. InputSignals(a.opposite) \in Selections /\ mode \in Modes
  BY <1>1, Selected
<1> HIDE DEF mode
<1>3. c.dmhStart = a.dmhStart /\ c.progress = a.progress /\ c.status = a.status
  BY DEF AspInv, Consistent, AspStates
<1>4. ReturnToStart(a) = EnterMode(a, mode, InputSignals(a.opposite))
  BY DEF ReturnToStart, mode
<1>5. AspInv(ReturnToStart(a)) /\ StandsStill(c, ReturnToStart(a))
  BY <1>2, <1>4, EnterModeInv
<1> HIDE DEF c
<1>6. QED
  BY <1>3, <1>5 DEF StandsStill

LEMMA FinishScanInv ==
  ASSUME NEW a, Consistent(a), a.status = "Scanning"
  PROVE  LET b == FinishScan(a)
         IN /\ Consistent(b) /\ AtRest(b) /\ StandsStill(a, b)
            /\ b.paused = a.paused /\ b.status \notin Begun
<1> DEFINE family == FamilyOf(a.preferred)
           park == family \in {"In", "Out"}
           active == [a.active EXCEPT
                        !.type = IF family \in {"Str", "Ndg"} THEN "PushPull" ELSE "Remote",
                        !.mode = IF family = "In" THEN "ParkIn" ELSE "ParkOut",
                        !.orientation = IF park THEN OrientationOf(a.preferred.dir) ELSE @]
           explore == IF a.exploreLimitReached THEN "OfferDisabled"
                      ELSE IF park THEN a.explore ELSE "OfferEnabled"
           sides == IF park THEN {"Left", "Right"} ELSE a.sides
           directions == IF park THEN a.directions ELSE {"Fwd", "Rvs"}
           b == [a EXCEPT !.status = "Selecting", !.progress = 0, !.scanStart = 0,
                          !.isManeuveringWithValidDMH = FALSE, !.active = active,
                          !.sides = sides, !.directions = directions, !.explore = explore]
<1>1. a.preferred \in Maneuvers \cup {NoManeuver} /\ a.active \in Actives /\ a.explore \in Availabilities
      /\ a.sides \in SUBSET {"Left", "Right"} /\ a.directions \in SUBSET {"Fwd", "Rvs"}
  BY DEF Consistent, AspStates
<1>2. active \in Actives
  <2>1. park => OrientationOf(a.preferred.dir) \in {"Parallel", "PerpendicularFront", "PerpendicularRear"}
    BY <1>1, ParkOrientation
  <2>2. QED
    BY <1>1, <2>1 DEF Actives
<1>3. explore \in Availabilities
  BY <1>1, Values
<1>4. sides \in SUBSET {"Left", "Right"} /\ directions \in SUBSET {"Fwd", "Rvs"}
  BY <1>1
<1>5. FinishScan(a) = b
  BY DEF FinishScan, Consistent, AspStates
<1> HIDE DEF active, explore, sides, directions
<1>6. b \in AspStates
  BY <1>2, <1>3, <1>4, Values DEF Consistent, AspStates
<1>7. /\ b.progress = 0 /\ b.status = "Selecting" /\ b.dmhStart = a.dmhStart /\ b.mode = a.mode /\ b.paused = a.paused
      /\ b.returnToStart = a.returnToStart
  BY DEF Consistent, AspStates
<1> HIDE DEF b
<1>8. QED
  BY <1>5, <1>6, <1>7, AspAssumption DEF Consistent, AtRest, StandsStill, Begun

LEMMA ScanInv ==
  ASSUME NEW a, Consistent(a), AtRest(a)
  PROVE  LET b == Scan(a)
         IN /\ Consistent(b) /\ AtRest(b) /\ StandsStill(a, b) /\ b.paused = a.paused
            /\ a.status # "Scanning" => b = a
            /\ b.status \in Begun => a.status \in Begun
<1>1. CASE Scan(a) = a
  BY <1>1 DEF StandsStill
<1>2. CASE a.status = "Scanning" /\ Scan(a) = StartScan(a)
  <2>1. StartScan(a) \in AspStates
    BY Values DEF Consistent, AspStates, StartScan
  <2>2. /\ StartScan(a).progress = a.progress /\ StartScan(a).status = a.status
        /\ StartScan(a).dmhStart = a.dmhStart /\ StartScan(a).mode = a.mode /\ StartScan(a).paused = a.paused
        /\ StartScan(a).resume = a.resume /\ StartScan(a).confirm = a.confirm
        /\ StartScan(a).returnToStart = a.returnToStart
    BY DEF Consistent, AspStates, StartScan
  <2>3. QED
    BY <1>2, <2>1, <2>2 DEF Consistent, AtRest, StandsStill
<1>3. CASE a.status = "Scanning" /\ Scan(a) = FinishScan(a)
  BY <1>3, FinishScanInv
<1>4. QED
  BY <1>1, <1>2, <1>3 DEF Scan

LEMMA ConfirmInv ==
  ASSUME NEW a, Consistent(a), AtRest(a), NEW button
  PROVE  LET b == Confirm(a, button)
         IN /\ Consistent(b) /\ AtRest(b)
            /\ b.progress = a.progress /\ b.paused = a.paused /\ b.dmhStart = a.dmhStart /\ b.mode = a.mode
            /\ b.status = a.status \/ (a.status \in Waiting /\ b.status = "Confirming")
<1> DEFINE b == [a EXCEPT !.status = "Confirming"]
<1>1. CASE Confirm(a, button) = a
  BY <1>1
<1>2. CASE a.status \in Waiting /\ Confirm(a, button) = b
  <2>1. b \in AspStates
    BY Values DEF Consistent, AspStates
  <2>2. /\ b.progress = a.progress /\ b.status = "Confirming" /\ b.dmhStart = a.dmhStart /\ b.mode = a.mode
        /\ b.paused = a.paused
    BY DEF Consistent, AspStates
  <2>3. a.progress # Complete
    BY <1>2 DEF AtRest, Waiting
  <2> HIDE DEF b
  <2>4. QED
    BY <1>2, <2>1, <2>2, <2>3 DEF Consistent, AtRest
<1>3. QED
  BY <1>1, <1>2 DEF Confirm

LEMMA InterruptInv ==
  ASSUME NEW a, Consistent(a)
  PROVE  /\ Consistent(Interrupt(a))
         /\ Interrupt(a).progress = a.progress /\ Interrupt(a).status = "Interrupted"
         /\ Interrupt(a).dmhStart = a.dmhStart /\ Interrupt(a).mode = a.mode
<1>1. Interrupt(a) \in AspStates
  BY Values DEF Consistent, AspStates, Interrupt
<1>2. /\ Interrupt(a).progress = a.progress /\ Interrupt(a).dmhStart = a.dmhStart /\ Interrupt(a).mode = a.mode
      /\ Interrupt(a).status = "Interrupted" /\ Interrupt(a).resume = "OfferEnabled"
  BY DEF Consistent, AspStates, Interrupt
<1>3. QED
  BY <1>1, <1>2 DEF Consistent

LEMMA ManeuverInv ==
  ASSUME NEW a, Consistent(a), a.progress # Complete
  PROVE  /\ Consistent(Maneuver(a))
         /\ Maneuver(a).progress > 1 => a.progress > 0
         /\ Maneuver(a).dmhStart = a.dmhStart /\ Maneuver(a).mode = a.mode /\ Maneuver(a).paused = a.paused
<1> DEFINE p == (a.progress + 1) % 256
           b == [a EXCEPT !.status = "Maneuvering", !.confirm = "None", !.resume = "None",
                          !.returnToStart = "OfferEnabled", !.progress = p,
                          !.isManeuveringWithValidDMH = TRUE]
<1>1. p \in 0..Complete /\ (p > 1 => a.progress > 0)
  <2>1. a.progress \in 0..Complete
    BY DEF Consistent, AspStates
  <2>2. a.progress + 1 \in 0..Complete /\ a.progress + 1 < 256
    BY <2>1, AspAssumption
  <2>3. QED
    BY <2>1, <2>2, AspAssumption
<1>2. Maneuver(a) = b
  BY DEF Maneuver, Consistent, AspStates
<1> HIDE DEF p
<1>3. b \in AspStates
  BY <1>1, Values DEF Consistent, AspStates
<1>4. /\ b.status = "Maneuvering" /\ b.dmhStart = a.dmhStart /\ b.mode = a.mode /\ b.paused = a.paused
      /\ b.progress = p
  BY DEF Consistent, AspStates
<1> HIDE DEF b
<1>5. QED
  BY <1>1, <1>2, <1>3, <1>4 DEF Consistent

\* The vehicle moves on only unpaused, from a state that waits or moves, and with
\* the dead man's handle held.
LEMMA DriveInv ==
  ASSUME NEW a, Consistent(a), AtRest(a), NEW button, NEW input
  PROVE  Consistent(Drive(a, button, input)) /\ Drives(a, Drive(a, button, input), input)
<1> DEFINE b == IF a.paused THEN a ELSE Confirm(a, button)
           start == DmhAfter(b, input)
           c == [b EXCEPT !.dmhStart = start]
<1>1. /\ Consistent(b) /\ AtRest(b)
      /\ b.progress = a.progress /\ b.paused = a.paused /\ b.dmhStart = a.dmhStart /\ b.mode = a.mode
      /\ b.status = a.status \/ (a.status \in Waiting /\ b.status = "Confirming")
  BY ConfirmInv
<1>2. a.dmhStart \in 0..TimerWrap /\ a.progress \in 0..Complete
  BY DEF Consistent, AspStates
<1>3. Drive(a, button, input) = IF ~StillManeuvering(b, input) THEN b
                                ELSE IF start = 0 THEN Interrupt(c) ELSE Maneuver(c)
  BY <1>1 DEF Drive, Consistent, AspStates
<1> HIDE DEF b
<1>4. /\ start \in 0..TimerWrap
      /\ start # 0 => \/ input = "ValidScrnInput" /\ start = 1
                      \/ input # "ValidScrnInput" /\ start = a.dmhStart /\ a.dmhStart \in 1..DmhTicks + 1
  BY <1>1, <1>2, Values, AspAssumption DEF DmhAfter, checkTimeout
<1> HIDE DEF start
<1>5. b.progress > 0 /\ b.status \in Begun \cup Waiting => a.status \in Begun
  BY <1>1, AspAssumption DEF Consistent, Waiting, Begun
<1>6. CASE ~StillManeuvering(b, input)
  <2>1. ~Advances(a, b) /\ Handles(a, b, input)
    BY <1>1, <1>2, AspAssumption DEF Handles, Advances
  <2>2. QED
    BY <1>1, <1>2, <1>3, <1>5, <1>6, <2>1, AspAssumption DEF Drives
<1>7. CASE StillManeuvering(b, input)
  <2>1. /\ ~a.paused /\ b.progress # Complete
        /\ a.status \notin Over /\ b.status \in Begun \cup Waiting
        /\ input # "ValidScrnInput" => a.status = "Maneuvering"
    BY <1>1, <1>7 DEF StillManeuvering, Waiting, Over, AtRest, Begun
  <2>2. c \in AspStates
    BY <1>1, <1>4 DEF Consistent, AspStates
  <2>3. /\ c.progress = b.progress /\ c.status = b.status /\ c.paused = b.paused /\ c.dmhStart = start /\ c.mode = b.mode
        /\ c.resume = b.resume /\ c.confirm = b.confirm /\ c.returnToStart = b.returnToStart
    BY <1>1 DEF Consistent, AspStates
  <2> HIDE DEF c
  <2>4. Consistent(c)
    BY <1>1, <2>2, <2>3 DEF Consistent
  <2>5. CASE start = 0
    <3>1. /\ Consistent(Interrupt(c)) /\ Interrupt(c).progress = a.progress
          /\ Interrupt(c).status = "Interrupted" /\ Interrupt(c).mode = a.mode
      BY <1>1, <2>3, <2>4, InterruptInv
    <3>2. ~Advances(a, Interrupt(c)) /\ Handles(a, Interrupt(c), input)
      BY <1>2, <3>1, AspAssumption DEF Handles, Advances
    <3>3. QED
      BY <1>1, <1>2, <1>3, <1>5, <1>7, <2>1, <2>5, <3>1, <3>2, AspAssumption DEF Drives
  <2>6. CASE start # 0
    <3>1. /\ Consistent(Maneuver(c)) /\ Maneuver(c).dmhStart = start /\ ~Maneuver(c).paused
          /\ Maneuver(c).mode = a.mode /\ (Maneuver(c).progress > 1 => b.progress > 0)
      BY <1>1, <2>1, <2>3, <2>4, ManeuverInv
    <3>2. Handles(a, Maneuver(c), input)
      BY <1>4, <2>1, <2>6, <3>1 DEF Handles
    <3>3. QED
      BY <1>1, <1>3, <1>5, <1>7, <2>1, <2>6, <3>1, <3>2 DEF Drives
  <2>7. QED
    BY <2>5, <2>6
<1>8. QED
  BY <1>6, <1>7

LEMMA FinishInv ==
  ASSUME NEW a, Consistent(a)
  PROVE  /\ AspInv(Finish(a)) /\ Finish(a).progress = a.progress
         /\ Finish(a).dmhStart = a.dmhStart /\ Finish(a).mode = a.mode /\ Finish(a).paused = a.paused
         /\ Finish(a).status \in Begun => Finish(a).status = a.status
<1> DEFINE b == [a EXCEPT !.status = "Finishing", !.returnToStart = "OfferEnabled",
                          !.isManeuveringWithValidDMH = FALSE]
<1>1. CASE a.progress # Complete
  BY <1>1 DEF Finish, AspInv
<1>2. CASE a.progress = Complete
  <2>1. b \in AspStates
    BY Values DEF Consistent, AspStates
  <2>2. /\ b.progress = a.progress /\ b.status = "Finishing" /\ b.dmhStart = a.dmhStart /\ b.mode = a.mode
        /\ b.paused = a.paused
    BY DEF Consistent, AspStates
  <2>3. Finish(a) = b
    BY <1>2 DEF Finish
  <2> HIDE DEF b
  <2>4. QED
    BY <2>1, <2>2, <2>3 DEF AspInv, Consistent, Begun
<1>3. QED
  BY <1>1, <1>2

\* One update preserves the invariant, and moves the vehicle only by driving.
LEMMA UpdateInv ==
  ASSUME NEW a, AspInv(a), NEW button, NEW input
  PROVE  LET b == updateSignalsAfterMsgFromTCM(a, button, input)
         IN /\ AspInv(b)
            /\ Advances(a, b) => ~b.paused /\ a.status \notin Over /\ b.mode = a.mode
            /\ b.progress > 1 => a.progress > 0 /\ (b.status \in Begun => a.status \in Begun)
            /\ Handles(a, b, input)
<1> DEFINE e == IF button = "EndManouevre" THEN EndManeuver(a) ELSE a
           f == Scan(e)
           g == Drive(f, button, input)
           b == updateSignalsAfterMsgFromTCM(a, button, input)
<1>1. a.progress \in Nat
  BY AspAssumption DEF AspInv, Consistent, AspStates
<1>2. CASE button = "CancellationSelected"
  <2>1. b = Cancel(a)
    BY <1>2 DEF updateSignalsAfterMsgFromTCM
  <2>2. AspInv(b) /\ StandsStill(a, b)
    BY <2>1, CancelInv
  <2> HIDE DEF b
  <2>3. QED
    BY <1>1, <2>2 DEF StandsStill, Handles, Advances, b
<1>3. CASE button = "ReturnToStart" /\ CanReturn(a)
  <2>1. b = ReturnToStart(a)
    BY <1>3 DEF updateSignalsAfterMsgFromTCM
  <2>2. /\ AspInv(b) /\ b.dmhStart = a.dmhStart
        /\ b.status = "Maneuvering" => a.status = "Maneuvering"
        /\ \/ b.progress = 0
           \/ b.progress = a.progress /\ (b.status \in Begun => a.status \in Begun)
    BY <1>3, <2>1, ReturnInv
  <2> HIDE DEF b
  <2>3. QED
    BY <1>1, <2>2 DEF Handles, Advances, b
<1>4. CASE button # "CancellationSelected" /\ ~(button = "ReturnToStart" /\ CanReturn(a))
  <2>1. b = Finish(g)
    BY <1>4 DEF updateSignalsAfterMsgFromTCM
  <2>2. /\ Consistent(e) /\ AtRest(e) /\ StandsStill(a, e) /\ e.progress = a.progress
        /\ e = a \/ e.status = "Ended"
    BY EndInv DEF AspInv, AtRest, StandsStill
  <2> HIDE DEF e
  <2>3. /\ Consistent(f) /\ AtRest(f) /\ StandsStill(e, f)
        /\ e.status # "Scanning" => f = e
        /\ f.status \in Begun => e.status \in Begun
    BY <2>2, ScanInv
  <2> HIDE DEF f
  <2>4. Consistent(g) /\ Drives(f, g, input)
    BY <2>3, DriveInv
  <2> HIDE DEF g
  <2>5. /\ AspInv(b) /\ b.progress = g.progress /\ b.dmhStart = g.dmhStart /\ b.mode = g.mode
        /\ b.paused = g.paused /\ (b.status \in Begun => b.status = g.status)
    BY <2>1, <2>4, FinishInv
  <2> HIDE DEF b
  <2>6. /\ f.progress = 0 \/ f.progress = a.progress
        /\ f.dmhStart = a.dmhStart /\ f.mode = a.mode
        /\ a.status \in Over => f.status \in Over
        /\ f.status = "Maneuvering" => a.status = "Maneuvering"
    BY <2>2, <2>3 DEF StandsStill, Over
  <2>7. g.progress \in Nat
    BY <2>4, AspAssumption DEF Consistent, AspStates
  <2>8. Advances(a, b) => Advances(f, g)
    BY <1>1, <2>5, <2>6, <2>7 DEF Advances
  <2>9. Advances(a, b) => ~b.paused /\ a.status \notin Over /\ b.mode = a.mode
    BY <2>4, <2>5, <2>6, <2>8 DEF Drives
  <2>10. Handles(a, b, input)
    <3>1. Handles(f, g, input)
      BY <2>4 DEF Drives
    <3>2. b.status = "Maneuvering" => g.status = "Maneuvering"
      BY <2>5 DEF Begun
    <3>3. QED
      BY <2>5, <2>6, <2>8, <3>1, <3>2 DEF Handles
  <2>11. b.progress > 1 => a.progress > 0 /\ (b.status \in Begun => a.status \in Begun)
    <3>1. f.status \in Begun => a.status \in Begun
      BY <2>2, <2>3 DEF StandsStill, Begun, Consistent
    <3>2. QED
      BY <1>1, <2>4, <2>5, <2>6, <3>1 DEF Drives
  <2>12. QED
    BY <2>5, <2>9, <2>10, <2>11 DEF b
<1>5. QED
  BY <1>2, <1>3, <1>4

\* A whole turn, with any datagram.
LEMMA TurnInv ==
  ASSUME NEW a, AspInv(a),
         NEW d, d.mode \in Modes, d.select \in Selections, d.reply \in Replies
  PROVE  LET b == Turn(a, d)
         IN /\ AspInv(b)
            /\ Advances(a, b) => ~b.paused /\ (a.status \in Over => b.mode # a.mode)
            /\ b.progress > 1 => a.progress > 0 /\ (b.status \in Begun => a.status \in Begun)
            /\ Handles(a, b, d.input)
<1> DEFINE m == setDeviceControlMode(a, d.mode, d.select)
           r == checkResponse(m, d.reply)
           b == updateSignalsAfterMsgFromTCM(r, d.button, d.input)
<1>1. Turn(a, d) = b
  BY DEF Turn
<1>2. /\ AspInv(m) /\ m.mode = d.mode /\ m.dmhStart = a.dmhStart
      /\ m.status = "Maneuvering" => a.status = "Maneuvering"
      /\ \/ m.progress = 0
         \/ m.progress = a.progress /\ (m.status \in Begun => a.status \in Begun)
      /\ d.mode = a.mode => m = a
  BY ModeInv
<1> HIDE DEF m
<1>3. /\ AspInv(r) /\ r.dmhStart = m.dmhStart
      /\ r.progress = m.progress /\ r.mode = m.mode /\ r.status = m.status
  BY <1>2, ResponseInv DEF StandsStill
<1> HIDE DEF r
<1>4. /\ AspInv(b)
      /\ Advances(r, b) => ~b.paused /\ r.status \notin Over /\ b.mode = r.mode
      /\ b.progress > 1 => r.progress > 0 /\ (b.status \in Begun => r.status \in Begun)
      /\ Handles(r, b, d.input)
  BY <1>3, UpdateInv
<1> HIDE DEF b
<1>5. a.progress \in Nat /\ b.progress \in Nat
  BY <1>4, AspAssumption DEF AspInv, Consistent, AspStates
<1>6. Advances(a, b) => Advances(r, b)
  BY <1>2, <1>3, <1>5 DEF Advances
<1>7. Advances(a, b) => ~b.paused /\ (a.status \in Over => b.mode # a.mode)
  BY <1>2, <1>3, <1>4, <1>6
<1>8. Handles(a, b, d.input)
  BY <1>2, <1>3, <1>4, <1>6 DEF Handles
<1>9. b.progress > 1 => a.progress > 0 /\ (b.status \in Begun => a.status \in Begun)
  BY <1>2, <1>3, <1>4
<1>10. QED
  BY <1>1, <1>4, <1>7, <1>8, <1>9

\* A turn keeps the clock of a vehicle that is not forgotten fresh.
LEMMA FreshTurn ==
  ASSUME NEW a \in AspStates, NEW b, NEW input, Handles(a, b, input),
         NEW stood \in 0..Forgotten, Fresh(a, stood)
  PROVE  /\ StoodAfter(a, b, input, stood) \in 0..Forgotten
         /\ Fresh(b, StoodAfter(a, b, input, stood))
<1>1. DmhTicks \in Nat /\ Forgotten \in Nat /\ 0 < Forgotten
  BY AspAssumption DEF Forgotten
<1>2. a.dmhStart \in Nat
  BY AspAssumption DEF AspStates
<1>3. CASE b.status # "Maneuvering"
  BY <1>1, <1>3 DEF StoodAfter, Fresh
<1>4. CASE b.status = "Maneuvering" /\ Advances(a, b) /\ (input = "ValidScrnInput" \/ stood < Forgotten)
  BY <1>1, <1>2, <1>4 DEF StoodAfter, Fresh, Handles
<1>5. CASE b.status = "Maneuvering" /\ ~(Advances(a, b) /\ (input = "ValidScrnInput" \/ stood < Forgotten))
  BY <1>1, <1>2, <1>5 DEF StoodAfter, Fresh, Handles
<1>6. QED
  BY <1>3, <1>4, <1>5

-----------------------------------------------------------------------------
(* Time, and the start.                                                     *)

LEMMA OlderBound ==
  ASSUME NEW start \in 0..TimerWrap
  PROVE  Older(start) \in 0..TimerWrap /\ (start # 0 => Older(start) # 0)
  BY AspAssumption DEF Older

LEMMA AgedInv ==
  ASSUME NEW a, AspInv(a)
  PROVE  LET b == Aged(a)
         IN /\ AspInv(b) /\ b.progress = a.progress /\ b.mode = a.mode /\ b.status = a.status
            /\ b.dmhStart = Older(a.dmhStart)
<1> DEFINE scan == Older(a.scanStart)
           dmh == Older(a.dmhStart)
           b == [a EXCEPT !.scanStart = scan, !.dmhStart = dmh]
<1>1. a.scanStart \in 0..TimerWrap /\ a.dmhStart \in 0..TimerWrap
  BY DEF AspInv, Consistent, AspStates
<1>2. scan \in 0..TimerWrap /\ dmh \in 0..TimerWrap
  BY <1>1, OlderBound
<1>3. Aged(a) = b
  BY DEF Aged, AspInv, Consistent, AspStates
<1> HIDE DEF scan, dmh
<1>4. b \in AspStates
  BY <1>2 DEF AspInv, Consistent, AspStates
<1>5. /\ b.progress = a.progress /\ b.status = a.status /\ b.resume = a.resume /\ b.confirm = a.confirm
      /\ b.returnToStart = a.returnToStart /\ b.mode = a.mode /\ b.dmhStart = dmh
  BY DEF AspInv, Consistent, AspStates
<1> HIDE DEF b
<1>6. QED
  BY <1>3, <1>4, <1>5 DEF AspInv, Consistent, dmh

\* The clock of a vehicle that is not forgotten has not wrapped when time passes.
LEMMA FreshTick ==
  ASSUME NEW a \in AspStates, NEW b, b.status = a.status, b.dmhStart = Older(a.dmhStart),
         NEW stood \in 0..Forgotten, Fresh(a, stood)
  PROVE  /\ StoodLonger(a, stood) \in 0..Forgotten
         /\ Fresh(b, StoodLonger(a, stood))
         /\ a.status = "Maneuvering" /\ StoodLonger(a, stood) < Forgotten
              => stood < Forgotten /\ b.dmhStart = a.dmhStart + 1
<1>1. DmhTicks \in Nat /\ TimerWrap \in Nat /\ Forgotten = TimerWrap - DmhTicks
      /\ Forgotten \in Nat /\ 0 < Forgotten
  BY AspAssumption DEF Forgotten
<1>2. a.dmhStart \in 0..TimerWrap
  BY DEF AspStates
<1>3. CASE a.status # "Maneuvering"
  BY <1>1, <1>3 DEF StoodLonger, Fresh
<1>4. CASE a.status = "Maneuvering" /\ StoodLonger(a, stood) = Forgotten
  BY <1>1, <1>4 DEF StoodLonger, Fresh
<1>5. CASE a.status = "Maneuvering" /\ StoodLonger(a, stood) # Forgotten
  <2>1. stood < Forgotten /\ StoodLonger(a, stood) = stood + 1 /\ stood + 1 < Forgotten
    BY <1>1, <1>5 DEF StoodLonger
  <2>2. a.dmhStart \in 1..DmhTicks + 1 + stood
    BY <1>5, <2>1 DEF Fresh
  <2>3. a.dmhStart # TimerWrap /\ a.dmhStart # 0
    BY <1>1, <2>1, <2>2
  <2>4. b.dmhStart = a.dmhStart + 1
    BY <2>3 DEF Older
  <2>5. QED
    BY <1>1, <1>2, <2>1, <2>2, <2>4 DEF Fresh
<1>6. QED
  BY <1>3, <1>4, <1>5

LEMMA BuiltInv ==
  ASSUME NEW preferred \in Maneuvers \cup {NoManeuver}
  PROVE  /\ AspInv(Built(preferred))
         /\ Built(preferred).status # "Maneuvering" /\ Built(preferred).progress = 0
<1> DEFINE active == [type |-> "None", mode |-> "None", orientation |-> "None", side |-> "None"]
           a == [mode |-> "NoMode", status |-> "NotActive", active |-> active,
                 confirm |-> "None", resume |-> "None", explore |-> "None",
                 returnToStart |-> "None", sides |-> {}, directions |-> {}, progress |-> 0,
                 paused |-> FALSE, challengeWarning |-> FALSE, isManeuveringWithValidDMH |-> FALSE,
                 preferred |-> preferred, opposite |-> NoManeuver,
                 lastExplore |-> "None", exploreIdx |-> 1, exploreLimitReached |-> FALSE,
                 scanStart |-> 0, dmhStart |-> 0]
<1>1. active \in Actives
  BY Values
<1>2. Built(preferred) = IF FamilyOf(preferred) = "In" THEN EnterMode(a, "RCParkIn", NoSelection) ELSE a
  BY DEF Built
<1> HIDE DEF active
<1>3. "None" \in Explorations /\ "NotActive" \in Statuses /\ "NoMode" \in Modes
      /\ 1 \in 0..ExploreWrap - 1 /\ 0 \in 0..Complete /\ 0 # Complete
  BY AspAssumption DEF Explorations, Statuses, Modes
<1>4. a \in AspStates
  BY <1>1, <1>3, Values DEF AspStates
<1>5. a.status = "NotActive" /\ a.returnToStart = "None" /\ a.progress = 0 /\ a.dmhStart = 0
  OBVIOUS
<1> HIDE DEF a
<1>6. AspInv(a)
  BY <1>3, <1>4, <1>5 DEF AspInv, Consistent
<1> DEFINE c == [a EXCEPT !.mode = "RCParkIn"]
<1>7. c.status # "Maneuvering" /\ c.progress = 0
  BY <1>4, <1>5 DEF AspStates
<1>8. NoSelection \in Selections /\ "RCParkIn" \in Modes
  BY DEF NoSelection, Selections, Modes
<1>9. AspInv(EnterMode(a, "RCParkIn", NoSelection)) /\ StandsStill(c, EnterMode(a, "RCParkIn", NoSelection))
  BY <1>6, <1>8, EnterModeInv
<1> HIDE DEF c
<1>10. QED
  BY <1>2, <1>5, <1>6, <1>7, <1>9 DEF StandsStill
==============================================================================

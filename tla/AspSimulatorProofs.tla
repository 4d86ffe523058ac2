-------------------------- MODULE AspSimulatorProofs --------------------------
(***************************************************************************)
(* What the ASPM guarantees against any sequence of datagrams, for every   *)
(* length of a maneuver, of a scan and of the dead man's handle, every set *)
(* of maneuvers it may be started for, and whatever selections are sent.   *)
(***************************************************************************)
EXTENDS AspSimulator, AspTurnProofs

\* The clock of a maneuvering vehicle is no younger than the last valid gesture,
\* unless the vehicle was forgotten: only then may its age have wrapped.
Handle(a, ticks, still) ==
    a.status = "Maneuvering" /\ still < Forgotten => ticks + 1 <= a.dmhStart

IInv ==
    /\ AspInv(asp)
    /\ gesture \in 0..DmhTicks + 1 /\ stood \in 0..Forgotten
    /\ Fresh(asp, stood) /\ Handle(asp, gesture, stood)

LEMMA DatagramType ==
  ASSUME NEW d \in Datagrams
  PROVE  /\ d.mode \in Modes /\ d.select \in Selections /\ d.reply \in Replies
         /\ d.input \in Inputs
<1>1. PICK sent \in Sent, button \in Buttons, input \in Inputs, reply \in Replies :
         d = [mode |-> sent[1], select |-> sent[2], button |-> button,
              input |-> input, reply |-> reply]
  BY DEF Datagrams
<1>2. sent[1] \in Modes /\ sent[2] \in Selections
  BY SentAssumption
<1>3. QED
  BY <1>1, <1>2

-----------------------------------------------------------------------------
(* The inductive invariant, and the properties that follow from it.         *)

LEMMA InitInv == Init => IInv
<1> SUFFICES ASSUME Init PROVE IInv
  OBVIOUS
<1>1. PICK m \in Preferred : asp = Built(m)
  BY DEF Init
<1>2. AspInv(asp) /\ asp.status # "Maneuvering"
  BY <1>1, BuiltInv, AspAssumption
<1>3. gesture \in 0..DmhTicks + 1 /\ stood \in 0..Forgotten
  BY AspAssumption DEF Init, Forgotten
<1>4. QED
  BY <1>2, <1>3 DEF IInv, Handle, Fresh

LEMMA ReceiveInv ==
  ASSUME IInv, Receive
  PROVE  /\ IInv'
         /\ Advances(asp, asp') => ~asp'.paused /\ (gesture' <= DmhTicks \/ stood = Forgotten)
         /\ asp.status \in Over /\ Advances(asp, asp') => asp'.mode # asp.mode
<1>1. PICK d \in Datagrams :
        /\ asp' = Turn(asp, d)
        /\ gesture' = IF d.input = "ValidScrnInput" THEN 0 ELSE gesture
        /\ stood' = StoodAfter(asp, asp', d.input, stood)
  BY DEF Receive
<1>2. d.mode \in Modes /\ d.select \in Selections /\ d.reply \in Replies
  BY DatagramType
<1>3. /\ AspInv(asp')
      /\ Advances(asp, asp') => ~asp'.paused /\ (asp.status \in Over => asp'.mode # asp.mode)
      /\ Handles(asp, asp', d.input)
  BY <1>1, <1>2, TurnInv DEF IInv
<1>4. /\ gesture \in 0..DmhTicks + 1 /\ asp.dmhStart \in Nat /\ DmhTicks \in Nat
      /\ stood \in 0..Forgotten /\ Forgotten \in Nat
  BY <1>3, AspAssumption DEF IInv, AspInv, Consistent, AspStates, Forgotten
<1>5. gesture' \in 0..DmhTicks + 1
  BY <1>1, <1>4
<1>6. stood' \in 0..Forgotten /\ Fresh(asp', stood')
  BY <1>1, <1>3, FreshTurn DEF IInv, AspInv, Consistent
<1>7. Handle(asp', gesture', stood')
  <2> SUFFICES ASSUME asp'.status = "Maneuvering", stood' < Forgotten
               PROVE  gesture' + 1 <= asp'.dmhStart
    BY DEF Handle
  <2>1. CASE d.input = "ValidScrnInput" /\ asp'.dmhStart = 1
    BY <1>1, <2>1
  <2>2. CASE asp.status = "Maneuvering" /\ asp'.dmhStart = asp.dmhStart /\ stood < Forgotten
    <3>1. gesture + 1 <= asp.dmhStart
      BY <2>2 DEF IInv, Handle
    <3>2. QED
      BY <1>1, <1>4, <2>2, <3>1
  <2>3. CASE ~(stood < Forgotten) /\ ~(d.input = "ValidScrnInput" /\ asp'.dmhStart = 1)
    <3>1. Advances(asp, asp') /\ d.input = "ValidScrnInput"
      BY <1>1, <1>4, <2>3 DEF StoodAfter
    <3>2. asp.status = "Maneuvering" /\ asp'.dmhStart = asp.dmhStart /\ asp.dmhStart \in 1..DmhTicks + 1
      BY <1>3, <2>3, <3>1 DEF Handles
    <3>3. QED
      BY <1>1, <1>4, <3>1, <3>2
  <2>4. QED
    BY <1>3, <2>1, <2>2, <2>3 DEF Handles
<1>8. Advances(asp, asp') => gesture' <= DmhTicks \/ stood = Forgotten
  <2> SUFFICES ASSUME Advances(asp, asp'), d.input # "ValidScrnInput", stood < Forgotten
               PROVE  gesture' <= DmhTicks
    BY <1>1, <1>4
  <2>1. asp.status = "Maneuvering" /\ asp.dmhStart \in 1..DmhTicks + 1
    BY <1>3 DEF Handles
  <2>2. gesture + 1 <= asp.dmhStart
    BY <2>1 DEF IInv, Handle
  <2>3. QED
    BY <1>1, <1>4, <2>1, <2>2
<1>9. QED
  BY <1>3, <1>5, <1>6, <1>7, <1>8 DEF IInv

LEMMA TickInv ==
  ASSUME IInv, Tick
  PROVE  IInv' /\ asp'.progress = asp.progress
<1>1. /\ AspInv(asp') /\ asp'.progress = asp.progress /\ asp'.status = asp.status
      /\ asp'.dmhStart = Older(asp.dmhStart)
  BY AgedInv DEF IInv, Tick
<1>2. gesture \in 0..DmhTicks + 1 /\ asp.dmhStart \in Nat /\ DmhTicks \in Nat /\ asp \in AspStates
  BY AspAssumption DEF IInv, AspInv, Consistent, AspStates
<1>3. /\ gesture' = IF gesture > DmhTicks THEN gesture ELSE gesture + 1
      /\ stood' = StoodLonger(asp, stood)
  BY DEF Tick
<1>4. gesture' \in 0..DmhTicks + 1
  BY <1>2, <1>3
<1>5. /\ stood' \in 0..Forgotten /\ Fresh(asp', stood')
      /\ asp.status = "Maneuvering" /\ stood' < Forgotten
           => stood < Forgotten /\ asp'.dmhStart = asp.dmhStart + 1
  BY <1>1, <1>2, <1>3, FreshTick DEF IInv
<1>6. Handle(asp', gesture', stood')
  BY <1>1, <1>2, <1>3, <1>5 DEF IInv, Handle
<1>7. QED
  BY <1>1, <1>4, <1>5, <1>6 DEF IInv

\* A step keeps the invariant and does what the two action properties say.
LEMMA StepInv ==
  ASSUME IInv, [Next]_vars
  PROVE  /\ IInv'
         /\ [Advances(asp, asp') => ~asp'.paused /\ (gesture' <= DmhTicks \/ stood = Forgotten)]_vars
         /\ [asp.status \in Over /\ Advances(asp, asp') => asp'.mode # asp.mode]_vars
<1>1. CASE Receive
  BY <1>1, ReceiveInv
<1>2. CASE Tick
  <2>1. IInv' /\ asp'.progress = asp.progress
    BY <1>2, TickInv
  <2>2. asp.progress \in Nat
    BY AspAssumption DEF IInv, AspInv, Consistent, AspStates
  <2>3. QED
    BY <2>1, <2>2 DEF Advances
<1>3. CASE UNCHANGED vars
  BY <1>3 DEF IInv, vars
<1>4. QED
  BY <1>1, <1>2, <1>3 DEF Next

\* The invariant: what is offered and how far the bar has come fit the status, and
\* the clock of a maneuvering vehicle that was not forgotten has not wrapped and is
\* no younger than the last valid gesture.
THEOREM Invariant == Spec => []IInv
<1>1. Init => IInv
  BY InitInv
<1>2. IInv /\ [Next]_vars => IInv'
  BY StepInv
<1>3. QED
  BY <1>1, <1>2, PTL DEF Spec

\* Every signal and clock of the ASPM keeps within its values.
THEOREM TypeCorrect == Spec => []TypeOK
<1>1. IInv => TypeOK
  BY DEF IInv, AspInv, Consistent, TypeOK
<1>2. QED
  BY <1>1, Invariant, PTL

\* The bar is complete exactly at the end of a maneuver and empty in a scan:
\* the 8-bit counter never passes the end, for any length of a maneuver.
THEOREM BarFits == Spec => []ProgressFitsStatus
<1>1. IInv => ProgressFitsStatus
  BY DEF IInv, AspInv, Consistent, ProgressFitsStatus
<1>2. QED
  BY <1>1, Invariant, PTL

\* "RtnToOgn" is on the list exactly when ReturnToStartAvailability offers it.
LEMMA ReturnListed ==
  ASSUME NEW a \in AspStates, NEW moved,
         ReturnToOrigin \in sendAvailableManeuvers(a, moved).maneuvers
  PROVE  a.returnToStart = "OfferEnabled"
<1>1. OfferedStraights(a) \subseteq Maneuvers
  BY DEF OfferedStraights, AspStates, Maneuvers
<1>2. OfferedPark(a, moved) \subseteq Maneuvers
  BY DEF OfferedPark, OfferedAsSensed, Maneuvers
<1>3. ReturnToOrigin \in OfferedReturn(a)
  BY <1>1, <1>2, ReturnAssumption DEF sendAvailableManeuvers, OfferedManeuvers
<1>4. QED
  BY <1>3 DEF OfferedReturn

\* What can be resumed, confirmed and returned from agrees with the status.
THEOREM OffersFit == Spec => []OffersFitStatus
<1>1. IInv => OffersFitStatus
  <2> SUFFICES ASSUME IInv PROVE OffersFitStatus
    OBVIOUS
  <2>1. Consistent(asp)
    BY DEF IInv, AspInv
  <2>2. ReturnToOrigin \in sendAvailableManeuvers(asp, TRUE).maneuvers => asp.returnToStart = "OfferEnabled"
    BY <2>1, ReturnListed DEF Consistent
  <2>3. QED
    BY <2>1, <2>2 DEF Consistent, OffersFitStatus
<1>2. QED
  BY <1>1, Invariant, PTL

\* The vehicle moves only in the time of the dead man's handle after a gesture,
\* unless it stood in Maneuvering until the age of the handle's clock wrapped, and
\* never while a mismatch pauses it.
THEOREM GestureDrives == Spec => DriveNeedsGesture
<1>1. IInv /\ [Next]_vars
        => [Advances(asp, asp') => ~asp'.paused /\ (gesture' <= DmhTicks \/ stood = Forgotten)]_vars
  BY StepInv
<1>2. QED
  BY <1>1, Invariant, PTL DEF Spec, DriveNeedsGesture

\* What was cancelled, ended or finished moves again only in another mode.
THEOREM OverStaysOver == Spec => OverIsOver
<1>1. IInv /\ [Next]_vars
        => [asp.status \in {"NotActive", "Finishing", "Ended", "Cancelled"} /\ Advances(asp, asp')
            => asp'.mode # asp.mode]_vars
  BY StepInv DEF Over
<1>2. QED
  BY <1>1, Invariant, PTL DEF Spec, OverIsOver

-----------------------------------------------------------------------------
(* The end of a scan.                                                       *)

\* What the list is made of, but for the return.
SameOffers(a, b) ==
    /\ b.active = a.active /\ b.sides = a.sides /\ b.directions = a.directions
    /\ b.explore = a.explore /\ b.exploreLimitReached = a.exploreLimitReached

\* A scan that is under way has not been told to stop exploring.
ScanOpen(a) == a.status = "Scanning" => a.explore # "OfferDisabled"

\* What no part of a turn but the modes and the scan itself does.
Quiet(a, b) ==
    /\ SameOffers(a, b) /\ b.scanStart = a.scanStart
    /\ b.status = "Scanning" => a.status = "Scanning"

\* There is a list to go on from, whether or not the vehicle has moved.
GoesOn(a) ==
    /\ a.explore # "OfferDisabled"
    /\ \A hasVehicleMoved \in BOOLEAN :
          LET offered == OfferedStraights(a) \cup OfferedPark(a, hasVehicleMoved)
          IN /\ offered # {}
             /\ hasVehicleMoved \/ getManeuverFromASP(a.active) \in offered \cup {NoManeuver}

\* A mode leaves the clock of the scan alone, and the main menu, with which a scan
\* begins, starts the exploring anew.
LEMMA ModeScans ==
  ASSUME NEW a \in AspStates, NEW mode, NEW s, ScanOpen(a)
  PROVE  LET b == EnterMode(a, mode, s)
         IN b.scanStart = a.scanStart /\ ScanOpen(b)
<1>1. PICK c : c = [a EXCEPT !.mode = mode]
  OBVIOUS
<1>2. DOMAIN c = DOMAIN a /\ c.scanStart = a.scanStart /\ c.status = a.status /\ c.explore = a.explore
  BY <1>1 DEF AspStates
<1> DEFINE Opens(b) == b.scanStart = a.scanStart /\ ScanOpen(b)
<1>3. Opens(c)
  BY <1>2 DEF ScanOpen
<1>4. Opens(MainMenu(c))
  BY <1>1 DEF MainMenu, ScanOpen, AspStates
<1>5. Opens(SpaceSelection(c))
  BY <1>1 DEF SpaceSelection, ScanOpen, AspStates
<1>6. Opens(ParkIn(c))
  BY <1>1 DEF ParkIn, Explored, Offer, ScanOpen, AspStates
<1>7. Opens(ParkOut(c, s))
  BY <1>1 DEF ParkOut, Explored, Offer, ScanOpen, AspStates
<1>8. Opens(PushPull(c, s))
  BY <1>1 DEF PushPull, Explored, Offer, ScanOpen, AspStates
<1>9. EnterMode(a, mode, s) \in {MainMenu(c), SpaceSelection(c), ParkIn(c), ParkOut(c, s), PushPull(c, s), c}
  BY <1>1 DEF EnterMode
<1> HIDE DEF Opens
<1>10. Opens(EnterMode(a, mode, s))
  BY <1>3, <1>4, <1>5, <1>6, <1>7, <1>8, <1>9
<1>11. QED
  BY <1>10 DEF Opens

LEMMA QuietParts ==
  ASSUME NEW a \in AspStates
  PROVE  /\ Quiet(a, Cancel(a)) /\ Quiet(a, EndManeuver(a)) /\ Quiet(a, Finish(a))
         /\ \A reply \in Replies : Quiet(a, checkResponse(a, reply))
<1>1. Quiet(a, Cancel(a)) /\ Quiet(a, EndManeuver(a)) /\ Quiet(a, Finish(a))
  BY DEF Quiet, SameOffers, Cancel, EndManeuver, Finish, AspStates
<1>2. ASSUME NEW reply \in Replies
      PROVE  Quiet(a, checkResponse(a, reply))
  BY DEF Quiet, SameOffers, checkResponse, AspStates, Replies
<1>3. QED
  BY <1>1, <1>2

LEMMA QuietDrive ==
  ASSUME NEW a \in AspStates, NEW button, NEW input
  PROVE  Quiet(a, Drive(a, button, input))
<1>1. PICK b : b = (IF a.paused THEN a ELSE Confirm(a, button))
  OBVIOUS
<1>2. b \in AspStates /\ Quiet(a, b)
  BY <1>1, Values DEF Confirm, Quiet, SameOffers, AspStates
<1>3. PICK c : c = [b EXCEPT !.dmhStart = DmhAfter(b, input)]
  OBVIOUS
<1>4. Quiet(b, Interrupt(c)) /\ Quiet(b, Maneuver(c))
  BY <1>2, <1>3 DEF Interrupt, Maneuver, Quiet, SameOffers, AspStates
<1>5. Drive(a, button, input) \in {b, Interrupt(c), Maneuver(c)}
  BY <1>1, <1>3 DEF Drive
<1>6. QED
  BY <1>2, <1>4, <1>5 DEF Quiet, SameOffers

\* What is found at the end of a scan is on the list.
LEMMA ScanFinds ==
  ASSUME NEW a \in AspStates, a.status = "Scanning", ScanOpen(a), ~a.exploreLimitReached
  PROVE  GoesOn(FinishScan(a))
<1> DEFINE family == FamilyOf(a.preferred)
           park == family \in {"In", "Out"}
           b == FinishScan(a)
<1>1. /\ b.active.type = (IF family \in {"Str", "Ndg"} THEN "PushPull" ELSE "Remote")
      /\ b.active.mode = (IF family = "In" THEN "ParkIn" ELSE "ParkOut")
      /\ park => b.active.orientation = OrientationOf(a.preferred.dir)
      /\ park => b.sides = {"Left", "Right"} /\ b.explore = a.explore
      /\ ~park => b.directions = {"Fwd", "Rvs"} /\ b.explore = "OfferEnabled"
  <2>1. a.active \in Actives
    BY DEF AspStates
  <2>2. QED
    BY <2>1 DEF FinishScan, AspStates, Actives
<1>2. a.preferred \in Maneuvers \cup {NoManeuver}
  BY DEF AspStates
<1> HIDE DEF b
<1> SUFFICES GoesOn(b)
  BY DEF b
<1>3. CASE park
  <2>1. PICK m \in Maneuvers : m = a.preferred /\ m \in ParkManeuvers /\ family = m.family
    BY <1>2, <1>3 DEF FamilyOf, Maneuvers
  <2>2. b.active.type = "Remote" /\ b.active.mode = (IF m.family = "In" THEN "ParkIn" ELSE "ParkOut")
        /\ b.active.orientation = OrientationOf(m.dir)
        /\ b.sides = {"Left", "Right"} /\ b.explore # "OfferDisabled"
    BY <1>1, <1>3, <2>1 DEF ScanOpen
  <2>3. m \in OfferedAsSensed(b)
    BY <2>1, <2>2 DEF OfferedAsSensed, ParkManeuvers
  <2>4. m.family # "In" => m.family = "Out"
    BY <2>1 DEF ParkManeuvers
  <2>5. ASSUME NEW hasVehicleMoved \in BOOLEAN
        PROVE  m \in OfferedPark(b, hasVehicleMoved)
    BY <2>1, <2>2, <2>3, <2>4 DEF OfferedPark
  <2>6. ASSUME NEW n \in Maneuvers, Describes(b.active, n)
        PROVE  \A hasVehicleMoved \in BOOLEAN : n \in OfferedPark(b, hasVehicleMoved)
    <3>1. n.family \notin {"Str", "Ndg"} /\ n \in ParkManeuvers
          /\ b.active.mode = (IF n.family = "In" THEN "ParkIn" ELSE "ParkOut")
          /\ b.active.orientation = OrientationOf(n.dir)
      BY <2>2, <2>6 DEF Describes, ParkManeuvers
    <3>2. n.side \in {"Left", "Right"} /\ n.family \in {"In", "Out"}
      BY <3>1 DEF ParkManeuvers
    <3>3. n \in OfferedAsSensed(b)
      BY <2>2, <3>1, <3>2 DEF OfferedAsSensed
    <3>4. QED
      BY <3>1, <3>2, <3>3 DEF OfferedPark
  <2>7. getManeuverFromASP(b.active) = NoManeuver
        \/ \A hasVehicleMoved \in BOOLEAN : getManeuverFromASP(b.active) \in OfferedPark(b, hasVehicleMoved)
    <3> DEFINE Found(n) == n \in Maneuvers /\ Describes(b.active, n)
    <3>1. CASE \E n : Found(n)
      <4>1. Found(CHOOSE n : Found(n))
        BY <3>1
      <4>2. getManeuverFromASP(b.active) \in Maneuvers /\ Describes(b.active, getManeuverFromASP(b.active))
        BY <3>1 DEF getManeuverFromASP
      <4>3. QED
        BY <2>6, <4>2
    <3>2. CASE ~ \E n : Found(n)
      BY <3>2 DEF getManeuverFromASP
    <3>3. QED
      BY <3>1, <3>2
  <2>8. ASSUME NEW hasVehicleMoved \in BOOLEAN
        PROVE  LET offered == OfferedStraights(b) \cup OfferedPark(b, hasVehicleMoved)
               IN offered # {} /\ getManeuverFromASP(b.active) \in offered \cup {NoManeuver}
    BY <2>5, <2>7
  <2>9. QED
    BY <2>2, <2>8 DEF GoesOn
<1>4. CASE ~park
  <2>1. b.directions = {"Fwd", "Rvs"} /\ b.explore = "OfferEnabled" /\ b.active.mode = "ParkOut"
    BY <1>1, <1>4
  <2>2. OfferedStraights(b) = [family : {"Str"}, side : {"Center"}, dir : {"Fwd", "Rvs"}]
    BY <2>1 DEF OfferedStraights
  <2>3. OfferedStraights(b) # {}
    <3>1. [family |-> "Str", side |-> "Center", dir |-> "Fwd"] \in OfferedStraights(b)
      BY <2>2
    <3>2. QED
      BY <3>1
  <2>4. ASSUME NEW n \in Maneuvers, Describes(b.active, n)
        PROVE  n \in OfferedStraights(b) \cup OfferedPark(b, FALSE)
    <3>1. CASE family \in {"Str", "Ndg"}
      <4>1. n.family \in {"Str", "Ndg"} /\ b.active.type = "PushPull"
        BY <1>1, <2>4, <3>1 DEF Describes
      <4>2. n.family = "Str" 
        BY <2>4, <4>1 DEF Describes, Maneuvers, ParkManeuvers
      <4>3. QED
        BY <2>2, <4>2 DEF Maneuvers, ParkManeuvers
    <3>2. CASE family \notin {"Str", "Ndg"}
      <4>1. n \in ParkManeuvers /\ n.family # "In"
        BY <1>1, <1>4, <2>1, <2>4, <3>2 DEF Describes
      <4>2. n.family = "Out"
        BY <4>1 DEF ParkManeuvers
      <4>3. QED
        BY <2>1, <4>1, <4>2 DEF OfferedPark
    <3>3. QED
      BY <3>1, <3>2
  <2>5. getManeuverFromASP(b.active) \in OfferedStraights(b) \cup OfferedPark(b, FALSE) \cup {NoManeuver}
    <3>1. CASE \E n \in Maneuvers : Describes(b.active, n)
      <4>1. getManeuverFromASP(b.active) \in Maneuvers /\ Describes(b.active, getManeuverFromASP(b.active))
        BY <3>1 DEF getManeuverFromASP
      <4>2. QED
        BY <2>4, <4>1
    <3>2. CASE ~ \E n \in Maneuvers : Describes(b.active, n)
      BY <3>2 DEF getManeuverFromASP
    <3>3. QED
      BY <3>1, <3>2
  <2>6. ASSUME NEW hasVehicleMoved \in BOOLEAN
        PROVE  LET offered == OfferedStraights(b) \cup OfferedPark(b, hasVehicleMoved)
               IN /\ offered # {}
                  /\ hasVehicleMoved \/ getManeuverFromASP(b.active) \in offered \cup {NoManeuver}
    <3>1. OfferedStraights(b) \cup OfferedPark(b, hasVehicleMoved) # {}
      BY <2>3
    <3>2. CASE hasVehicleMoved = TRUE
      BY <3>1, <3>2
    <3>3. CASE hasVehicleMoved = FALSE
      BY <2>5, <3>1, <3>3
    <3>4. QED
      BY <3>2, <3>3
  <2>7. QED
    BY <2>1, <2>6 DEF GoesOn
<1>5. QED
  BY <1>3, <1>4

\* A scan goes on, or it ends and has found something.
LEMMA ScanScans ==
  ASSUME NEW a, Consistent(a), ScanOpen(a)
  PROVE  LET b == Scan(a)
         IN /\ ScanOpen(b)
            /\ a.scanStart # 0 /\ b.scanStart = 0 => b.exploreLimitReached \/ GoesOn(b)
<1>0. a \in AspStates
  BY DEF Consistent
<1>1. CASE Scan(a) = a
  BY <1>1
<1>2. CASE Scan(a) = StartScan(a)
  <2>1. StartScan(a).scanStart = 1 /\ StartScan(a).status = a.status /\ StartScan(a).explore = a.explore
    BY <1>0 DEF StartScan, AspStates
  <2>2. QED
    BY <1>2, <2>1 DEF ScanOpen
<1>3. CASE Scan(a) = FinishScan(a) /\ a.status = "Scanning"
  <2>1. FinishScan(a).status = "Selecting" /\ FinishScan(a).exploreLimitReached = a.exploreLimitReached
    BY <1>0 DEF FinishScan, AspStates
  <2>2. QED
    BY <1>0, <1>3, <2>1, ScanFinds DEF ScanOpen
<1>4. QED
  BY <1>1, <1>2, <1>3 DEF Scan

\* What is read of an ASPM is the same after a quiet step.
LEMMA QuietKeeps ==
  ASSUME NEW a, NEW b, Quiet(a, b)
  PROVE  /\ ScanOpen(a) => ScanOpen(b)
         /\ GoesOn(a) => GoesOn(b)
<1>1. ScanOpen(a) => ScanOpen(b)
  BY DEF Quiet, SameOffers, ScanOpen
<1>2. OfferedStraights(b) = OfferedStraights(a)
  BY DEF Quiet, SameOffers, OfferedStraights
<1>3. \A moved \in BOOLEAN : OfferedPark(b, moved) = OfferedPark(a, moved)
  BY DEF Quiet, SameOffers, OfferedPark, OfferedAsSensed
<1>4. QED
  BY <1>1, <1>2, <1>3 DEF GoesOn, Quiet, SameOffers

LEMMA TurnScans ==
  ASSUME NEW a, AspInv(a), ScanOpen(a),
         NEW d, d.mode \in Modes, d.select \in Selections, d.reply \in Replies
  PROVE  LET b == Turn(a, d)
         IN /\ ScanOpen(b)
            /\ a.scanStart # 0 /\ b.scanStart = 0 => b.exploreLimitReached \/ GoesOn(b)
<1> DEFINE m == setDeviceControlMode(a, d.mode, d.select)
           r == checkResponse(m, d.reply)
           b == updateSignalsAfterMsgFromTCM(r, d.button, d.input)
<1>1. Turn(a, d) = b
  BY DEF Turn
<1>2. AspInv(m) /\ ScanOpen(m) /\ m.scanStart = a.scanStart
  <2>1. a \in AspStates
    BY DEF AspInv, Consistent
  <2>2. QED
    BY <2>1, ModeInv, ModeScans DEF setDeviceControlMode
<1> HIDE DEF m
<1>3. AspInv(r) /\ Quiet(m, r)
  <2>1. m \in AspStates
    BY <1>2 DEF AspInv, Consistent
  <2>2. QED
    BY <1>2, <2>1, ResponseInv, QuietParts
<1>4. ScanOpen(r) /\ r.scanStart = a.scanStart
  BY <1>2, <1>3, QuietKeeps DEF Quiet
<1> HIDE DEF r
<1>5. r \in AspStates /\ Consistent(r) /\ AtRest(r)
  BY <1>3 DEF AspInv, Consistent, AtRest
<1>6. CASE d.button = "CancellationSelected"
  <2>1. b = Cancel(r)
    BY <1>6 DEF updateSignalsAfterMsgFromTCM
  <2>2. QED
    BY <1>1, <1>4, <1>5, <2>1, QuietParts, QuietKeeps DEF Quiet
<1>7. CASE d.button = "ReturnToStart" /\ CanReturn(r)
  <2>1. b = EnterMode(r, ModeOf(r.opposite), InputSignals(r.opposite))
    BY <1>7 DEF updateSignalsAfterMsgFromTCM, ReturnToStart
  <2>2. QED
    BY <1>1, <1>4, <1>5, <2>1, ModeScans
<1>8. CASE d.button # "CancellationSelected" /\ ~(d.button = "ReturnToStart" /\ CanReturn(r))
  <2> DEFINE e == IF d.button = "EndManouevre" THEN EndManeuver(r) ELSE r
             f == Scan(e)
             g == Drive(f, d.button, d.input)
  <2>1. b = Finish(g)
    BY <1>8 DEF updateSignalsAfterMsgFromTCM
  <2>2. Consistent(e) /\ AtRest(e) /\ ScanOpen(e) /\ e.scanStart = r.scanStart
    BY <1>3, <1>4, <1>5, EndInv, QuietParts, QuietKeeps DEF Quiet
  <2> HIDE DEF e
  <2>3. /\ Consistent(f) /\ AtRest(f) /\ ScanOpen(f)
        /\ e.scanStart # 0 /\ f.scanStart = 0 => f.exploreLimitReached \/ GoesOn(f)
    BY <2>2, ScanInv, ScanScans
  <2> HIDE DEF f
  <2>4. Consistent(g) /\ Quiet(f, g)
    BY <2>3, DriveInv, QuietDrive DEF Consistent
  <2> HIDE DEF g
  <2>5. Quiet(g, b)
    BY <2>1, <2>4, QuietParts DEF Consistent
  <2> HIDE DEF b
  <2>6. Quiet(f, b)
    BY <2>4, <2>5 DEF Quiet, SameOffers
  <2>7. QED
    BY <1>1, <1>4, <2>2, <2>3, <2>6, QuietKeeps DEF Quiet, SameOffers
<1>9. QED
  BY <1>6, <1>7, <1>8

\* A scan that begins has no explore offer of the one before.
LEMMA ScanInit == Init => ScanOpen(asp)
<1> SUFFICES ASSUME Init PROVE ScanOpen(asp)
  OBVIOUS
<1>1. PICK m \in Preferred : asp = Built(m)
  BY DEF Init
<1>2. Built(m).explore = "None"
  BY DEF Built, EnterMode, ParkIn, Explored, Offer
<1>3. QED
  BY <1>1, <1>2 DEF ScanOpen

LEMMA ScanStep ==
  ASSUME IInv, ScanOpen(asp), [Next]_vars
  PROVE  /\ ScanOpen(asp)'
         /\ asp.scanStart # 0 /\ asp'.scanStart = 0 => asp'.exploreLimitReached \/ GoesOn(asp')
<1>1. CASE Receive
  <2>1. PICK d \in Datagrams : asp' = Turn(asp, d)
    BY <1>1 DEF Receive
  <2>2. d.mode \in Modes /\ d.select \in Selections /\ d.reply \in Replies
    BY DatagramType
  <2>3. LET b == Turn(asp, d)
        IN /\ ScanOpen(b)
           /\ asp.scanStart # 0 /\ b.scanStart = 0 => b.exploreLimitReached \/ GoesOn(b)
    BY <2>2, TurnScans DEF IInv
  <2>4. QED
    BY <2>1, <2>3
<1>2. CASE Tick
  <2>1. asp.scanStart \in 0..TimerWrap
    BY DEF IInv, AspInv, Consistent, AspStates
  <2>2. /\ asp'.scanStart = Older(asp.scanStart)
        /\ asp'.status = asp.status /\ asp'.explore = asp.explore
    BY <1>2 DEF Tick, Aged, IInv, AspInv, Consistent, AspStates
  <2>3. asp.scanStart # 0 => asp'.scanStart # 0
    BY <2>1, <2>2, OlderBound
  <2>4. QED
    BY <2>2, <2>3 DEF ScanOpen
<1>3. CASE UNCHANGED vars
  BY <1>3 DEF vars, ScanOpen
<1>4. QED
  BY <1>1, <1>2, <1>3 DEF Next

LEMMA ScanInvariant == Spec => []ScanOpen(asp)
<1>1. Init => ScanOpen(asp)
  BY ScanInit
<1>2. IInv /\ ScanOpen(asp) /\ [Next]_vars => ScanOpen(asp)'
  BY ScanStep
<1>3. QED
  BY <1>1, <1>2, Invariant, PTL DEF Spec

\* What goes on is what the property asks of the list.
LEMMA ListGoesOn ==
  ASSUME NEW a, GoesOn(a), NEW hasVehicleMoved \in BOOLEAN
  PROVE  LET list == sendAvailableManeuvers(a, hasVehicleMoved)
         IN /\ list.maneuvers # {}
            /\ hasVehicleMoved \/ list.default \in list.maneuvers \cup {NoManeuver}
            /\ list.continue_exploring
<1> DEFINE offered == OfferedStraights(a) \cup OfferedPark(a, hasVehicleMoved)
           list == sendAvailableManeuvers(a, hasVehicleMoved)
<1>1. /\ list.default = getManeuverFromASP(a.active)
      /\ list.continue_exploring = (a.explore # "OfferDisabled")
      /\ offered \subseteq list.maneuvers
  BY DEF sendAvailableManeuvers, checkContinueExploratoryMode, OfferedManeuvers
<1>2. offered # {} /\ a.explore # "OfferDisabled"
  BY DEF GoesOn
<1>3. hasVehicleMoved \/ getManeuverFromASP(a.active) \in offered \cup {NoManeuver}
  BY DEF GoesOn
<1> HIDE DEF list, offered
<1>4. list.maneuvers # {} /\ list.continue_exploring
  BY <1>1, <1>2
<1>5. hasVehicleMoved \/ list.default \in list.maneuvers \cup {NoManeuver}
  BY <1>1, <1>3
<1>6. QED
  BY <1>4, <1>5 DEF list

\* A scan ends with a list the client can go on from, for every maneuver the
\* simulator is started for and every selection while it scans.
THEOREM ScansFind == Spec => ScanEndsWithOffers
<1>1. IInv /\ ScanOpen(asp) /\ [Next]_vars =>
        [asp.scanStart # 0 /\ asp'.scanStart = 0
           => \/ asp'.exploreLimitReached
              \/ \A hasVehicleMoved \in BOOLEAN :
                    LET list == sendAvailableManeuvers(asp', hasVehicleMoved)
                    IN /\ list.maneuvers # {}
                       /\ hasVehicleMoved \/ list.default \in list.maneuvers \cup {NoManeuver}
                       /\ list.continue_exploring]_vars
  <2> SUFFICES ASSUME IInv, ScanOpen(asp), [Next]_vars, asp.scanStart # 0, asp'.scanStart = 0,
                      ~asp'.exploreLimitReached, NEW hasVehicleMoved \in BOOLEAN
               PROVE  LET list == sendAvailableManeuvers(asp', hasVehicleMoved)
                      IN /\ list.maneuvers # {}
                         /\ hasVehicleMoved \/ list.default \in list.maneuvers \cup {NoManeuver}
                         /\ list.continue_exploring
    OBVIOUS
  <2>1. GoesOn(asp')
    BY ScanStep
  <2>2. QED
    BY <2>1, ListGoesOn
<1>2. QED
  BY <1>1, Invariant, ScanInvariant, PTL DEF Spec, ScanEndsWithOffers
==============================================================================

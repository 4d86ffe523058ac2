# Verification of the telematics API server

TLA+ modules, TLC runs and TLAPS proofs for the telematics unit of this
repository: the server that lets a mobile device park a vehicle remotely. The
modules are written from the code in `src/src`, `src/include` and
`src/utils/asp_simulator`; documents are used only where a run says so.

Each run is `tlc -config X.cfg M` with the module and the configuration that
`PROJECT.json` names; the proofs are checked with `tlapm XProofs.tla`, one
module of proofs at a time.

## 1. The system

A mobile device (the *client*) talks JSON over TCP to the *telematics unit*
(TCM). The TCM keeps some two hundred signals in one object, the
`SignalHandler`, and exchanges them about every 30 ms as bit-packed UDP datagrams
with the *ASP module* (ASPM) of the vehicle. The ASPM in the repository is a
simulator. Five threads of the TCM share the signals:

| thread | code | what it does |
|---|---|---|
| session | `RemoteDeviceHandler::spin`, `messageEvent_` | accepts a client, serves one message at a time; some handlers wait in a loop for a signal to change |
| signal loop | `SignalHandler::updateSignalEventLoop_` | encode and send, receive and decode, sleep; holds the mutex meanwhile, which no other thread takes |
| button loop | `SignalHandler::buttonPressEventLoop_` | lets go of a pressed button after 240 ms |
| ranging | `SignalHandler::rangingRequestEventLoop_` | asks the key fob for its range at a rate that depends on approval and maneuver |
| status | `RemoteDeviceHandler::statusUpdateEventLoop_` | reports changed signals to the client, on the same socket as the session |

### Inventory

| component | state | operations | what makes it correct |
|---|---|---|---|
| session | connection approval, the request being served | connect, disconnect, one handler per message group | a request is answered; a decision taken on stale signals does no harm |
| PIN validation | verdict, failure counter, lockout start and limit, last PIN | `setInControlRemotePin`, called by send_pin (repeatedly) and by a disconnection | lockouts climb one rung at a time, hold for their time and end; verdict, timer and counter agree |
| fob ranging | rate, position of the thread | test approval, rate, status; write a rate; request; sleep | an approved device is ranged without gaps, at the faster rate during a maneuver, and no longer once it is gone |
| button loop | button, time of the press | press, release | a press reaches the ASPM and does not outlive its time |
| signal exchange | TCM signals, ASPM signals last decoded | encode, decode | the two ends stay in step |
| maneuver signals | none | name to signals and signals to name | reading back what was selected |
| maneuvers offered | none | `sendAvailableManeuvers_` | what is offered fits what the vehicle is doing, and there is something to go on from |
| dead man's handle | input, its time in the ASPM | deadmans_handle, timeout, interruption | the vehicle stops when the client lets go or falls silent |
| ASP simulator | mode, status, offers, progress, scan and handle timers, opposite maneuver, exploration counter, challenge warning, pause | one turn per datagram | moves only with a fresh gesture; what is over stays over |
| challenge and response | pending challenges, 8-bit index, warning, what was passed on and answered last | generate, relay, answer, check | only wrong answers pause the vehicle; an answer in time counts |
| status updates | the signals seen last (`prevSig_`) | compare, store, compose, send | the client's last word on a signal is the right one |
| TCP client link | socket, connected flag | accept, framed read, framed write, close | messages stay framed, a lost client is noticed |
| bit packing | none | encode, decode | decode undoes encode |
| templates, main, placeholder client | | | formatting, start up, an interactive test tool |

`PROJECT.json` lists the same components with what is modelled of each, and
under `hazards` each place where something can go wrong that a test would
hardly reach, with the property that watches it or the reason there is none
yet.

### What is hard

* **Unlocked sharing.** Only the signal loop takes the mutex. Every handler and
  the ranging, button and status threads read and write single signals in the
  middle of each other's work.
* **Staleness.** Handlers decide from the last decoded datagram, which is up to
  an exchange old, and write signals that take effect in the next one.
* **Timers** that are started, left running, forgotten and compared modulo 2^32:
  lockout, button, dead man's handle, scan.
* **Fall-through and early return** in long `switch` statements, so that some of
  the variables of one decision are set and others are not.
* **Read now, write later.** A message's signals are read, then it is sent; the
  status thread compares, stores and sends; a challenge is sent, then read again
  to be stored. Another thread acts in between.
* **One socket, two writers, a client that may vanish.** Messages are written in
  four parts without a lock and read until enough bytes are there.
* **Waiting loops** in handlers (send_pin, list_maneuvers, maneuver_init,
  cancel_maneuver), which stop the session thread until another thread acts.

## 2. Modules

```
PinLadder  <--implements--  PinAuth  <--  AuthorisationProofs, MCPinAuth
                         FobRanging  <--  AuthorisationProofs

ManeuverSignals  <--  ManeuverOffers  <--  AspTurn  <--  AspTurnProofs
   AspTurn  <--  AspSimulator  <--  AspSimulatorProofs (with AspTurnProofs), MCAspSimulator
   AspTurn  <--  RemoteDrive   <--  RemoteDriveProofs  (with AspTurnProofs), MCRemoteDrive
   AspSimulator  <--implements--  RemoteDrive  (in RemoteDriveProofs)

StatusUpdate  <--  StatusUpdateProofs, MCStatusUpdate

ClientChannel  <--implements--  ClientLink  <--  ClientLinkProofs, MCClientLink

ChallengeResponse  <--  ChallengeResponseProofs, MCChallengeResponse

BitPacking  <--  SignalExchange  <--  SignalExchangeProofs, MCSignalExchange
```

**`PinAuth`** is PIN validation as the code does it. Its variables are the
members of `SignalHandler` by their names, the clock, the client's presence and
the PIN that send_pin is repeating. `setInControlRemotePin(pin)` is the whole
function: no PIN stored, the reset of an authorisation, a lockout that runs, the
comparison, and in it the ladder (`RaiseLock`), the doubly incremented counter
(`LockOnThird`, `CountFailure`) and success. `SendPin`, `RepeatPin` and
`Disconnect` are its callers. The difference of two times is taken modulo
`TimerWrap`, as the code's `unsigned int` does; counters are taken modulo 256.

**`PinLadder`** says what this promises, in four variables: an attempt is weighed
or refused, the third failure in a row locks, each further one locks for longer,
success starts again. `PinAuth!ImplementsLadder` is the refinement.

**`FobRanging`** breaks the ranging thread, `spin` and the signal loop into single
reads and writes of the three shared signals. Status values other than the
three the loop knows are one value, `Resting`.

**`ManeuverSignals`** holds the fourteen maneuvers as records (family, side,
direction), the selection signals the TCM sends for each, and which maneuver the
ASPM's active signals are read as. **`ManeuverOffers`** is
`sendAvailableManeuvers_`: the list, its default and `continue_exploring` as
functions of the availability signals. Neither has state.

**`AspTurn`** is one turn of the ASPM's signal loop as a function on a record:
`setDeviceControlMode` (taken up only when the mode changed), `checkResponse`,
`updateSignalsAfterMsgFromTCM` (buttons, scan, dead man's handle, completion).
Messages to the driver are left out; a reply is right, wrong or not checked. The clocks of a
scan and of the handle wrap at `TimerWrap` as `diffTimeval` does, the exploration counter at
`ExploreWrap`. A vehicle that stands in the middle of a maneuver (paused, or without datagrams)
for `Forgotten` ticks or more may find its last gesture fresh again; the history `stood`
counts these ticks.
**`AspSimulator`** feeds it any datagrams at any times, and looks at the list of
maneuvers that its signals would give. `Sent` are the modes and selections that the datagrams
carry; a selection need not belong to its mode, since a datagram may be made in the midst of a
request. `NoMode` stands for all the modes in which the ASPM does nothing.

**`RemoteDrive`** is the session's maneuver handlers with the signals they write
(`tcm`), the signals they read (`view`, what was last decoded), the exchange with
the ASPM of `AspTurn`, the button loop and time. A handler is one step up to its
end or to the loop it waits in, each turn of such a loop is a step. `Exchange`
sends and lets the ASPM take its turn, `Decode` brings the answer in; the client
and every other thread may act between them. A tick is 30 ms, and every thread
that is due runs before the next one. PIN validation appears as its verdict only.
A request that changes nothing (a duplicate maneuver_init, a refused one, a
status request) is no step.

**`StatusUpdate`** is how the client learns of changes. The status thread walks
through `checkForNewStatusSignals_` comparison by comparison and store by store,
each a step (`Compare`, `Take`, which reads the signal a second time, `Store`, `Switch`), composes and transmits in two steps,
and runs from the constructor's initializers on, before the constructor has
stored `prevSig_` (`Construct`). The session thread answers requests with the
same messages and writes `prevSig_` after a send_pin (`StorePin`); `Decode`
changes signals at any time. Three of the signals stand for the nine that are
compared. `heard` is what the client was told last of each, `slipped` those of
which it was told out of order.

**`ClientLink`** is `SocketHandler` under its two users. The client's messages
arrive byte by byte and may be cut off anywhere; `ReadHeaderLen`,
`ReadBodyLen`, `ReadContents` and `EndContents` are the reads of `receiveTCP`,
`Handle` and `EndSession` the decisions of `spin`, with the value of the last read
that decides them (`readVal`). A length is read by one read (`Takes`), which may find a part of
it only; the rest of its buffer is 0, what follows is taken for what it is not, and the history
`cut` notes it. A header longer than the C string that `spin` passes on ends the process
(`Throw`). `WritePart` is one of the four writes of
`sendTCP`, made by the session thread (`Answer`) or the status thread
(`StatusMessage`). **`ClientChannel`** is what the handlers rely on: whole
messages, in order, each once, and a connection that may end at any time; once a length was
read in part (`Cut`) it promises nothing until the next client.

**`ChallengeResponse`** follows a challenge from the ASPM's pending table through
the datagram, the status thread (`sendMobileChallenge_`, `StoreChallenge`), the
client and the session thread (`Answer`) back to `checkResponse_`. The reply is
read into a datagram in two steps, its index and the rest, so that an answer may
tear it. The arithmetic is abstract: an answer is right or wrong for the
challenge it was made for. `late`, `errors` and `tears` count what may bring about
a mismatch.

**`BitPacking`** is how signals become bytes: `encodeTCMSignalData` part by part
and `decodeTCMSignalData` byte by byte, with a word as the set of its 1-bits.
**`SignalExchange`** runs them beside the session thread, which writes the signals
of a request one by one, and the button loop, with its test and two writes. The
lock of the signal loop is not in the model because nobody else takes it. A
datagram may get lost (`Lose`), and then nothing goes any more. `shown` and `raced` are the
history of the button: whether the ASPM was sent what was pressed last, and whether the press
met the button loop at work on the one before, or its client left before it was sent.

## 3. Runs

| run | instance | shows |
|---|---|---|
| `pinauth` | 2 PINs, lockouts of 1, 2, 3 ticks, timer wraps at 5, clock to 16 | timer, counter and verdict agree, lockouts hold and release, `PinLadder` is implemented, send_pin repeats in vain for two reasons only |
| `pinauth_answered` | same, with fairness | *violated*: every send_pin is answered |
| `fobranging` | rates of 1 and 3 ticks | at most one late request, faster rate in time, no gaps |
| `aspsimulator` | progress bar of 2, scan and handle that time out after the next tick, one straight and two park maneuvers, one selection with the gear of before | driving needs a fresh gesture until the handle's clock wraps; over is over; the bar and what list_maneuvers offers fit the status; a scan ends with a list to go on from |
| `remotedrive` | vehicle before a space, leave or return; bar of 3, handle and button of 1 tick | stops after release until the handle's clock wraps; mobile_init does not reset a driven vehicle |
| `remotedrive_waits` | leave a space; smaller bar and handle, with fairness | waiting handlers end |
| `remotedrive_silent` | same | *violated*: the input of the handle times out with a silent client |
| `statusupdate` | two maneuver statuses, two verdicts, with fairness | the client's last word is the one the thread holds, and in the end the signal itself, but for two named slips |
| `clientlink` | up to 2 messages, empty or of two bytes, lengths of two bytes of one bit, any number of clients, with fairness | `ClientChannel` is implemented, but for lengths read in part; framing holds unless two messages overlap; a session ends for a reason; a lost client is noticed |
| `challenge` | 2 indices, 2 numbers, at most 2 wrong, 1 late and 2 torn answers | only errors pause; what is held was told; an answer in time counts |
| `challenge_third` | 3 indices | *violated*: two failures are tolerated |
| `exchange` | seven signals of the TCM_LM PDU, three requests, two of them per run, with fairness | signals arrive as read, a mode is taken up with its own request, a button is shown and let go, what was written arrives |

Why the bounds are enough:

* The lockouts must be ordered and shorter than the wrap; 1 < 2 < 3 < 5 is the
  shortest such choice, and 16 ticks hold the whole ladder and a wrap after it.
* Two PINs suffice: validation only compares with the stored one.
* Rates 1 and 3 leave room for every step of the other threads within a sleep.
* A bar of 2 or 3 instead of 100 still separates the first turn, a later turn
  and completion. Of the clocks only the history `stood` stops at a bound, `Forgotten`, past
  which nothing asks how long it was.
* The time limits of 0 or 1 tick still let a timer start, run and expire. `TimerWrap` is one
  tick more than they need, so that clocks wrap in every run that has them; `ExploreWrap` is the
  same for the counter of explorations.
* In `aspsimulator` a simulator started for driving straight is left to the proofs, which are for
  every maneuver it may be started for and for every selection.
* `Burst` bounds what the client does between two ticks to one request, because
  the session serves one message at a time and a client is slower than 30 ms;
  where in the exchange the request falls is free. (The proofs need no bound.)
* `MaxAttempts` stands for 5 attempts of maneuver_init, each of which repeats
  the same step. `Verdicts` is {TRUE} in the liveness runs: a wrong PIN only
  refuses requests there.
* Two maneuver statuses let the status change and change back; one of them is told
  by a message of its own and the other is not. The signals left out are
  compared in the same way as the one kept.
* Two messages let a read find the next message behind the one it reads, and the
  value of the last read outlive its message; two bytes of contents can be cut
  in the middle. `LengthBytes` = 2 lets a length be read in part, `Byte` = {0, 1} and `UInt32` = 4
  keep the numbers small that the misread lengths stand for, and let their sum wrap. The
  connections are not bounded.
* Two indices come round while the client has challenges to answer; two numbers
  let a new challenge be the old one or another. `Every` = 2 instead of 100 only
  sets how often there is a challenge.
* The seven signals keep what is hard about the layout of the PDU: a 12-bit value
  that begins in the middle of a byte, a 2-bit one that lies in two, a gear that
  is read before the mode and a type that is read after it. The proofs need no such
  excerpt: they are for any table. The requests are a straight maneuver, a parking one and a touch of the handle with a slider value
  beyond its width. `Connections` = 1 and `MaxRequests` = 2 let a request meet the
  datagram of the one before.

The `challenge` runs use the symmetry of the numbers, which are only compared with
each other; they check invariants alone. No other run has symmetry: values that
could be permuted are used by name. Deadlock is checked in all runs but
`clientlink`, where the process may be ended by SIGPIPE and the client may keep
silent for ever, and `exchange`, where the client may be done and a lost datagram stops both
ends for good.

**Fairness.** In every specification what is fair is a `while` loop of a thread
that never blocks but in the way modelled; nothing is assumed of the client, of
the contents of datagrams or of the order of threads.

* `PinAuth!FairSpec` (`pinauth_answered`): send_pin's own loop runs on.
* `RemoteDrive!FairSpec`: *some* loop of the program or a tick is taken whenever one
  can be; the ticks make the loops share the time.
* `StatusUpdate!FairSpec`: the constructor, the status thread and a send_pin that is
  being served go on. Signals need never change.
* `ClientLink!FairSpec`: the session thread goes on; client and status thread need not.
* `SignalExchange!FairSpec`: the session thread finishes the request it serves,
  button loop and signal loop run, and the time of a press passes.

## 4. Proofs

Each theorem is for every value of the constants that the module's named
assumptions allow, and each component has inductive invariants from which its results follow.

`AuthorisationProofs` is about `PinAuth` and `FobRanging`. Of the PIN it proves,
for every set of PINs, every three increasing limits below the wrap and every length of the clock (`PinAssumption`,
`TimerAssumption`), `PinTypeCorrect`, `TimerCorrect`, `CounterCorrect`,
`CorrectPinCorrect`, `LockoutIsHeld`, `LockoutIsReleased`, `HangsOnly` and `LadderImplemented`.
All rest on `PinInvariant`, that `PinInv` (the conjunction of the four invariants)
is inductive. No one of the four is inductive alone. A failure in a lockout
leads to the next rung only, and with the right limit, if timer and verdict
agree; the third failure is recognised only if the counter agrees with the
verdict; and that a disconnection expires nothing but an authorisation needs
the verdict to be the one on the PIN passed last. `CallInv` proves that one call
preserves the invariant whoever makes it, and `NextInv` uses it for all three
callers. `LockoutIsHeld` needs one fact of arithmetic more: within a timed
lockout the wrapped difference of the times is the true one
(`RemainderBelow`, `InForceIsRunning`). `LockoutIsReleased` is the other half: a lockout
whose time is over, and whose difference of times has not come round the wrap, is left
by the next PIN to a verdict that is not this lockout. `HangsOnly` says that a send_pin repeats in
vain before the first verdict, with NotSet, or beside the timer that the indefinite lockout left,
and in no other case: a lockout, once over, leaves no other verdict behind on which the handler
hangs. The refinement follows from the
invariant, call by call.

Of the ranging it proves the four invariants of `fobranging` for every two rates
(`RateAssumption`). The histories are bounded by what the ranging thread has
read and how long it still sleeps: `FobInv` adds `quiet + wake <= DefaultTicks` and
its counterpart for the faster rate, what each of the two reads of the status
can have missed (`UnderwayInv`), and that a round past its test of the approval
was begun for an approved device (`LateInv`).

`AspTurnProofs` is about one turn, for every length of maneuver, scan and handle.
`AspInv` says that offers and progress fit the status; `TurnInv` says of a whole
turn with any datagram that it preserves it, and when it may advance: the handle
is held or within its time, nothing pauses, and what is over needs a change of
mode. It is put together from a lemma on each part of the turn; each part but
driving `StandsStill`. `AspSimulatorProofs` carries this over to every sequence
of datagrams at any times (`BarFits`, `OffersFit`, `GestureDrives`,
`OverStaysOver`): its invariant adds that, as long as a maneuvering vehicle has not stood for
`Forgotten` ticks, the handle's clock has not wrapped (`Fresh`) and is no younger than the last
gesture (`Handle`). That exception is the code's, and `GestureDrives` and `StopsInTime` name it. `ScansFind` says that every turn that ends a scan leaves list_maneuvers
something to go on from, for every maneuver the simulator may prefer. It needs that
exploring is not withdrawn while a scan runs (`ScanOpen`), because a scan begins only with the
main menu, which withdraws nothing, and only its end does so, and that the parts of the turn
that follow the scan leave the signals that the list is made of alone (`Quiet`).

`RemoteDriveProofs` is the composition. `StopsInTime` needs that a valid input is
sent only while the client holds the handle, and that the handle's clock in the
ASPM is at least as old as the release, but for a vehicle forgotten (`HandleInv`). `InitLeavesDriven` needs
that what was decoded last is at most one turn old, and that one turn cannot
both begin a maneuver and drive it twice (`SeenInv`). Every step of the session
and its client comes down to `Orderly` (it leaves the ASPM alone, and keeps a
valid input only with the handle held), so that the invariant is shown once for
all of them; `ExchangeInv` cites `TurnInv`. `SimulatorImplemented` ties the two models of the ASPM
together: with the history that `AspSimulator` keeps (`HistorySpec`, which adds the ticks since the last
valid gesture and changes nothing else) the ASPM under the telematics unit is an
`AspSimulator` with any selection in any mode, so that what is proved of the simulator
against any sender holds when a client drives it. Most of that proof says that the instance's copy
of `AspTurn` is `AspTurn` (`Same...`).

`StatusUpdateProofs` proves `ClientKnows` for any values of the signals. The
invariant says of each word, said or about to be said, that it is the one
`prevSig_` holds or the status thread is bound to send another (`Fresh`), with
what the constructor and send_pin store beside it (`Writers`).

`ClientLinkProofs` proves, for messages of any size and number, that the framing
holds unless two messages overlap (the part that the client expects is the one
that the thread with a message under way writes next) and that a session ends for
a reason (the value of the last read is this client's, or this client has sent no
contents). `ChannelImplemented` is the refinement of `ClientChannel`: however the
contents are cut up and wherever a client leaves, the handlers get its messages whole,
in order and once each, until a read finds only a part of a length. Its invariant, `StreamInv`,
keeps the types in any case (`StreamTypes`) and, without such a read, says of every byte under
way of which message it is and at which place (`Chain`), that the first of them is what
the session thread reads next (`Due`), and that what has been received is the message
whose turn it is, as far as it goes (`PartOf`); a length read whole is that of the message byte
by byte, whatever `ntohl` makes of bytes (`LengthsOf`). The lemmas `Flow...` say what
reading, arriving and sending do to the tokens, `...Stream` what each action does to
the invariant. It rests on `LinkAssumption` in two places: both lengths together fit their type, so that
`Needed` does not wrap; and a message without a header
has no body, so that a length of the body that never arrives and is taken for 0
either belongs to an empty message or leaves the loop waiting for the header.
`TypeCorrect` follows from both invariants.

`ChallengeResponseProofs` proves the four invariants of `challenge` for any number of
indices and any bounds. `OnlyErrorsPause` is an account (`Balance`): the level of
the ASPM, a bad reply still to be read and the outdated challenges that the client
holds together never exceed the errors, late and torn answers counted. To keep it a
challenge followed by fewer than W others must have its index for itself
(`Places`). `AnswersCounted` needs more of the queue: the ages in it fall strictly,
and so do the challenges that the client has not been told (`Queue`, `Untold`).

`SignalExchangeProofs` proves, for every table of signals that fills whole bytes
(`ExchangeAssumption`), what the encoder and the decoder do to each other beside the
threads that write the signals.

* `ExchangeTypeCorrect` and `SignalsArriveAsRead`. The position of a signal is a sum over the
  table (`Offset`), a recursive function; what the proofs need of it, that it grows, follows
  from the least number that would be a counterexample (`Least`), in the place of an
  induction. A datagram is then described place by place: `Holds` says which
  bit of which signal lies at a place, unless a value with too many bits has been put over it
  (`SpoiltBy`), `PutBits` what a part adds to it, `TakeBitsReads` what the decoder
  takes from it. `WireInv` says how far encoder and decoder have come and that they have kept
  to the description; it is shown for a part and for a turn of the decoder, whatever the
  signals are written to in between, since it speaks of the values as they were read.
* `PressesAreShown`. `PressInv` relates the button, its time, the button loop and the datagram
  under way: a button whose time is over was shown, or was pressed in a race, or was left
  by its client, or nothing goes any more. That a press writes its time right after the button is
  `PressAssumption` (`setManeuverButtonPress`, `signalhandler.cpp:809`).
* `ManeuversAreOfTheirRequest`. A request chooses its maneuver in full before it sets the mode,
  so that the versions of the selection are never behind the mode's
  (`VersionInv`), and a datagram that reads them after the mode carries no older
  ones (`CarryInv`). The assumption, `ManeuverAssumption`, is what the handlers of a selected
  maneuver do (`setInputManeuverSignals` and then `setDeviceControlMode`,
  `remotedevicehandler.cpp:1267`). Requests that set a mode without a maneuver (main menu,
  space selection, engine, return to origin) are not among `Requests`: the ASPM does not look at the
  selection in them.

Only model-checked is liveness (`WaitsEnd`, `Reported`, `LossNoticed`,
`Releases`, `Arrives`), which is out of TLAPS's reach. Every invariant and every action
property of a passing run, and the refinements, are theorems.

## 5. Where code and documents disagree

Each of these is a run whose property fails, with the counterexample as evidence:

* send_pin can repeat for ever (`remotedevicehandler.cpp:208`, `pinauth_answered`).
* The handle's input is not reset after sending (`signalhandler.cpp:1454`,
  `remotedrive_silent`).
* The second mismatch pauses, not the third (`aspm.cpp:1062`, `challenge_third`).

Seen while modelling, contained in the models, and not given a run of their own:

* The branch of the indefinite lockout falls through to the comparison, so that a
  right PIN is accepted in it (`signalhandler.cpp:872`), and its timer then stays.
* The microseconds since a lockout began wrap after 71.6 minutes; a lockout that was
  over can hold again (`signalhandler.cpp:1287`).
* So do those since the last gesture (`aspm.cpp:799`): a vehicle left at Maneuvering, because the
  client went and the exchange stopped or because a pause held it, can move on without a gesture
  for as long as the wrapped time looks short.
* The rate None that `spin` writes at a disconnection can be overwritten by the ranging thread
  and stays so (`signalhandler.cpp:1320`).
* A mismatch that pauses leaves a moving vehicle's status at Maneuvering
  (`aspm.cpp:744`, against `vehiclestatuscodes.md:71`). The warning outlives the
  client and the menu, and the same reply as the last one is not checked.
* There is no time limit for answering a challenge, although API.md has one. A reply torn
  by an encoding is checked as a wrong one: two such pause an honest client.
* The default that list_maneuvers names after a scan is empty (API.md: the
  maneuver selected for parking in), because the main menu clears the side and
  the scan's end does not set it. RtnToOgn is offered in straight and parallel
  maneuvers, where the button for it does nothing. Exploring counts
  selections, not completed maneuvers. Nudge maneuvers are never offered.
* A highest part of more bits than its signal is not masked
  (`signalhandler.cpp:1830`): a slider value beyond 12 bits spoils signals
  before it in its byte.
* A press while the button loop is between its test and its writes is let go unseen
  (`signalhandler.cpp:1381`).
* A datagram may carry the gear of one request and the mode of the next
  (`signalhandler.cpp:1412`).
* A length that arrives in two pieces is read in part (`sockethandler.cpp:162`, `163`): neither
  read checks how many bytes it got. What follows is taken for lengths and contents, and a
  header longer than what was received ends the process (`remotedevicehandler.cpp:157`).
* A client that leaves in the middle of a message is never noticed
  (`sockethandler.cpp:190`); a missing length of the body at the end of the stream counts as 0.
* The value of the last read outlives the message and the client
  (`remotedevicehandler.cpp:1682`): a client whose first messages are empty is
  dropped or kept by what the one before it sent.
* SIGPIPE is not handled: a write to a client that was reset can end the process.
* The status thread starts before the constructor's body; it may compare with fields
  that hold anything, and index tables of texts that are still empty.

## 6. Not modelled, and why

* JSON texts, logging and wording (`TemplateHandler`): no decision depends on them.
* The contents of cabin commands and threat data: copied, never read. The extra
  vehicle_status that `spin` sends after some answers repeats a message that the
  status thread sends too.
* `main`, command lines, opening the sockets, the interactive placeholder client.
* The external progress bar of the EV3 mode: another program drives it; the
  distances of the simulator are drawn at random.
* The ASPM's half of the datagram exchange bit by bit: it is the same code over
  another table, and `SignalExchange` takes it as one step.
* A malformed or short datagram, for which the ASPM takes a turn all the same and the TCM
  does not decode: neither end sends one.
* The memory that a misread length of up to 4 GB asks for, which may not be there.
* Restarts: nothing is persisted, so that a restart is the initial state again.

## 7. Plan

Done: all modules of section 2, and a proof of every safety property that a run
checks. What would come next:

1. The promise that ties the two halves of driving together: what `RemoteDrive` assumes
   of the ASPM (one `AspTurn` per exchange) from what `SignalExchange` proves of a datagram,
   with a table of the signals that both use.
2. A composition of `PinAuth` and `RemoteDrive`, in which a lockout ends a session's
   authority to drive while a maneuver is under way.
3. The refinement of `StatusUpdate` to a register that the client reads, with the two named
   slips as its only exceptions.

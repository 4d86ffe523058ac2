--------------------------- MODULE ChallengeResponse ---------------------------
(***************************************************************************)
(* The check of the remote device's arithmetic.  The ASPM keeps its        *)
(* challenges by an 8-bit index until they are answered; a challenge goes  *)
(* by datagram to the telematics unit, whose status thread passes on what  *)
(* it has not passed on yet; the client answers; the session thread stores *)
(* the answer in MobileChallengeReply, which every datagram carries.       *)
(*                                                                         *)
(* The reply is read byte by byte into a datagram, its index first: an     *)
(* answer that comes between ReadIndex and Exchange tears it.  Exchange is *)
(* the rest of the datagram, a turn of the ASPM and the datagram back,     *)
(* which writes the challenge at once: no step of another thread within it *)
(* can be told from one before or after.                                   *)
(***************************************************************************)
EXTENDS Naturals, Sequences, FiniteSets

CONSTANTS
    W,          \* indices of challenges: 256
    Numbers,    \* what rand() % 0xFFFFFF may return
    Every,      \* a challenge at least every so many messages: 100
    Unset,      \* the signals' initial 0, and no pending challenge
    MaxErrors,  \* bound: wrong answers of the clients
    MaxLate,    \* bound: challenges that W others follow before they are answered
    MaxTears,   \* bound: answers that come while the reply is read
    MaxQueue    \* bound: challenges that a client has not answered

ASSUME ChallengeAssumption ==
    /\ W \in Nat /\ W > 1
    /\ Every \in Nat \ {0}
    /\ Unset \notin Numbers
    /\ MaxErrors \in Nat /\ MaxLate \in Nat /\ MaxTears \in Nat /\ MaxQueue \in Nat

VARIABLES
    challenge_idx_, pending_challenges_, challenge_warning_,  \* the ASPM's
    lastReply,          \* its MobileChallengeReply, as it came last
    paused,             \* PauseMsg2 is ChallengeResponseMismatch
    msgCounter,         \* modulo Every
    MobileChallengeSend, MobileChallengeReply,  \* the telematics unit's
    begun,              \* the reply whose index is in the datagram; NoReply: none
    prevSig_,           \* prevSig_.MobileChallengeSend
    passing,            \* the status thread has sent a challenge, not stored it
    client,             \* what the client has not answered; Unset: no client
    told, errors, late, tears, slipped   \* history

aspm == <<challenge_idx_, pending_challenges_, challenge_warning_, lastReply, paused, msgCounter>>
vars == <<aspm, MobileChallengeSend, MobileChallengeReply, begun, prevSig_, passing, client,
          told, errors, late, tears, slipped>>

Indices == 0..W - 1
Challenges == [idx : Indices, number : Numbers]
Replies == [to : Challenges, right : BOOLEAN]
NoReply == <<>>
Unanswered == [challenge : Challenges, age : 0..W]

ASSUME UnsetAssumption == Unset \notin Challenges \cup Replies

Init ==
    /\ challenge_idx_ = 0 /\ pending_challenges_ = [i \in Indices |-> Unset]
    /\ challenge_warning_ = FALSE /\ lastReply = Unset /\ paused = FALSE /\ msgCounter = 0
    /\ MobileChallengeSend = Unset /\ MobileChallengeReply = Unset
    /\ begun = NoReply /\ prevSig_ = Unset /\ passing = FALSE
    /\ client = Unset
    /\ told = Unset /\ errors = 0 /\ late = 0 /\ tears = 0 /\ slipped = FALSE

-----------------------------------------------------------------------------
(* A turn of the ASPM.                                                      *)

\* The challenge that a reply names by its index has to be pending.
IsChecked(reply) ==
    /\ reply # lastReply
    /\ pending_challenges_[reply.to.idx] # Unset
Matches_Newest(reply) == reply = [to |-> MobileChallengeSend, right |-> TRUE]
Matches(reply) == reply.right /\ reply.to.number = pending_challenges_[reply.to.idx]

\* One mismatch is let pass; a match forgives.  menu: the mode of the datagram
\* is a change to RCMainMenu, which ends the pause but not the warning.
checkResponse_(reply, menu) ==
    /\ challenge_warning_' = ~Matches(reply)
    /\ paused' = (~Matches(reply) /\ (challenge_warning_ \/ (paused /\ ~menu)))

CheckReply(reply, menu) ==
    /\ IF reply # Unset /\ IsChecked(reply) THEN checkResponse_(reply, menu)
       ELSE challenge_warning_' = challenge_warning_ /\ paused' = (paused /\ ~menu)
    /\ lastReply' = reply

StillPending(reply) ==
    IF reply # Unset /\ IsChecked(reply) THEN [pending_challenges_ EXCEPT ![reply.to.idx] = Unset]
    ELSE pending_challenges_

\* Each challenge that the client has grows one older, up to W.
Aged == [k \in DOMAIN client |-> [client[k] EXCEPT !.age = IF @ < W THEN @ + 1 ELSE W]]
\* The challenges that the index takes the place of while their answers are with
\* the client or have yet to be read in one piece.
Outdated ==
    (IF client = Unset THEN 0 ELSE Cardinality({k \in DOMAIN client : client[k].age = W - 1}))
    + (IF lastReply' # MobileChallengeReply /\ MobileChallengeReply.to.idx = challenge_idx_ THEN 1 ELSE 0)

\* The index comes round: an older challenge that has it is forgotten.
generateMobileChallengeSend_NoWrap(pending) ==
    \E n \in Numbers :
       /\ MobileChallengeSend' = [idx |-> challenge_idx_, number |-> n]
       /\ pending_challenges_' = [pending EXCEPT ![challenge_idx_] = n]
       /\ challenge_idx_' = challenge_idx_ + 1
       /\ late + Outdated <= MaxLate
       /\ late' = late + Outdated
       /\ client' = IF client = Unset THEN Unset ELSE Aged
generateMobileChallengeSend_AnotherIndex(pending) ==
    \E n \in Numbers :
       /\ MobileChallengeSend' = [idx |-> challenge_idx_, number |-> n]
       /\ pending_challenges_' = [pending EXCEPT ![(challenge_idx_ + 1) % W] = n]
       /\ challenge_idx_' = (challenge_idx_ + 1) % W
       /\ late + Outdated <= MaxLate
       /\ late' = late + Outdated
       /\ client' = IF client = Unset THEN Unset ELSE Aged
generateMobileChallengeSend_(pending) ==
    \E n \in Numbers :
       /\ MobileChallengeSend' = [idx |-> challenge_idx_, number |-> n]
       /\ pending_challenges_' = [pending EXCEPT ![challenge_idx_] = n]
       /\ challenge_idx_' = (challenge_idx_ + 1) % W
       /\ late + Outdated <= MaxLate
       /\ late' = late + Outdated
       /\ client' = IF client = Unset THEN Unset ELSE Aged

\* The first of the eight bytes of the reply; the initial value has index 0.
ReadIndex ==
    /\ begun = NoReply /\ begun' = MobileChallengeReply
    /\ UNCHANGED <<aspm, MobileChallengeSend, MobileChallengeReply, prevSig_, passing, client,
                   told, errors, late, tears, slipped>>

\* What the datagram carries: after an answer in between, the old index with the
\* number of the new one, or with bytes of both, which match nothing.
Carried ==
    IF begun = MobileChallengeReply THEN {begun}
    ELSE {[to |-> [idx |-> IF begun = Unset THEN 0 ELSE begun.to.idx,
                   number |-> MobileChallengeReply.to.number], right |-> r] :
          r \in {MobileChallengeReply.right, FALSE}}

\* A challenge is due with every turn that moves the vehicle, which a paused one
\* does not, and with every hundredth message.
Exchange ==
    /\ begun # NoReply /\ begun' = NoReply
    /\ \E menu, moving \in BOOLEAN, reply \in Carried :
          /\ CheckReply(reply, menu)
          /\ msgCounter' = (msgCounter + 1) % Every
          /\ IF (moving /\ ~paused') \/ msgCounter' = 0
             THEN generateMobileChallengeSend_(StillPending(reply))
             ELSE /\ pending_challenges_' = StillPending(reply)
                  /\ UNCHANGED <<challenge_idx_, MobileChallengeSend, client, late>>
    /\ tears' = tears + (IF begun = MobileChallengeReply THEN 0 ELSE 1)
    /\ tears' <= MaxTears
    /\ slipped' = (slipped \/ (passing /\ MobileChallengeSend' # MobileChallengeSend))
    /\ UNCHANGED <<MobileChallengeReply, prevSig_, passing, told, errors>>

-----------------------------------------------------------------------------
(* The status thread: while the challenge is not the one of prevSig_.       *)

Unchanged == UNCHANGED <<aspm, MobileChallengeSend, MobileChallengeReply, begun, errors, late, tears, slipped>>

\* Without a client the challenge is dropped.
sendMobileChallenge_TheHeldOne ==
    /\ ~passing /\ prevSig_ # MobileChallengeSend
    /\ client # Unset => Len(client) < MaxQueue
    /\ client' = IF client = Unset \/ prevSig_ = Unset THEN client
                 ELSE Append(client, [challenge |-> prevSig_, age |-> 0])
    /\ told' = prevSig_
    /\ passing' = TRUE
    /\ Unchanged /\ UNCHANGED prevSig_
sendMobileChallenge_ ==
    /\ ~passing /\ prevSig_ # MobileChallengeSend
    /\ client # Unset => Len(client) < MaxQueue
    /\ client' = IF client = Unset THEN Unset ELSE Append(client, [challenge |-> MobileChallengeSend, age |-> 0])
    /\ told' = MobileChallengeSend
    /\ passing' = TRUE
    /\ Unchanged /\ UNCHANGED prevSig_

\* The value stored is read anew.
StoreChallenge ==
    /\ passing
    /\ passing' = FALSE /\ prevSig_' = MobileChallengeSend
    /\ Unchanged /\ UNCHANGED <<client, told>>

-----------------------------------------------------------------------------
(* The client, and the handler of mobile_response.                          *)

\* Answers come in the order of the challenges, some time later, and name theirs.
Answer ==
    /\ client \notin {Unset, <<>>}
    /\ \E right \in BOOLEAN :
          /\ ~right => errors < MaxErrors
          /\ MobileChallengeReply' = [to |-> Head(client).challenge, right |-> right]
          /\ errors' = IF right THEN errors ELSE errors + 1
    /\ client' = Tail(client)
    /\ UNCHANGED <<aspm, MobileChallengeSend, begun, prevSig_, passing, told, late, tears, slipped>>

Connect ==
    /\ client = Unset /\ client' = <<>>
    /\ Unchanged /\ UNCHANGED <<prevSig_, passing, told>>

\* What the client has not answered is never answered.
Disconnect ==
    /\ client # Unset /\ client' = Unset
    /\ Unchanged /\ UNCHANGED <<prevSig_, passing, told>>

-----------------------------------------------------------------------------
Next == ReadIndex \/ Exchange \/ sendMobileChallenge_ \/ StoreChallenge \/ Answer \/ Connect \/ Disconnect

Spec == Init /\ [][Next]_vars

-----------------------------------------------------------------------------
(* Properties.                                                              *)

TypeOK ==
    /\ challenge_idx_ \in Indices
    /\ pending_challenges_ \in [Indices -> Numbers \cup {Unset}]
    /\ challenge_warning_ \in BOOLEAN /\ paused \in BOOLEAN
    /\ msgCounter \in 0..Every - 1
    /\ {lastReply, MobileChallengeReply} \subseteq Replies \cup {Unset}
    /\ {MobileChallengeSend, prevSig_, told} \subseteq Challenges \cup {Unset}
    /\ passing \in BOOLEAN /\ slipped \in BOOLEAN
    /\ client = Unset \/ client \in Seq(Unanswered)
    /\ begun \in Replies \cup {Unset, NoReply}
    /\ errors \in 0..MaxErrors /\ late \in 0..MaxLate /\ tears \in 0..MaxTears

\* The vehicle is paused after two wrong answers, never because of the time that
\* challenges and answers are under way, of those that pass each other or of
\* those that get lost; but a client that is W challenges behind is taken to be
\* wrong, and so may be one whose answer comes while the reply is read into a
\* datagram.  The warning takes one.
OnlyErrorsPause ==
    /\ paused => errors + late + tears >= 2
    /\ challenge_warning_ => errors + late + tears >= 1

\* The status thread holds a challenge to be passed on only if it passed it on;
\* but one that takes the place of another between sending and storing is lost.
HeldIsTold == ~passing /\ ~slipped => prevSig_ = told

\* An answer counts: unless a client was W challenges behind before, or an answer
\* tore the reply that was read, a challenge
\* that it has and that fewer than W others followed is still pending, whatever
\* was answered, rightly or wrongly, or got lost meanwhile.
AnswersCount ==
    late = 0 /\ tears = 0 /\ client # Unset =>
        \A k \in DOMAIN client : client[k].age < W =>
            pending_challenges_[client[k].challenge.idx] = client[k].challenge.number

-----------------------------------------------------------------------------
(* What is documented and does not hold of the code.                        *)

\* "The vehicle will tolerate ... two consecutive calculation failures.  In the
\* case of a third failure, it will discontinue operations": two are enough.
TwoAreTolerated == paused => errors + late + tears >= 3
==============================================================================

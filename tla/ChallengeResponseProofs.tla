------------------------ MODULE ChallengeResponseProofs ------------------------
(***************************************************************************)
(* The challenges, their answers and the pause, for any number of indices, *)
(* of wrong, late and torn answers, and any queue of the client.           *)
(*                                                                         *)
(* Each mismatch is paid for: by a wrong answer, by a challenge that the   *)
(* index has come round to, or by a torn reading, and each of them pays    *)
(* for one.  Balance keeps the account: the level of the ASPM, a bad reply *)
(* still to be read and the outdated challenges that the client has are    *)
(* no more than what was counted.                                          *)
(***************************************************************************)
EXTENDS ChallengeResponse, TLAPS, FiniteSetTheorems

Level(pause, warning) == IF pause THEN 2 ELSE IF warning THEN 1 ELSE 0

\* Still to be read as it is: not the one that was read last, or it came while
\* another one was being read.
Unread == MobileChallengeReply # lastReply \/ begun \notin {NoReply, MobileChallengeReply}
Fits(i, number) == pending_challenges_[i] \in {Unset, number}
Bad(reply) == ~(reply.right /\ Fits(reply.to.idx, reply.to.number))
UnreadBad == IF MobileChallengeReply # Unset /\ Unread /\ Bad(MobileChallengeReply) THEN 1 ELSE 0

Grown(queue, age) == {k \in DOMAIN queue : queue[k].age = age}
Behind == IF client = Unset THEN 0 ELSE Cardinality(Grown(client, W))

Balance == Level(paused, challenge_warning_) + UnreadBad + Behind <= errors + late + tears

\* How many challenges were generated since the one that has index i.
Since(i) ==
    IF i < challenge_idx_ THEN challenge_idx_ - 1 - i ELSE challenge_idx_ - 1 - i + W

\* A challenge that fewer than W others followed has its index for itself.
Places ==
    /\ MobileChallengeSend # Unset =>
          /\ Since(MobileChallengeSend.idx) = 0
          /\ Fits(MobileChallengeSend.idx, MobileChallengeSend.number)
    /\ client # Unset => \A k \in DOMAIN client : client[k].age < W =>
          /\ client[k].age = Since(client[k].challenge.idx)
          /\ Fits(client[k].challenge.idx, client[k].challenge.number)

Passed ==
    /\ MobileChallengeSend = Unset => prevSig_ = Unset
    /\ begun # NoReply /\ begun # MobileChallengeReply => MobileChallengeReply # Unset
    /\ ~slipped => told = IF passing THEN MobileChallengeSend ELSE prevSig_

IInv == TypeOK /\ Passed /\ Places /\ Balance

-----------------------------------------------------------------------------
(* Indices, and the queue of the client.                                    *)

LEMMA Constants ==
  /\ W \in Nat /\ W > 1 /\ Every \in Nat /\ Every > 0
  /\ MaxErrors \in Nat /\ MaxLate \in Nat /\ MaxTears \in Nat
  BY ChallengeAssumption

LEMMA NextIndex ==
  ASSUME challenge_idx_ \in Indices, challenge_idx_' = (challenge_idx_ + 1) % W
  PROVE  /\ challenge_idx_' \in Indices
         /\ Since(challenge_idx_) = W - 1
         /\ \A i \in Indices : /\ Since(i) \in 0..W - 1
                               /\ Since(i)' = IF i = challenge_idx_ THEN 0 ELSE Since(i) + 1
                               /\ i # challenge_idx_ => Since(i) < W - 1
<1>1. challenge_idx_' = IF challenge_idx_ = W - 1 THEN 0 ELSE challenge_idx_ + 1
  BY Constants DEF Indices
<1>2. QED
  BY <1>1, Constants DEF Indices, Since

LEMMA SinceType ==
  ASSUME challenge_idx_ \in Indices, NEW i \in Indices
  PROVE  Since(i) \in 0..W - 1
  BY Constants DEF Indices, Since

LEMMA GrownFinite ==
  ASSUME NEW queue \in Seq(Unanswered), NEW age
  PROVE  IsFiniteSet(Grown(queue, age)) /\ Cardinality(Grown(queue, age)) \in Nat
<1>1. IsFiniteSet(1..Len(queue))
  BY FS_Interval
<1>2. Grown(queue, age) \in SUBSET (1..Len(queue))
  BY DEF Grown
<1>3. IsFiniteSet(Grown(queue, age))
  BY <1>1, <1>2, FS_Subset
<1>4. QED
  BY <1>3, FS_CardinalityType

LEMMA GrownAppend ==
  ASSUME NEW queue \in Seq(Unanswered), NEW e \in Unanswered, e.age # W
  PROVE  Append(queue, e) \in Seq(Unanswered) /\ Grown(Append(queue, e), W) = Grown(queue, W)
  BY DEF Grown

LEMMA GrownTail ==
  ASSUME NEW queue \in Seq(Unanswered), queue # <<>>
  PROVE  /\ Tail(queue) \in Seq(Unanswered)
         /\ Cardinality(Grown(Tail(queue), W)) + (IF queue[1].age = W THEN 1 ELSE 0)
              <= Cardinality(Grown(queue, W))
<1> DEFINE S == Grown(queue, W)
           T == Grown(Tail(queue), W)
           f == [k \in S \ {1} |-> k - 1]
<1>1. /\ Tail(queue) \in Seq(Unanswered) /\ Len(queue) \in Nat /\ Len(queue) > 0
      /\ DOMAIN queue = 1..Len(queue) /\ DOMAIN Tail(queue) = 1..Len(queue) - 1
      /\ \A k \in 1..Len(queue) - 1 : Tail(queue)[k] = queue[k + 1]
  OBVIOUS
<1>2. IsFiniteSet(S) /\ Cardinality(S) \in Nat
  BY GrownFinite
<1>3. /\ IsFiniteSet(S \ {1})
      /\ Cardinality(S \ {1}) = IF 1 \in S THEN Cardinality(S) - 1 ELSE Cardinality(S)
  BY <1>2, FS_RemoveElement
<1>4. f \in Surjection(S \ {1}, T)
  <2>1. ASSUME NEW k \in S \ {1} PROVE k - 1 \in T
    BY <1>1 DEF Grown
  <2>2. ASSUME NEW k \in T PROVE k + 1 \in S \ {1} /\ f[k + 1] = k
    <3>1. k \in 1..Len(queue) - 1 /\ queue[k + 1].age = W
      BY <1>1 DEF Grown
    <3>2. k + 1 \in S \ {1}
      BY <1>1, <3>1 DEF Grown
    <3>3. QED
      BY <3>1, <3>2
  <2>3. QED
    BY <2>1, <2>2 DEF Surjection
<1>5. Cardinality(T) <= Cardinality(S \ {1})
  BY <1>3, <1>4, FS_Surjection
<1>6. 1 \in S <=> queue[1].age = W
  BY <1>1 DEF Grown
<1>7. Cardinality(T) \in Nat
  BY <1>1, GrownFinite
<1>8. QED
  BY <1>1, <1>2, <1>3, <1>5, <1>6, <1>7

LEMMA GrownAged ==
  ASSUME client \in Seq(Unanswered)
  PROVE  /\ Aged \in Seq(Unanswered) /\ DOMAIN Aged = DOMAIN client
         /\ \A k \in DOMAIN client :
               /\ Aged[k].challenge = client[k].challenge
               /\ Aged[k].age = IF client[k].age < W THEN client[k].age + 1 ELSE W
         /\ Cardinality(Grown(Aged, W)) <= Cardinality(Grown(client, W)) + Cardinality(Grown(client, W - 1))
<1>0. \A k \in DOMAIN client : client[k] \in Unanswered /\ client[k].age \in 0..W
  <2>1. \A k \in DOMAIN client : client[k] \in Unanswered
    OBVIOUS
  <2>2. \A c \in Unanswered : c.age \in 0..W
    BY DEF Unanswered
  <2>3. QED
    BY <2>1, <2>2
<1>1. \A k \in DOMAIN client :
        LET c == [client[k] EXCEPT !.age = IF client[k].age < W THEN client[k].age + 1 ELSE W]
        IN /\ c \in Unanswered /\ c.challenge = client[k].challenge
           /\ c.age = IF client[k].age < W THEN client[k].age + 1 ELSE W
  <2> TAKE k \in DOMAIN client
  <2> DEFINE age == IF client[k].age < W THEN client[k].age + 1 ELSE W
             c == [client[k] EXCEPT !.age = age]
  <2>1. age \in 0..W /\ client[k] \in Unanswered
    BY <1>0, Constants
  <2>2. c \in Unanswered /\ c.challenge = client[k].challenge /\ c.age = age
    <3> HIDE DEF age
    <3>1. QED
      BY <2>1 DEF Unanswered
  <2>3. QED
    BY <2>2
<1>2. Aged \in Seq(Unanswered) /\ DOMAIN Aged = DOMAIN client
  BY <1>1 DEF Aged
<1>3. \A k \in DOMAIN client :
         /\ Aged[k].challenge = client[k].challenge
         /\ Aged[k].age = IF client[k].age < W THEN client[k].age + 1 ELSE W
  BY <1>1 DEF Aged
<1>4. Grown(Aged, W) = Grown(client, W) \cup Grown(client, W - 1)
  BY <1>0, <1>2, <1>3, Constants DEF Grown
<1>5. /\ IsFiniteSet(Grown(client, W)) /\ Cardinality(Grown(client, W)) \in Nat
      /\ IsFiniteSet(Grown(client, W - 1)) /\ Cardinality(Grown(client, W - 1)) \in Nat
  BY GrownFinite
<1>6. Cardinality(Grown(client, W) \cup Grown(client, W - 1))
        = Cardinality(Grown(client, W)) + Cardinality(Grown(client, W - 1))
          - Cardinality(Grown(client, W) \cap Grown(client, W - 1))
  BY <1>5, FS_Union
<1>7. Cardinality(Grown(client, W) \cap Grown(client, W - 1)) \in Nat
  <2>1. Grown(client, W) \cap Grown(client, W - 1) \in SUBSET Grown(client, W)
    OBVIOUS
  <2>2. QED
    BY <1>5, <2>1, FS_Subset, FS_CardinalityType
<1>8. QED
  BY <1>2, <1>3, <1>4, <1>5, <1>6, <1>7

-----------------------------------------------------------------------------
(* Everything but the exchange.                                             *)

LEMMA NextBehind == Behind' = IF client' = Unset THEN 0 ELSE Cardinality(Grown(client', W))
  BY DEF Behind, Grown

LEMMA InitInv == Init => IInv
<1> SUFFICES ASSUME Init PROVE IInv
  OBVIOUS
<1>1. TypeOK
  <2>1. 0 \in Indices /\ 0 \in 0..Every - 1 /\ 0 \in 0..MaxErrors /\ 0 \in 0..MaxLate /\ 0 \in 0..MaxTears
    BY Constants DEF Indices
  <2>2. /\ challenge_warning_ \in BOOLEAN /\ paused \in BOOLEAN
        /\ passing \in BOOLEAN /\ slipped \in BOOLEAN
    BY DEF Init
  <2>3. QED
    BY <2>1, <2>2 DEF Init, TypeOK
<1>2. Passed
  BY DEF Init, Passed
<1>3. Places
  BY DEF Init, Places
<1>4. Balance
  BY DEF Init, Balance, Level, UnreadBad, Behind
<1>5. QED
  BY <1>1, <1>2, <1>3, <1>4 DEF IInv

\* The parts of the account are numbers.
LEMMA AccountType ==
  ASSUME TypeOK
  PROVE  /\ Behind \in Nat /\ UnreadBad \in {0, 1} /\ Level(paused, challenge_warning_) \in 0..2
         /\ errors \in Nat /\ late \in Nat /\ tears \in Nat
  BY GrownFinite, Constants DEF TypeOK, Behind, UnreadBad, Level

LEMMA ReadIndexInv == IInv /\ ReadIndex => IInv'
<1> SUFFICES ASSUME IInv, ReadIndex PROVE IInv'
  OBVIOUS
<1>1. TypeOK'
  BY DEF IInv, TypeOK, ReadIndex, aspm
<1>2. Passed'
  BY DEF IInv, Passed, ReadIndex, aspm
<1>3. Places'
  BY DEF IInv, Places, ReadIndex, aspm, Since, Fits
<1>4. UnreadBad' \in {0, 1} /\ UnreadBad' <= UnreadBad
  BY DEF ReadIndex, aspm, UnreadBad, Unread, Bad, Fits
<1>5. Balance'
  <2>1. /\ Level(paused, challenge_warning_)' = Level(paused, challenge_warning_)
        /\ Behind' = Behind /\ UNCHANGED <<errors, late, tears>>
    BY DEF ReadIndex, aspm, Level, Behind
  <2>2. QED
    BY <1>4, <2>1, AccountType DEF IInv, Balance
<1>6. QED
  BY <1>1, <1>2, <1>3, <1>5 DEF IInv

\* What leaves the replies and the ASPM alone leaves their part of the account.
LEMMA AccountStands ==
  ASSUME Unchanged
  PROVE  /\ Level(paused, challenge_warning_)' = Level(paused, challenge_warning_)
         /\ UnreadBad' = UnreadBad
         /\ \A i : Since(i)' = Since(i)
         /\ \A i, n : Fits(i, n)' = Fits(i, n)
  BY DEF Unchanged, aspm, Level, UnreadBad, Unread, Bad, Fits, Since

LEMMA sendMobileChallengeInv == IInv /\ sendMobileChallenge_ => IInv'
<1> SUFFICES ASSUME IInv, sendMobileChallenge_ PROVE IInv'
  OBVIOUS
<1> DEFINE e == [challenge |-> MobileChallengeSend, age |-> 0]
<1>1. ~passing /\ prevSig_ # MobileChallengeSend /\ told' = MobileChallengeSend /\ passing' = TRUE
      /\ Unchanged /\ prevSig_' = prevSig_
  BY DEF sendMobileChallenge_
<1>2. MobileChallengeSend \in Challenges
  BY <1>1 DEF IInv, TypeOK, Passed
<1>3. e \in Unanswered /\ e.age = 0 /\ e.challenge = MobileChallengeSend
  BY <1>2, Constants DEF Unanswered
<1> HIDE DEF e
<1>4. client' = IF client = Unset THEN Unset ELSE Append(client, e)
  BY DEF sendMobileChallenge_, e
<1>5. \/ client = Unset /\ client' = Unset
      \/ /\ client # Unset /\ client \in Seq(Unanswered) /\ client' = Append(client, e)
         /\ client' \in Seq(Unanswered)
         /\ Grown(client', W) = Grown(client, W)
  BY <1>3, <1>4, GrownAppend, Constants DEF IInv, TypeOK
<1>6. TypeOK'
  <2>1. passing' \in BOOLEAN
    BY <1>1
  <2>2. QED
    BY <1>1, <1>2, <1>5, <2>1 DEF IInv, TypeOK, Unchanged, aspm
<1>7. Passed'
  BY <1>1 DEF IInv, Passed, Unchanged
<1>8. Places'
  <2>1. MobileChallengeSend # Unset
    BY <1>2, UnsetAssumption
  <2>2. ASSUME client' # Unset, NEW k \in DOMAIN client', client'[k].age < W
        PROVE  /\ client'[k].age = Since(client'[k].challenge.idx)
               /\ Fits(client'[k].challenge.idx, client'[k].challenge.number)
    <3>1. client \in Seq(Unanswered) /\ client' = Append(client, e) /\ client # Unset
      BY <1>5, <2>2
    <3>2. CASE k \in DOMAIN client
      <4>1. client'[k] = client[k]
        BY <3>1, <3>2
      <4>2. QED
        BY <2>2, <3>1, <3>2, <4>1 DEF IInv, Places
    <3>3. CASE k \notin DOMAIN client
      <4>1. client'[k] = e
        BY <1>3, <2>2, <3>1, <3>3
      <4>2. QED
        BY <1>3, <2>1, <4>1 DEF IInv, Places
    <3>4. QED
      BY <3>2, <3>3
  <2>3. QED
    BY <1>1, <2>2, AccountStands DEF IInv, Places, Unchanged
<1>9. Balance'
  <2>1. Behind' \in Nat /\ Behind' <= Behind
    <3>1. Behind = IF client = Unset THEN 0 ELSE Cardinality(Grown(client, W))
      BY DEF Behind
    <3>2. CASE client' = Unset
      BY <3>2, NextBehind, AccountType DEF IInv
    <3>3. CASE client' # Unset
      BY <1>5, <3>1, <3>3, NextBehind, AccountType DEF IInv
    <3>4. QED
      BY <3>2, <3>3
  <2>2. QED
    BY <1>1, <2>1, AccountStands, AccountType DEF IInv, Balance, Unchanged
<1>10. QED
  BY <1>6, <1>7, <1>8, <1>9 DEF IInv

LEMMA StoreChallengeInv == IInv /\ StoreChallenge => IInv'
<1> SUFFICES ASSUME IInv, StoreChallenge PROVE IInv'
  OBVIOUS
<1>1. passing /\ passing' = FALSE /\ passing' \in BOOLEAN /\ prevSig_' = MobileChallengeSend
      /\ Unchanged /\ UNCHANGED <<client, told>>
  BY DEF StoreChallenge
<1>2. TypeOK'
  BY <1>1 DEF IInv, TypeOK, Unchanged, aspm
<1>3. Passed'
  BY <1>1 DEF IInv, Passed, Unchanged
<1>4. Places'
  BY <1>1, AccountStands DEF IInv, Places, Unchanged
<1>5. Balance'
  BY <1>1, AccountStands DEF IInv, Balance, Unchanged, Behind
<1>6. QED
  BY <1>2, <1>3, <1>4, <1>5 DEF IInv

\* A client that comes has nothing to answer, one that goes answers nothing.
LEMMA ClientInv ==
  ASSUME IInv, Unchanged, UNCHANGED <<prevSig_, passing, told>>,
         client' = Unset \/ (client = Unset /\ client' = <<>>)
  PROVE  IInv'
<1>1. TypeOK'
  <2>1. <<>> \in Seq(Unanswered)
    OBVIOUS
  <2>2. QED
    BY <2>1 DEF IInv, TypeOK, Unchanged, aspm
<1>2. Passed'
  BY DEF IInv, Passed, Unchanged
<1>3. Places'
  <2>1. client' # Unset => DOMAIN client' = {}
    OBVIOUS
  <2>2. QED
    BY <2>1, AccountStands DEF IInv, Places, Unchanged
<1>4. Behind' = 0
  <2>1. Grown(<<>>, W) = {}
    BY DEF Grown
  <2>2. Cardinality(Grown(<<>>, W)) = 0
    BY <2>1, FS_EmptySet
  <2>3. QED
    BY <2>2 DEF Behind
<1>5. Balance'
  <2>1. Level(paused, challenge_warning_)' = Level(paused, challenge_warning_) /\ UnreadBad' = UnreadBad
        /\ UNCHANGED <<errors, late, tears>>
    BY AccountStands DEF Unchanged
  <2>2. QED
    BY <1>4, <2>1, AccountType DEF IInv, Balance
<1>6. QED
  BY <1>1, <1>2, <1>3, <1>5 DEF IInv

\* A bad answer is a wrong one, which is counted now, or one to a challenge that
\* was counted when it was outdated.
LEMMA AnswerInv == IInv /\ Answer => IInv'
<1> SUFFICES ASSUME IInv, Answer PROVE IInv'
  OBVIOUS
<1>1. PICK right \in BOOLEAN :
        /\ ~right => errors < MaxErrors
        /\ MobileChallengeReply' = [to |-> Head(client).challenge, right |-> right]
        /\ errors' = IF right THEN errors ELSE errors + 1
  BY DEF Answer
<1> DEFINE e == client[1]
           reply == [to |-> e.challenge, right |-> right]
<1>2. /\ client \in Seq(Unanswered) /\ client # <<>> /\ client # Unset
      /\ client' = Tail(client) /\ e = Head(client) /\ e \in Unanswered /\ 1 \in DOMAIN client
      /\ UNCHANGED <<aspm, MobileChallengeSend, begun, prevSig_, passing, told, late, tears, slipped>>
  BY DEF IInv, TypeOK, Answer
<1>3. /\ client' \in Seq(Unanswered)
      /\ Cardinality(Grown(client', W)) + (IF e.age = W THEN 1 ELSE 0) <= Cardinality(Grown(client, W))
      /\ \A k \in DOMAIN client' : k + 1 \in DOMAIN client /\ client'[k] = client[k + 1]
  BY <1>2, GrownTail
<1>4. reply \in Replies /\ reply.to = e.challenge /\ reply.right = right /\ e.age \in 0..W
  BY <1>2 DEF Replies, Unanswered
<1>5. MobileChallengeReply' = reply /\ reply # Unset
  BY <1>1, <1>2, <1>4, UnsetAssumption
<1> HIDE DEF e, reply
<1>6. TypeOK'
  <2>1. errors' \in 0..MaxErrors
    BY <1>1, Constants DEF IInv, TypeOK
  <2>2. QED
    BY <1>2, <1>3, <1>4, <1>5, <2>1 DEF IInv, TypeOK, aspm
<1>7. Passed'
  BY <1>2, <1>5 DEF IInv, Passed
<1>8. (\A i : Since(i)' = Since(i)) /\ (\A i, n : Fits(i, n)' = Fits(i, n))
  BY <1>2 DEF aspm, Since, Fits
<1>9. Places'
  BY <1>2, <1>3, <1>8 DEF IInv, Places
<1>10. Balance'
  <2>1. UnreadBad' <= (IF right THEN 0 ELSE 1) + (IF e.age = W THEN 1 ELSE 0)
    <3>1. right /\ e.age < W => ~Bad(MobileChallengeReply)'
      <4>1. right /\ e.age < W => Fits(e.challenge.idx, e.challenge.number)
        BY <1>2 DEF IInv, Places, e
      <4>2. QED
        BY <1>4, <1>5, <1>8, <4>1 DEF Bad
    <3>2. UnreadBad' \in {0, 1} /\ (UnreadBad' = 1 => Bad(MobileChallengeReply)')
      BY DEF UnreadBad
    <3>3. QED
      BY <1>4, <3>1, <3>2, Constants
  <2>2. Behind = Cardinality(Grown(client, W)) /\ Behind' <= Cardinality(Grown(client', W))
        /\ Behind' \in Nat /\ Cardinality(Grown(client', W)) \in Nat
    <3>1. Cardinality(Grown(client', W)) \in Nat
      BY <1>3, GrownFinite
    <3>2. QED
      BY <1>2, <3>1, NextBehind DEF Behind
  <2>3. Level(paused, challenge_warning_)' = Level(paused, challenge_warning_) /\ UNCHANGED <<late, tears>>
    BY <1>2 DEF aspm, Level
  <2>4. UnreadBad' \in {0, 1} /\ UnreadBad \in {0, 1}
    BY DEF UnreadBad
  <2>5. errors' = IF right THEN errors ELSE errors + 1
    BY <1>1
  <2>6. QED
    <3>1. Level(paused, challenge_warning_) + Behind <= errors + late + tears
      BY <2>4, AccountType DEF IInv, Balance
    <3>2. UnreadBad' + Behind' <= (IF right THEN 0 ELSE 1) + Behind
      <4>1. Cardinality(Grown(client, W)) \in Nat
        BY <1>2, GrownFinite
      <4>2. QED
        BY <1>3, <2>1, <2>2, <2>4, <4>1
    <3>3. QED
      BY <2>2, <2>3, <2>4, <2>5, <3>1, <3>2, AccountType DEF IInv, Balance
<1>11. QED
  BY <1>6, <1>7, <1>9, <1>10 DEF IInv

-----------------------------------------------------------------------------
(* The exchange: what is read, what it does to the level and the pending    *)
(* challenges, and the new challenge.                                       *)

LEMMA CarriedType ==
  ASSUME TypeOK, Passed, begun # NoReply, NEW reply \in Carried
  PROVE  /\ reply \in Replies \cup {Unset}
         /\ begun = MobileChallengeReply => reply = MobileChallengeReply
         /\ begun # MobileChallengeReply => MobileChallengeReply \in Replies
<1>1. CASE begun = MobileChallengeReply
  BY <1>1 DEF Carried, TypeOK
<1>2. CASE begun # MobileChallengeReply
  <2>1. MobileChallengeReply \in Replies
    BY <1>2 DEF TypeOK, Passed
  <2>2. PICK r \in {MobileChallengeReply.right, FALSE} :
          reply = [to |-> [idx |-> IF begun = Unset THEN 0 ELSE begun.to.idx,
                           number |-> MobileChallengeReply.to.number], right |-> r]
    BY <1>2 DEF Carried
  <2>3. (IF begun = Unset THEN 0 ELSE begun.to.idx) \in Indices
    <3>1. begun = Unset \/ begun \in Replies
      BY DEF TypeOK
    <3>2. 0 \in Indices
      BY Constants DEF Indices
    <3>3. QED
      BY <3>1, <3>2 DEF Replies, Challenges
  <2>4. MobileChallengeReply.to.number \in Numbers /\ r \in BOOLEAN
    BY <2>1 DEF Replies, Challenges
  <2>5. reply \in Replies
    BY <2>2, <2>3, <2>4 DEF Replies, Challenges
  <2>6. QED
    BY <1>2, <2>1, <2>5
<1>3. QED
  BY <1>1, <1>2

\* Only a mismatch raises the level, and by one.
LEMMA CheckLevel ==
  ASSUME TypeOK, NEW reply, NEW menu \in BOOLEAN, CheckReply(reply, menu)
  PROVE  /\ paused' \in BOOLEAN /\ challenge_warning_' \in BOOLEAN /\ lastReply' = reply
         /\ Level(paused, challenge_warning_)'
              <= Level(paused, challenge_warning_)
                 + (IF reply # Unset /\ IsChecked(reply) /\ ~Matches(reply) THEN 1 ELSE 0)
<1>1. lastReply' = reply /\ paused \in BOOLEAN /\ challenge_warning_ \in BOOLEAN
  BY DEF CheckReply, TypeOK
<1>2. CASE reply # Unset /\ IsChecked(reply)
  <2>1. /\ challenge_warning_' = ~Matches(reply)
        /\ paused' = (~Matches(reply) /\ (challenge_warning_ \/ (paused /\ ~menu)))
    BY <1>2 DEF CheckReply, checkResponse_
  <2>2. paused' \in BOOLEAN /\ challenge_warning_' \in BOOLEAN
    BY <2>1
  <2>3. CASE Matches(reply)
    BY <1>1, <1>2, <2>1, <2>2, <2>3 DEF Level
  <2>4. CASE ~Matches(reply)
    <3>1. challenge_warning_' /\ (paused' => challenge_warning_ \/ paused)
      BY <2>1, <2>4
    <3>2. QED
      BY <1>1, <1>2, <2>2, <2>4, <3>1 DEF Level
  <2>5. QED
    BY <2>3, <2>4
<1>3. CASE ~(reply # Unset /\ IsChecked(reply))
  <2>1. challenge_warning_' = challenge_warning_ /\ paused' = (paused /\ ~menu)
    BY <1>3 DEF CheckReply
  <2>2. QED
    BY <1>1, <1>3, <2>1 DEF Level
<1>4. QED
  BY <1>2, <1>3

LEMMA StillPendingType ==
  ASSUME TypeOK, NEW reply \in Replies \cup {Unset}
  PROVE  /\ StillPending(reply) \in [Indices -> Numbers \cup {Unset}]
         /\ \A i \in Indices : StillPending(reply)[i] \in {Unset, pending_challenges_[i]}
<1>1. pending_challenges_ \in [Indices -> Numbers \cup {Unset}]
  BY DEF TypeOK
<1>2. CASE reply # Unset /\ IsChecked(reply)
  <2>1. StillPending(reply) = [pending_challenges_ EXCEPT ![reply.to.idx] = Unset]
    BY <1>2 DEF StillPending
  <2>2. reply.to.idx \in Indices
    BY <1>2 DEF Replies, Challenges
  <2>3. QED
    BY <1>1, <2>1, <2>2
<1>3. CASE ~(reply # Unset /\ IsChecked(reply))
  BY <1>1, <1>3 DEF StillPending
<1>4. QED
  BY <1>2, <1>3

Newly == IF client = Unset THEN 0 ELSE Cardinality(Grown(client, W - 1))
Overwritten ==
  IF lastReply' # MobileChallengeReply /\ MobileChallengeReply.to.idx = challenge_idx_ THEN 1 ELSE 0

\* What a turn does to the challenges: a reply takes one away, a generated one
\* takes the place of another, and what is outdated by it is counted.
LEMMA TurnPlaces ==
  ASSUME IInv, NEW reply \in Replies \cup {Unset},
         \/ generateMobileChallengeSend_(StillPending(reply))
         \/ /\ pending_challenges_' = StillPending(reply)
            /\ UNCHANGED <<challenge_idx_, MobileChallengeSend, client, late>>
  PROVE  /\ challenge_idx_' \in Indices /\ pending_challenges_' \in [Indices -> Numbers \cup {Unset}]
         /\ MobileChallengeSend' \in Challenges \cup {Unset}
         /\ MobileChallengeSend' = Unset => MobileChallengeSend = Unset
         /\ client' = Unset \/ client' \in Seq(Unanswered)
         /\ Places'
         /\ late' \in 0..MaxLate
         /\ \E more \in {0, Overwritten} :
              /\ Behind' + more <= Behind + (late' - late)
              /\ \A i \in Indices :
                    \/ pending_challenges_'[i] \in {Unset, pending_challenges_[i]}
                    \/ more = Overwritten /\ i = challenge_idx_
<1> DEFINE P == StillPending(reply)
<1>1. /\ P \in [Indices -> Numbers \cup {Unset}]
      /\ \A i \in Indices : P[i] \in {Unset, pending_challenges_[i]}
  BY StillPendingType DEF IInv
<1> HIDE DEF P
<1>2. /\ challenge_idx_ \in Indices /\ late \in 0..MaxLate /\ MaxLate \in Nat /\ Behind \in Nat
      /\ client = Unset \/ client \in Seq(Unanswered)
      /\ MobileChallengeSend \in Challenges \cup {Unset}
  BY AccountType, Constants DEF IInv, TypeOK
<1>3. CASE pending_challenges_' = P /\ UNCHANGED <<challenge_idx_, MobileChallengeSend, client, late>>
  <2>1. Behind' = Behind
    BY <1>3 DEF Behind
  <2>2. Behind' + 0 <= Behind + (late' - late)
    BY <1>2, <1>3, <2>1
  <2>3. Places'
    <3>1. \A i : Since(i)' = Since(i)
      BY <1>3 DEF Since
    <3>2. \A i \in Indices : \A n : Fits(i, n) => Fits(i, n)'
      BY <1>1, <1>3 DEF Fits
    <3>3. MobileChallengeSend # Unset => MobileChallengeSend.idx \in Indices
      BY <1>2 DEF Challenges
    <3>4. client # Unset => \A k \in DOMAIN client : client[k].challenge.idx \in Indices
      <4>1. \A c \in Unanswered : c.challenge.idx \in Indices
        BY DEF Unanswered, Challenges
      <4>2. QED
        BY <1>2, <4>1
    <3>5. QED
      BY <1>3, <3>1, <3>2, <3>3, <3>4 DEF IInv, Places
  <2>4. QED
    BY <1>1, <1>2, <1>3, <2>2, <2>3
<1>4. CASE generateMobileChallengeSend_(P)
  <2>1. PICK n \in Numbers :
          /\ MobileChallengeSend' = [idx |-> challenge_idx_, number |-> n]
          /\ pending_challenges_' = [P EXCEPT ![challenge_idx_] = n]
    BY <1>4 DEF generateMobileChallengeSend_
  <2>2. /\ challenge_idx_' = (challenge_idx_ + 1) % W
        /\ late + Outdated <= MaxLate /\ late' = late + Outdated
        /\ client' = IF client = Unset THEN Unset ELSE Aged
    BY <1>4 DEF generateMobileChallengeSend_
  <2>3. /\ challenge_idx_' \in Indices /\ Since(challenge_idx_) = W - 1
        /\ \A i \in Indices : /\ Since(i) \in 0..W - 1
                              /\ Since(i)' = IF i = challenge_idx_ THEN 0 ELSE Since(i) + 1
    BY <1>2, <2>2, NextIndex
  <2>4. /\ pending_challenges_' \in [Indices -> Numbers \cup {Unset}]
        /\ \A i \in Indices : pending_challenges_'[i] = IF i = challenge_idx_ THEN n ELSE P[i]
    BY <1>1, <1>2, <2>1
  <2>5. /\ MobileChallengeSend' \in Challenges /\ MobileChallengeSend' # Unset
        /\ MobileChallengeSend'.idx = challenge_idx_ /\ MobileChallengeSend'.number = n
    BY <1>2, <2>1, UnsetAssumption DEF Challenges
  <2>6. Outdated = Newly + Overwritten /\ Newly \in Nat /\ Overwritten \in {0, 1}
    <3>1. Outdated = Newly + Overwritten
      BY DEF Outdated, Newly, Overwritten, Grown
    <3>2. Newly \in Nat
      BY <1>2, GrownFinite DEF Newly
    <3>3. QED
      BY <3>1, <3>2 DEF Overwritten
  <2>7. late' \in 0..MaxLate
    BY <1>2, <2>2, <2>6
  <2>8. /\ client' = Unset \/ client' \in Seq(Unanswered)
        /\ Behind' <= Behind + Newly /\ Behind' \in Nat
    <3>1. CASE client = Unset
      <4>1. client' = Unset
        BY <2>2, <3>1
      <4>2. QED
        BY <1>2, <2>6, <4>1, NextBehind
    <3>2. CASE client # Unset
      <4>1. client \in Seq(Unanswered) /\ client' = Aged
        BY <1>2, <2>2, <3>2
      <4>2. /\ client' \in Seq(Unanswered)
            /\ Cardinality(Grown(client', W)) <= Cardinality(Grown(client, W)) + Cardinality(Grown(client, W - 1))
        BY <4>1, GrownAged
      <4>3. Behind = Cardinality(Grown(client, W)) /\ Newly = Cardinality(Grown(client, W - 1))
        BY <3>2 DEF Behind, Newly
      <4>4. Cardinality(Grown(client', W)) \in Nat
        BY <4>2, GrownFinite
      <4>5. QED
        BY <1>2, <2>6, <4>2, <4>3, <4>4, NextBehind
    <3>3. QED
      BY <3>1, <3>2
  <2>9. Behind' + Overwritten <= Behind + (late' - late)
    <3>1. late' - late = Newly + Overwritten
      BY <1>2, <2>2, <2>6
    <3>2. QED
      BY <1>2, <2>6, <2>8, <3>1
  <2>10. Places'
    <3>1. Since(MobileChallengeSend.idx)' = 0 /\ Fits(MobileChallengeSend.idx, MobileChallengeSend.number)'
      BY <1>2, <2>3, <2>4, <2>5 DEF Fits
    <3>2. ASSUME client' # Unset, NEW k \in DOMAIN client', client'[k].age < W
          PROVE  /\ client'[k].age = Since(client[k].challenge.idx)'
                 /\ Fits(client[k].challenge.idx, client[k].challenge.number)'
      <4>1. client # Unset /\ client \in Seq(Unanswered) /\ client' = Aged
        BY <1>2, <2>2, <3>2
      <4>2. /\ k \in DOMAIN client /\ client'[k].challenge = client[k].challenge
            /\ client'[k].age = IF client[k].age < W THEN client[k].age + 1 ELSE W
        BY <3>2, <4>1, GrownAged
      <4>3. client[k].challenge.idx \in Indices /\ client[k].age \in 0..W
        <5>1. client[k] \in Unanswered
          BY <4>1, <4>2
        <5>2. QED
          BY <5>1 DEF Unanswered, Challenges
      <4>4. client[k].age < W - 1 /\ client'[k].age = client[k].age + 1
        BY <3>2, <4>2, <4>3, Constants
      <4>5. /\ client[k].age = Since(client[k].challenge.idx)
            /\ Fits(client[k].challenge.idx, client[k].challenge.number)
        BY <4>1, <4>2, <4>3, <4>4, Constants DEF IInv, Places
      <4>6. client[k].challenge.idx # challenge_idx_
        BY <2>3, <4>3, <4>4, <4>5, Constants
      <4>7. QED
        BY <1>1, <2>3, <2>4, <4>2, <4>3, <4>4, <4>5, <4>6 DEF Fits
    <3>3. QED
      BY <3>1, <3>2 DEF Places
  <2>11. \A i \in Indices : pending_challenges_'[i] \in {Unset, pending_challenges_[i]} \/ i = challenge_idx_
    BY <1>1, <2>4
  <2>12. QED
    BY <2>3, <2>4, <2>5, <2>7, <2>8, <2>9, <2>10, <2>11
<1>5. QED
  BY <1>3, <1>4 DEF P

LEMMA ExchangeInv == IInv /\ Exchange => IInv'
<1> SUFFICES ASSUME IInv, Exchange PROVE IInv'
  OBVIOUS
<1>1. PICK menu \in BOOLEAN, moving \in BOOLEAN, reply \in Carried :
        /\ CheckReply(reply, menu)
        /\ msgCounter' = (msgCounter + 1) % Every
        /\ \/ generateMobileChallengeSend_(StillPending(reply))
           \/ /\ pending_challenges_' = StillPending(reply)
              /\ UNCHANGED <<challenge_idx_, MobileChallengeSend, client, late>>
  BY DEF Exchange
<1>2. /\ begun # NoReply /\ begun' = NoReply
      /\ tears' = tears + (IF begun = MobileChallengeReply THEN 0 ELSE 1) /\ tears' <= MaxTears
      /\ slipped' = (slipped \/ (passing /\ MobileChallengeSend' # MobileChallengeSend))
      /\ UNCHANGED <<MobileChallengeReply, prevSig_, passing, told, errors>>
  BY DEF Exchange
<1>3. TypeOK /\ Passed /\ Balance
  BY DEF IInv
<1>4. /\ reply \in Replies \cup {Unset}
      /\ begun = MobileChallengeReply => reply = MobileChallengeReply
      /\ begun # MobileChallengeReply => MobileChallengeReply \in Replies
  BY <1>1, <1>2, <1>3, CarriedType
<1>5. /\ paused' \in BOOLEAN /\ challenge_warning_' \in BOOLEAN /\ lastReply' = reply
      /\ Level(paused, challenge_warning_)'
           <= Level(paused, challenge_warning_)
              + (IF reply # Unset /\ IsChecked(reply) /\ ~Matches(reply) THEN 1 ELSE 0)
  BY <1>1, <1>3, CheckLevel
<1>6. /\ challenge_idx_' \in Indices /\ pending_challenges_' \in [Indices -> Numbers \cup {Unset}]
      /\ MobileChallengeSend' \in Challenges \cup {Unset}
      /\ MobileChallengeSend' = Unset => MobileChallengeSend = Unset
      /\ client' = Unset \/ client' \in Seq(Unanswered)
      /\ Places'
      /\ late' \in 0..MaxLate
      /\ \E more \in {0, Overwritten} :
           /\ Behind' + more <= Behind + (late' - late)
           /\ \A i \in Indices :
                 \/ pending_challenges_'[i] \in {Unset, pending_challenges_[i]}
                 \/ more = Overwritten /\ i = challenge_idx_
  BY <1>1, <1>4, TurnPlaces
<1>7. TypeOK'
  <2>1. msgCounter' \in 0..Every - 1
    BY <1>1, <1>3, Constants DEF TypeOK
  <2>2. tears' \in 0..MaxTears
    BY <1>2, <1>3, Constants DEF TypeOK
  <2>3. slipped' \in BOOLEAN
    BY <1>2
  <2>4. QED
    BY <1>2, <1>3, <1>4, <1>5, <1>6, <2>1, <2>2, <2>3 DEF TypeOK
<1>8. Passed'
  BY <1>2, <1>3, <1>6 DEF Passed
<1>9. Balance'
  <2>1. PICK more \in {0, Overwritten} :
           /\ Behind' + more <= Behind + (late' - late)
           /\ \A i \in Indices :
                 \/ pending_challenges_'[i] \in {Unset, pending_challenges_[i]}
                 \/ more = Overwritten /\ i = challenge_idx_
    BY <1>6
  <2> DEFINE level == Level(paused, challenge_warning_)
  <2>2. /\ level \in 0..2 /\ level' \in 0..2 /\ UnreadBad \in {0, 1} /\ UnreadBad' \in {0, 1}
        /\ Behind \in Nat /\ Behind' \in Nat /\ Overwritten \in {0, 1}
        /\ errors \in Nat /\ late \in Nat /\ late' \in Nat /\ tears \in Nat
    <3>1. /\ level \in 0..2 /\ UnreadBad \in {0, 1} /\ Behind \in Nat
          /\ errors \in Nat /\ late \in Nat /\ tears \in Nat
      BY <1>3, AccountType
    <3>2. Overwritten \in {0, 1}
      BY DEF Overwritten
    <3>3. level' \in 0..2 /\ UnreadBad' \in {0, 1}
      BY DEF Level, UnreadBad
    <3>4. late' \in Nat
      BY <1>6, Constants
    <3>5. Behind' \in Nat
      BY <1>6, GrownFinite, NextBehind
    <3>6. QED
      BY <3>1, <3>2, <3>3, <3>4, <3>5
  <2>6. /\ level + UnreadBad + Behind <= errors + late + tears
        /\ Balance' <=> level' + UnreadBad' + Behind' <= errors' + late' + tears'
    BY <1>3 DEF Balance
  <2>7. /\ errors' = errors /\ tears' \in Nat
        /\ tears' = tears + (IF begun = MobileChallengeReply THEN 0 ELSE 1)
    BY <1>2, <2>2
  <2> HIDE DEF level
  \* The next values, by names of their own.
  <2>8. PICK l \in 0..2, u \in {0, 1}, b \in Nat, n \in Nat, t \in Nat :
          l = level' /\ u = UnreadBad' /\ b = Behind' /\ n = late' /\ t = tears'
    BY <2>2, <2>7, Zenon
  <2>9. more \in {0, 1} /\ b + more <= Behind + (n - late)
    BY <2>1, <2>2, <2>8, Zenon
  <2>10. SUFFICES l + u + b <= errors + n + t
    BY <2>6, <2>7, <2>8, Zenon
  <2>3. CASE begun = MobileChallengeReply
    <3>1. UnreadBad' = 0
      BY <1>2, <1>4, <1>5, <2>3 DEF UnreadBad, Unread
    <3>2. reply # Unset /\ IsChecked(reply) /\ ~Matches(reply) => UnreadBad = 1
      BY <1>4, <2>3 DEF IsChecked, Matches, UnreadBad, Unread, Bad, Fits
    <3>3. level' <= level + UnreadBad
      <4>1. level' <= level + (IF reply # Unset /\ IsChecked(reply) /\ ~Matches(reply) THEN 1 ELSE 0)
        BY <1>5 DEF level
      <4>2. QED
        BY <2>2, <3>2, <4>1
    <3>4. l <= level + UnreadBad /\ u = 0 /\ t = tears
      <4>1. tears' = tears
        BY <2>2, <2>3, <2>7
      <4>2. QED
        BY <2>8, <3>1, <3>3, <4>1, Zenon
    <3>5. QED
      BY <2>2, <2>6, <2>9, <3>4
  <2>4. CASE begun # MobileChallengeReply
    <3>1. level' <= level + 1
      <4>1. level' <= level + (IF reply # Unset /\ IsChecked(reply) /\ ~Matches(reply) THEN 1 ELSE 0)
        BY <1>5 DEF level
      <4>2. QED
        BY <2>2, <4>1
    <3>2. UnreadBad' <= UnreadBad + more
      <4>1. CASE UnreadBad = 1 \/ UnreadBad' = 0
        BY <2>1, <2>2, <4>1
      <4>2. CASE UnreadBad = 0 /\ UnreadBad' = 1
        <5>1. MobileChallengeReply \in Replies /\ Unread /\ MobileChallengeReply # Unset
          BY <1>2, <1>4, <2>4, UnsetAssumption DEF Unread
        <5>2. ~Bad(MobileChallengeReply)
          BY <4>2, <5>1 DEF UnreadBad
        <5>3. Bad(MobileChallengeReply)' /\ Unread'
          BY <4>2 DEF UnreadBad
        <5>4. MobileChallengeReply.to.idx \in Indices
          BY <5>1 DEF Replies, Challenges
        <5>5. more = Overwritten /\ MobileChallengeReply.to.idx = challenge_idx_
          BY <1>2, <2>1, <5>2, <5>3, <5>4 DEF Bad, Fits
        <5>6. lastReply' # MobileChallengeReply
          BY <1>2, <5>3 DEF Unread
        <5>7. Overwritten = 1
          BY <5>5, <5>6 DEF Overwritten
        <5>8. QED
          BY <4>2, <5>5, <5>7
      <4>3. QED
        BY <2>2, <4>1, <4>2
    <3>3. QED
      <4>1. l <= level + 1 /\ u <= UnreadBad + more /\ t = tears + 1
        <5>1. tears' = tears + 1
          BY <2>4, <2>7
        <5>2. QED
          BY <2>8, <3>1, <3>2, <5>1, Zenon
      <4>2. QED
        BY <2>2, <2>6, <2>9, <4>1
  <2>5. QED
    BY <2>3, <2>4
<1>10. QED
  BY <1>6, <1>7, <1>8, <1>9 DEF IInv

-----------------------------------------------------------------------------
(* The invariant and what follows from it.                                  *)

\* The account balances, every challenge that is not outdated has its place, and
\* what the status thread holds is what it told.
THEOREM Invariant == Spec => []IInv
<1>1. Init => IInv
  BY InitInv
<1>2. IInv /\ [Next]_vars => IInv'
  <2> SUFFICES ASSUME IInv, [Next]_vars PROVE IInv'
    OBVIOUS
  <2>1. CASE ReadIndex
    BY <2>1, ReadIndexInv
  <2>2. CASE Exchange
    BY <2>2, ExchangeInv
  <2>3. CASE sendMobileChallenge_
    BY <2>3, sendMobileChallengeInv
  <2>4. CASE StoreChallenge
    BY <2>4, StoreChallengeInv
  <2>5. CASE Answer
    BY <2>5, AnswerInv
  <2>6. CASE Connect \/ Disconnect
    BY <2>6, ClientInv DEF Connect, Disconnect
  <2>7. CASE UNCHANGED vars
    BY <2>7 DEF vars, aspm, IInv, TypeOK, Passed, Places, Since, Fits, Balance, Level, Behind,
                UnreadBad, Unread, Bad
  <2>8. QED
    BY <2>1, <2>2, <2>3, <2>4, <2>5, <2>6, <2>7 DEF Next
<1>3. QED
  BY <1>1, <1>2, PTL DEF Spec

\* Indices, challenges, replies and counts keep within their values; the 8-bit
\* index comes round.
THEOREM TypeCorrect == Spec => []TypeOK
<1>1. IInv => TypeOK
  BY DEF IInv
<1>2. QED
  BY <1>1, Invariant, PTL

\* A challenge held as passed on was passed on, but for one that took the place
\* of another in between.
THEOREM HeldWasTold == Spec => []HeldIsTold
<1>1. IInv => HeldIsTold
  BY DEF IInv, Passed, HeldIsTold
<1>2. QED
  BY <1>1, Invariant, PTL

\* No pause without two errors, outdated challenges or torn replies, however long
\* challenges and answers are under way and however many clients come and go.
THEOREM ErrorsPause == Spec => []OnlyErrorsPause
<1>1. IInv => OnlyErrorsPause
  <2> SUFFICES ASSUME IInv PROVE OnlyErrorsPause
    OBVIOUS
  <2>1. Level(paused, challenge_warning_) <= errors + late + tears
    BY AccountType DEF IInv, Balance
  <2>2. QED
    BY <2>1, AccountType DEF IInv, OnlyErrorsPause, Level
<1>2. QED
  BY <1>1, Invariant, PTL

-----------------------------------------------------------------------------
(* While nothing is outdated or torn, an answer counts.  What is cleared or *)
(* overwritten has no other challenge of its index with the client, because *)
(* ages tell the challenges of the queue apart and indices follow ages.     *)

Queue ==
    client # Unset =>
      /\ \A k \in DOMAIN client :
            /\ client[k].age < W
            /\ pending_challenges_[client[k].challenge.idx] = client[k].challenge.number
            /\ ~passing /\ client[k].age = 0 => prevSig_ = MobileChallengeSend
            /\ Unread /\ MobileChallengeReply # Unset
                 => client[k].challenge.idx # MobileChallengeReply.to.idx
      /\ \A j, k \in DOMAIN client : j < k => client[k].age < client[j].age

\* A challenge still to be told is pending and has not been answered.
Untold ==
    MobileChallengeSend # Unset /\ ~passing /\ prevSig_ # MobileChallengeSend =>
      /\ pending_challenges_[MobileChallengeSend.idx] = MobileChallengeSend.number
      /\ Unread /\ MobileChallengeReply # Unset
           => MobileChallengeReply.to.idx # MobileChallengeSend.idx

Kept == late = 0 /\ tears = 0 => Queue /\ Untold

LEMMA QueueType ==
  ASSUME TypeOK, client # Unset
  PROVE  /\ client \in Seq(Unanswered)
         /\ \A k \in DOMAIN client : /\ client[k].age \in 0..W
                                     /\ client[k].challenge.idx \in Indices
<1>1. client \in Seq(Unanswered)
  BY DEF TypeOK
<1>2. \A c \in Unanswered : c.age \in 0..W /\ c.challenge.idx \in Indices
  BY DEF Unanswered, Challenges
<1>3. QED
  BY <1>1, <1>2

LEMMA KeptInit == Init => Kept
  BY DEF Init, Kept, Queue, Untold

LEMMA KeptReadIndex == IInv /\ Kept /\ ReadIndex => Kept'
<1> SUFFICES ASSUME IInv, Kept, ReadIndex, late' = 0 /\ tears' = 0 PROVE Queue' /\ Untold'
  BY DEF Kept
<1>1. UNCHANGED <<aspm, MobileChallengeSend, MobileChallengeReply, prevSig_, passing, client, late, tears>>
      /\ begun' = MobileChallengeReply
  BY DEF ReadIndex
<1>2. Unread' => Unread
  BY <1>1 DEF Unread, aspm
<1>3. Queue /\ Untold
  BY <1>1 DEF Kept
<1>4. Queue'
  BY <1>1, <1>2, <1>3 DEF Queue, aspm
<1>5. Untold'
  BY <1>1, <1>2, <1>3 DEF Untold, aspm
<1>6. QED
  BY <1>4, <1>5

LEMMA KeptSend == IInv /\ Kept /\ sendMobileChallenge_ => Kept'
<1> SUFFICES ASSUME IInv, Kept, sendMobileChallenge_, late' = 0 /\ tears' = 0 PROVE Queue' /\ Untold'
  BY DEF Kept
<1> DEFINE e == [challenge |-> MobileChallengeSend, age |-> 0]
<1>1. ~passing /\ prevSig_ # MobileChallengeSend /\ passing' = TRUE /\ prevSig_' = prevSig_
      /\ UNCHANGED <<aspm, MobileChallengeSend, MobileChallengeReply, begun, late, tears>>
  BY DEF sendMobileChallenge_, Unchanged
<1>2. Queue /\ Untold
  BY <1>1 DEF Kept
<1>3. MobileChallengeSend # Unset /\ MobileChallengeSend \in Challenges
  BY <1>1 DEF IInv, TypeOK, Passed
<1>4. e \in Unanswered /\ e.age = 0 /\ e.challenge = MobileChallengeSend
  BY <1>3, Constants DEF Unanswered
<1> HIDE DEF e
<1>5. client' = IF client = Unset THEN Unset ELSE Append(client, e)
  BY DEF sendMobileChallenge_, e
<1>6. Unread' = Unread
  BY <1>1 DEF Unread, aspm
<1>7. Untold'
  BY <1>1 DEF Untold
<1>8. ASSUME client' # Unset PROVE Queue'
  <2>1. client # Unset /\ client \in Seq(Unanswered) /\ client' = Append(client, e)
    BY <1>5, <1>8, QueueType DEF IInv
  <2>2. /\ DOMAIN client' = 1..Len(client) + 1 /\ DOMAIN client = 1..Len(client) /\ Len(client) \in Nat
        /\ \A k \in DOMAIN client : client'[k] = client[k]
        /\ client'[Len(client) + 1] = e
    BY <1>4, <2>1
  <2>3. \A k \in DOMAIN client : client[k].age > 0 /\ client[k].age \in 0..W
    BY <1>1, <1>2, <2>1, QueueType DEF IInv, Queue
  <2>4. ASSUME NEW k \in DOMAIN client'
        PROVE  /\ client'[k].age < W
               /\ pending_challenges_[client'[k].challenge.idx] = client'[k].challenge.number
               /\ Unread /\ MobileChallengeReply # Unset
                    => client'[k].challenge.idx # MobileChallengeReply.to.idx
    <3>1. CASE k \in DOMAIN client
      BY <1>2, <2>1, <2>2, <3>1 DEF Queue
    <3>2. CASE k = Len(client) + 1
      BY <1>1, <1>2, <1>3, <1>4, <2>2, <3>2, Constants DEF Untold
    <3>3. QED
      BY <2>2, <3>1, <3>2
  <2>5. ASSUME NEW j \in DOMAIN client', NEW k \in DOMAIN client', j < k
        PROVE  client'[k].age < client'[j].age
    <3>1. j \in DOMAIN client
      BY <2>2, <2>5
    <3>2. CASE k \in DOMAIN client
      BY <1>2, <2>1, <2>2, <2>5, <3>1, <3>2 DEF Queue
    <3>3. CASE k = Len(client) + 1
      BY <1>4, <2>2, <2>3, <3>1, <3>3
    <3>4. QED
      BY <2>2, <3>2, <3>3
  <2>6. QED
    BY <1>1, <1>6, <2>4, <2>5 DEF Queue, aspm
<1>9. QED
  BY <1>7, <1>8 DEF Queue

LEMMA KeptStore == IInv /\ Kept /\ StoreChallenge => Kept'
<1> SUFFICES ASSUME IInv, Kept, StoreChallenge, late' = 0 /\ tears' = 0 PROVE Queue' /\ Untold'
  BY DEF Kept
<1>1. prevSig_' = MobileChallengeSend
      /\ UNCHANGED <<aspm, MobileChallengeSend, MobileChallengeReply, begun, late, tears, client>>
  BY DEF StoreChallenge, Unchanged
<1>2. Queue
  BY <1>1 DEF Kept
<1>3. Unread' = Unread
  BY <1>1 DEF Unread, aspm
<1>4. Queue'
  BY <1>1, <1>2, <1>3 DEF Queue, aspm
<1>5. Untold'
  BY <1>1 DEF Untold
<1>6. QED
  BY <1>4, <1>5

LEMMA KeptClient ==
  ASSUME IInv, Kept, Unchanged, UNCHANGED <<prevSig_, passing, told>>,
         client' = Unset \/ (client = Unset /\ client' = <<>>)
  PROVE  Kept'
<1> SUFFICES ASSUME late' = 0 /\ tears' = 0 PROVE Queue' /\ Untold'
  BY DEF Kept
<1>1. Untold
  BY DEF Kept, Unchanged
<1>2. Unread' = Unread
  BY DEF Unread, Unchanged, aspm
<1>3. Queue'
  BY DEF Queue
<1>4. Untold'
  BY <1>1, <1>2 DEF Untold, Unchanged, aspm
<1>5. QED
  BY <1>3, <1>4

LEMMA KeptAnswer == IInv /\ Kept /\ Answer => Kept'
<1> SUFFICES ASSUME IInv, Kept, Answer, late' = 0 /\ tears' = 0 PROVE Queue' /\ Untold'
  BY DEF Kept
<1>1. /\ client \in Seq(Unanswered) /\ client # <<>> /\ client # Unset
      /\ client' = Tail(client) /\ Head(client) = client[1]
      /\ UNCHANGED <<aspm, MobileChallengeSend, begun, prevSig_, passing, told, late, tears, slipped>>
  BY DEF IInv, TypeOK, Answer
<1>2. PICK right \in BOOLEAN : MobileChallengeReply' = [to |-> Head(client).challenge, right |-> right]
  BY DEF Answer
<1>3. MobileChallengeReply'.to = client[1].challenge
  BY <1>1, <1>2
<1>4. Queue /\ Untold
  BY <1>1 DEF Kept
<1>5. /\ 1 \in DOMAIN client
      /\ \A k \in DOMAIN client' : k \in Nat /\ k >= 1 /\ k + 1 \in DOMAIN client /\ client'[k] = client[k + 1]
  BY <1>1
<1>6. \A k \in DOMAIN client :
         /\ client[k].age \in 0..W - 1 /\ client[k].challenge.idx \in Indices
         /\ client[k].age = Since(client[k].challenge.idx)
  BY <1>1, <1>4, QueueType, Constants DEF IInv, Queue, Places
<1>7. ASSUME NEW k \in DOMAIN client'
      PROVE  /\ client'[k].challenge.idx # client[1].challenge.idx
  <2>1. client[k + 1].age < client[1].age
    BY <1>1, <1>4, <1>5 DEF Queue
  <2>2. QED
    BY <1>5, <1>6, <2>1
<1>8. Queue'
  <2>1. ASSUME NEW j \in DOMAIN client', NEW k \in DOMAIN client', j < k
        PROVE  client'[k].age < client'[j].age
    BY <1>1, <1>4, <1>5, <2>1 DEF Queue
  <2>2. ASSUME NEW k \in DOMAIN client'
        PROVE  /\ client'[k].age < W
               /\ pending_challenges_[client'[k].challenge.idx] = client'[k].challenge.number
               /\ ~passing /\ client'[k].age = 0 => prevSig_ = MobileChallengeSend
    BY <1>1, <1>4, <1>5 DEF Queue
  <2>3. QED
    BY <1>1, <1>3, <1>7, <2>1, <2>2 DEF Queue, aspm
<1>9. Untold'
  <2> SUFFICES ASSUME MobileChallengeSend # Unset, ~passing, prevSig_ # MobileChallengeSend
               PROVE  /\ pending_challenges_[MobileChallengeSend.idx] = MobileChallengeSend.number
                      /\ MobileChallengeReply'.to.idx # MobileChallengeSend.idx
    BY <1>1 DEF Untold, aspm
  <2>1. Since(MobileChallengeSend.idx) = 0
    BY DEF IInv, Places
  <2>2. client[1].age # 0
    BY <1>1, <1>4, <1>5 DEF Queue
  <2>3. QED
    BY <1>3, <1>4, <1>5, <1>6, <2>1, <2>2 DEF Untold
<1>10. QED
  BY <1>8, <1>9

\* A challenge generated while nothing is outdated finds its index free.
LEMMA NothingOutdated ==
  ASSUME IInv, late = 0, late' = 0, NEW reply \in Replies \cup {Unset},
         generateMobileChallengeSend_(StillPending(reply))
  PROVE  client # Unset => \A k \in DOMAIN client : client[k].age # W - 1
<1>1. late' = late + Outdated
  BY DEF generateMobileChallengeSend_
<1>2. Outdated = Newly + Overwritten
  BY DEF Outdated, Newly, Overwritten, Grown
<1>3. Overwritten \in {0, 1}
  BY DEF Overwritten
<1>4. client = Unset \/ client \in Seq(Unanswered)
  BY DEF IInv, TypeOK
<1>5. Newly \in Nat
  BY <1>4, GrownFinite DEF Newly
<1>6. Newly = 0
  <2>1. Newly + Overwritten = 0
    <3> DEFINE o == Outdated
    <3>1. late + o = 0
      BY <1>1
    <3>2. o \in Nat
      BY <1>2, <1>3, <1>5
    <3> HIDE DEF o
    <3>3. o = 0
      BY <3>1, <3>2
    <3>4. QED
      BY <1>2, <3>3 DEF o
  <2>2. QED
    BY <1>3, <1>5, <2>1
<1>7. client # Unset => Grown(client, W - 1) = {}
  BY <1>4, <1>6, GrownFinite, FS_EmptySet DEF Newly
<1>8. QED
  BY <1>7 DEF Grown

LEMMA KeptExchange == IInv /\ Kept /\ Exchange => Kept'
<1> SUFFICES ASSUME IInv, Kept, Exchange, late' = 0 /\ tears' = 0 PROVE Queue' /\ Untold'
  BY DEF Kept
<1>1. PICK menu \in BOOLEAN, moving \in BOOLEAN, reply \in Carried :
        /\ CheckReply(reply, menu)
        /\ \/ generateMobileChallengeSend_(StillPending(reply))
           \/ /\ pending_challenges_' = StillPending(reply)
              /\ UNCHANGED <<challenge_idx_, MobileChallengeSend, client, late>>
  BY DEF Exchange
<1>2. /\ begun # NoReply /\ begun' = NoReply
      /\ tears' = tears + (IF begun = MobileChallengeReply THEN 0 ELSE 1)
      /\ UNCHANGED <<MobileChallengeReply, prevSig_, passing>>
  BY DEF Exchange
<1>3. begun = MobileChallengeReply /\ tears = 0
  BY <1>2, AccountType DEF IInv
<1>4. reply = MobileChallengeReply /\ reply \in Replies \cup {Unset}
  BY <1>1, <1>2, <1>3, CarriedType DEF IInv
<1>5. lastReply' = reply /\ ~Unread'
  BY <1>1, <1>2, <1>4 DEF CheckReply, Unread
<1>6. late = 0
  <2>1. CASE late' = late
    BY <2>1
  <2>2. CASE late' = late + Outdated
    <3>1. Newly \in Nat /\ Overwritten \in {0, 1} /\ Outdated = Newly + Overwritten
      BY GrownFinite DEF IInv, TypeOK, Outdated, Newly, Overwritten, Grown
    <3> DEFINE o == Outdated
    <3>2. o \in Nat /\ late + o = 0 /\ late \in Nat
      BY <2>2, <3>1, AccountType DEF IInv
    <3> HIDE DEF o
    <3>3. QED
      BY <3>2
  <2>3. QED
    BY <1>1, <2>1, <2>2 DEF generateMobileChallengeSend_
<1>7. Queue /\ Untold
  BY <1>3, <1>6 DEF Kept
<1> DEFINE P == StillPending(reply)
\* Reading the reply clears no challenge but the one it answers.
<1>8. \A i \in Indices : P[i] # pending_challenges_[i]
        => reply # Unset /\ Unread /\ i = MobileChallengeReply.to.idx
  BY <1>4 DEF IInv, TypeOK, StillPending, IsChecked, Unread
<1> HIDE DEF P
<1>9. P \in [Indices -> Numbers \cup {Unset}]
  BY <1>4, StillPendingType DEF IInv, P
<1>10. MobileChallengeSend # Unset => MobileChallengeSend.idx \in Indices
  BY DEF IInv, TypeOK, Challenges
<1>11. CASE pending_challenges_' = P /\ UNCHANGED <<challenge_idx_, MobileChallengeSend, client, late>>
  <2>1. Queue'
    BY <1>2, <1>4, <1>5, <1>7, <1>8, <1>11, QueueType DEF IInv, Queue
  <2>2. Untold'
    BY <1>2, <1>4, <1>5, <1>7, <1>8, <1>10, <1>11 DEF Untold
  <2>3. QED
    BY <2>1, <2>2
<1>12. CASE generateMobileChallengeSend_(P)
  <2>1. PICK n \in Numbers :
          /\ MobileChallengeSend' = [idx |-> challenge_idx_, number |-> n]
          /\ pending_challenges_' = [P EXCEPT ![challenge_idx_] = n]
    BY <1>12 DEF generateMobileChallengeSend_
  <2>2. /\ challenge_idx_' = (challenge_idx_ + 1) % W
        /\ client' = IF client = Unset THEN Unset ELSE Aged
    BY <1>12 DEF generateMobileChallengeSend_
  <2>3. /\ challenge_idx_ \in Indices
        /\ \A i \in Indices : pending_challenges_'[i] = IF i = challenge_idx_ THEN n ELSE P[i]
        /\ MobileChallengeSend'.idx = challenge_idx_ /\ MobileChallengeSend'.number = n
    BY <1>9, <2>1 DEF IInv, TypeOK
  <2>4. Since(challenge_idx_) = W - 1
    BY <2>2, <2>3, NextIndex
  <2>5. Untold'
    BY <1>5, <2>3 DEF Untold
  <2>6. ASSUME client' # Unset PROVE Queue'
    <3>1. client # Unset /\ client \in Seq(Unanswered) /\ client' = Aged
      BY <2>2, <2>6, QueueType DEF IInv
    <3>2. /\ DOMAIN client' = DOMAIN client
          /\ \A k \in DOMAIN client :
                /\ client'[k].challenge = client[k].challenge
                /\ client'[k].age = IF client[k].age < W THEN client[k].age + 1 ELSE W
      BY <3>1, GrownAged
    <3>3. \A k \in DOMAIN client :
             /\ client[k].age \in 0..W - 1 /\ client[k].age # W - 1 /\ client[k].challenge.idx \in Indices
             /\ client[k].age = Since(client[k].challenge.idx)
      BY <1>4, <1>6, <1>7, <1>12, <3>1, NothingOutdated, QueueType, Constants DEF IInv, Queue, Places, P
    <3>4. \A k \in DOMAIN client : client'[k].age = client[k].age + 1 /\ client'[k].age < W
                                   /\ client'[k].age # 0
      BY <3>2, <3>3, Constants
    <3>5. ASSUME NEW k \in DOMAIN client
          PROVE  pending_challenges_'[client'[k].challenge.idx] = client'[k].challenge.number
      <4>1. client[k].challenge.idx # challenge_idx_
        BY <2>4, <3>3
      <4>2. P[client[k].challenge.idx] = pending_challenges_[client[k].challenge.idx]
        BY <1>4, <1>7, <1>8, <3>1, <3>3 DEF Queue
      <4>3. pending_challenges_[client[k].challenge.idx] = client[k].challenge.number
        BY <1>7, <3>1 DEF Queue
      <4>4. QED
        BY <2>3, <3>2, <3>3, <4>1, <4>2, <4>3
    <3>6. \A j, k \in DOMAIN client : j < k => client'[k].age < client'[j].age
      <4>1. \A j, k \in DOMAIN client : j < k => client[k].age < client[j].age
        BY <1>7, <3>1 DEF Queue
      <4>2. QED
        BY <3>3, <3>4, <4>1
    <3>7. QED
      BY <1>5, <3>2, <3>4, <3>5, <3>6 DEF Queue
  <2>7. QED
    BY <2>5, <2>6 DEF Queue
<1>13. QED
  BY <1>1, <1>11, <1>12 DEF P

\* While nothing is outdated or torn, every challenge that the client has is
\* pending: its answer counts, whatever else was answered or got lost.
THEOREM AnswersCounted == Spec => []AnswersCount
<1>1. Init => Kept
  BY KeptInit
<1>2. IInv /\ Kept /\ [Next]_vars => Kept'
  <2> SUFFICES ASSUME IInv, Kept, [Next]_vars PROVE Kept'
    OBVIOUS
  <2>1. CASE Connect \/ Disconnect
    BY <2>1, KeptClient DEF Connect, Disconnect
  <2>2. CASE UNCHANGED vars
    BY <2>2 DEF vars, aspm, Kept, Queue, Untold, Unread
  <2>3. QED
    BY <2>1, <2>2, KeptReadIndex, KeptExchange, KeptSend, KeptStore, KeptAnswer DEF Next
<1>3. Kept => AnswersCount
  BY DEF Kept, Queue, AnswersCount
<1>4. QED
  BY <1>1, <1>2, <1>3, Invariant, PTL DEF Spec
==============================================================================

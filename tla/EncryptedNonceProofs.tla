------------------------ MODULE EncryptedNonceProofs ------------------------
(***************************************************************************)
(* Proofs about EncryptedNonce, for any goroutines, validity and bounds:   *)
(* IInv is inductive, hence the typing, OutstandingNeverWraps and          *)
(* StrictOnce are invariants; with it, every step of the service is a step *)
(* of NonceService or invisible to its clients; with an order on top of    *)
(* it, HonoursUnexpired and DrainedByTidy hold in an orderly environment.  *)
(***************************************************************************)
EXTENDS EncryptedNonce, WellFoundedInduction, TLAPS

(* A set of naturals with an upper bound has a largest element, which is   *)
(* what Max chooses (the maxima taken by tidyMemoryHoldingLock and         *)
(* tidySequentialNonces exist).                                            *)
LEMMA MaxOfBounded ==
  ASSUME NEW S \in SUBSET Nat, S # {}, NEW b \in Nat, \A x \in S : x <= b
  PROVE  Max(S) \in S /\ \A x \in S : x <= Max(S)
<1> DEFINE T == {b - x : x \in S}
<1>1. T \subseteq Nat /\ T # {}
  <2>1. \A x \in S : b - x \in Nat
    OBVIOUS
  <2>2. PICK x \in S : TRUE
    OBVIOUS
  <2>3. b - x \in T
    OBVIOUS
  <2> QED BY <2>1, <2>3
<1>2. PICK y \in T : \A z \in T : ~ (<<z, y>> \in OpToRel(<, Nat))
  BY <1>1, NatLessThanWellFounded, WFMin, Zenon
<1>3. \A z \in T : ~ (z < y)
  BY <1>1, <1>2 DEF OpToRel
<1>4. PICK m \in S : y = b - m
  OBVIOUS
<1>5. \A x \in S : m >= x
  <2> TAKE x \in S
  <2>1. b - x \in T
    OBVIOUS
  <2> QED BY <1>3, <1>4, <2>1
<1> HIDE DEF T
<1>6. \E mm \in S : \A x \in S : mm >= x
  BY <1>5
<1>7. Max(S) \in S /\ \A x \in S : Max(S) >= x
  BY <1>6 DEF Max
<1> QED BY <1>7

-----------------------------------------------------------------------------
(* Adding the validity to an instant gives an instant.                     *)
LEMMA AddValidityType ==
  ASSUME NEW t \in Instant
  PROVE  AddValidity(t) \in Instant
BY ConstantsAssumption DEF AddValidity, Instant

(* tidyMemoryHoldingLock moves minCounter up, past every timestamp it      *)
(* forgets and never past the counters drawn.                              *)
LEMMA TidiedMinBounds ==
  ASSUME TypeOK, OutstandingNeverWraps, CountersDrawn, NEW now \in Instant
  PROVE  /\ TidiedMin(now) \in minCounter..nextCounter
         /\ \A ts \in DOMAIN maxIssued : ts < now.sec => maxIssued[ts] <= TidiedMin(now)
<1> DEFINE S == {minCounter} \cup {maxIssued[ts] : ts \in Expired(DOMAIN maxIssued, now)}
<1>1. S \in SUBSET Nat /\ S # {}
  BY DEF TypeOK, Expired
<1>2. \A x \in S : x <= nextCounter
  BY DEF TypeOK, Expired, OutstandingNeverWraps, CountersDrawn
<1>3. nextCounter \in Nat /\ minCounter \in S
  BY DEF TypeOK
<1>4. \A ts \in DOMAIN maxIssued : ts < now.sec => maxIssued[ts] \in S
  BY DEF Expired
<1>5. TidiedMin(now) = Max(S)
  BY DEF TidiedMin
<1> HIDE DEF S
<1>6. Max(S) \in S /\ \A x \in S : x <= Max(S)
  BY <1>1, <1>2, <1>3, MaxOfBounded
<1> QED BY <1>1, <1>2, <1>3, <1>4, <1>5, <1>6 DEF TypeOK

(* tidySequentialNonces moves minCounter up, through counters it removes,  *)
(* and never past the counters drawn.                                      *)
LEMMA SequentialMinBounds ==
  ASSUME nextCounter \in Nat, NEW map, NEW min \in 0..nextCounter
  PROVE  /\ SequentialMin(map, min) \in min..nextCounter
         /\ CanReach(map, min, SequentialMin(map, min))
<1> DEFINE S == {m \in min..nextCounter : CanReach(map, min, m)}
<1>1. CanReach(map, min, min)
  BY DEF CanReach
<1>2. S \in SUBSET Nat /\ min \in S /\ \A x \in S : x <= nextCounter
  BY <1>1
<1>3. SequentialMin(map, min) = Max(S)
  BY DEF SequentialMin
<1>4. \A m \in S : m \in min..nextCounter /\ CanReach(map, min, m)
  OBVIOUS
<1> HIDE DEF S
<1>5. Max(S) \in S
  BY <1>2, MaxOfBounded
<1> QED BY <1>3, <1>4, <1>5

(* Whatever a Tidy walk leaves out of the maps is behind the minimum it    *)
(* reached.                                                                *)
LEMMA SequentialRestKeeps ==
  ASSUME NEW map, NEW min \in Nat, NEW reached \in Nat,
         NEW ts \in DOMAIN map, map[ts] \in SUBSET Nat, NEW c \in map[ts], reached < c
  PROVE  LET rest == SequentialRest(map, min, reached)
         IN  ts \in DOMAIN rest /\ c \in rest[ts]
<1>1. c \notin (min + 1)..reached
  OBVIOUS
<1> QED BY <1>1 DEF SequentialRest

-----------------------------------------------------------------------------
(* The service starts in its invariant.                                    *)
LEMMA InitIInv == Init => IInv
BY ConstantsAssumption
   DEF Init, IInv, TypeOK, OutstandingNeverWraps, CountersDrawn, CountersDistinct,
       IssuedRecorded, RedeemedRemembered, RedeemersHoldIssued, StrictOnce,
       Instant, GetState, RedeemState, IdleGet, IdleRedeem, NoToken, Token, Issued

(* Get preserves the invariant: the counter it draws is new, and when the  *)
(* token is handed out its timestamp remembers it.                         *)
LEMMA GetPreserves ==
  ASSUME IInv, NEW p \in Issuer, GetStep(p)
  PROVE  IInv'
<1> USE DEF IInv
<1>1. CASE GetIncrement(p)
  <2>1. TypeOK'
    <3>1. [pc |-> "stamp", counter |-> nextCounter + 1, expiry |-> IdleGet.expiry] \in GetState
      BY ConstantsAssumption DEF TypeOK, GetState, IdleGet, Instant
    <3>2. get' \in [Issuer -> GetState]
      BY <1>1, <3>1 DEF GetIncrement, TypeOK
    <3> QED BY <1>1, <3>2 DEF GetIncrement, TypeOK, Issued
  <2>2. OutstandingNeverWraps'
    BY <1>1 DEF GetIncrement, OutstandingNeverWraps, TypeOK
  <2>3. CountersDrawn'
    BY <1>1 DEF GetIncrement, CountersDrawn, TypeOK, GetState, IdleGet, Issued
  <2>4. CountersDistinct'
    BY <1>1 DEF GetIncrement, CountersDrawn, CountersDistinct, TypeOK, GetState, IdleGet, Issued
  <2>5. (IssuedRecorded /\ RedeemedRemembered /\ RedeemersHoldIssued /\ StrictOnce)'
    BY <1>1 DEF GetIncrement, IssuedRecorded, RedeemedRemembered, RedeemersHoldIssued,
                StrictOnce, Refused, AlreadyRedeemed, Issued
  <2> QED BY <2>1, <2>2, <2>3, <2>4, <2>5
<1>2. CASE GetStamp(p)
  <2>1. TypeOK'
    <3>1. get[p] \in GetState
      BY DEF TypeOK
    <3>2. AddValidity(clock) \in Instant
      BY AddValidityType DEF TypeOK
    <3>3. get' \in [Issuer -> GetState]
      BY <1>2, <3>1, <3>2 DEF GetStamp, TypeOK, GetState
    <3>4. UNCHANGED <<clock, key, nextCounter, minCounter, maxIssued, redeemedTokens,
                      redeem, redemptions>>
      BY <1>2 DEF GetStamp, service
    <3> QED BY <3>3, <3>4 DEF TypeOK, Issued
  <2>2. (CountersDrawn /\ CountersDistinct)'
    BY <1>2 DEF GetStamp, service, CountersDrawn, CountersDistinct, TypeOK, GetState, Issued
  <2>3. (OutstandingNeverWraps /\ IssuedRecorded /\ RedeemedRemembered
           /\ RedeemersHoldIssued /\ StrictOnce)'
    BY <1>2 DEF GetStamp, service, OutstandingNeverWraps, IssuedRecorded, RedeemedRemembered,
                RedeemersHoldIssued, StrictOnce, Refused, AlreadyRedeemed, Issued
  <2> QED BY <2>1, <2>2, <2>3
<1>3. CASE GetFail(p)
  <2>1. TypeOK'
    <3>1. get' \in [Issuer -> GetState]
      BY <1>3, ConstantsAssumption DEF GetFail, TypeOK, GetState, IdleGet, Instant
    <3> QED BY <1>3, <3>1 DEF GetFail, service, TypeOK, Issued
  <2>2. (CountersDrawn /\ CountersDistinct)'
    BY <1>3 DEF GetFail, service, CountersDrawn, CountersDistinct, TypeOK, GetState, IdleGet, Issued
  <2>3. (OutstandingNeverWraps /\ IssuedRecorded /\ RedeemedRemembered
           /\ RedeemersHoldIssued /\ StrictOnce)'
    BY <1>3 DEF GetFail, service, OutstandingNeverWraps, IssuedRecorded, RedeemedRemembered,
                RedeemersHoldIssued, StrictOnce, Refused, AlreadyRedeemed, Issued
  <2> QED BY <2>1, <2>2, <2>3
<1>4. CASE GetRecord(p)
  <2> DEFINE token == [key |-> key, counter |-> get[p].counter, expiry |-> get[p].expiry]
             ts == Timestamp(token)
  <2>1. /\ get[p] \in GetState
        /\ get[p].pc # "idle"
    BY <1>4 DEF GetRecord, TypeOK
  <2>2. token \in Token /\ ts \in Nat /\ token.counter \in 1..nextCounter
    BY <2>1 DEF GetState, Token, Timestamp, Instant, TypeOK, CountersDrawn
  <2>3. /\ maxIssued' = RecordedCounter(token.counter, ts)
        /\ redemptions' = [t \in Issued \cup {token} |->
                             IF t \in Issued THEN redemptions[t] ELSE 0]
        /\ get' = [get EXCEPT ![p] = IdleGet]
        /\ UNCHANGED <<clock, key, nextCounter, minCounter, redeemedTokens, redeem>>
    BY <1>4 DEF GetRecord
  <2>4. Issued' = Issued \cup {token}
    BY <2>3 DEF Issued
  <2>5. /\ DOMAIN maxIssued' = DOMAIN maxIssued \cup {ts}
        /\ maxIssued' = [x \in DOMAIN maxIssued' |-> maxIssued'[x]]
        /\ \A x \in DOMAIN maxIssued : maxIssued[x] <= maxIssued'[x]
        /\ \A x \in DOMAIN maxIssued' : maxIssued'[x] \in 0..nextCounter
        /\ token.counter <= maxIssued'[ts]
    BY <2>2, <2>3 DEF RecordedCounter, TypeOK, CountersDrawn
  <2> HIDE DEF token, ts
  <2>6. IdleGet \in GetState
    BY ConstantsAssumption DEF GetState, IdleGet, Instant
  <2>7. TypeOK'
    <3>1. get' \in [Issuer -> GetState]
      BY <2>3, <2>6 DEF TypeOK
    <3>2. Issued' \subseteq Token /\ redemptions' = [t \in Issued' |-> redemptions'[t]]
      BY <2>2, <2>3, <2>4 DEF TypeOK
    <3>3. \A t \in Issued' : redemptions'[t] \in Nat
      BY <2>3, <2>4 DEF TypeOK
    <3>4. DOMAIN maxIssued' \subseteq Nat /\ \A x \in DOMAIN maxIssued' : maxIssued'[x] \in Nat
      BY <2>2, <2>5 DEF TypeOK
    <3> QED BY <2>3, <2>5, <3>1, <3>2, <3>3, <3>4 DEF TypeOK
  <2>8. \A t \in Issued' : t \in Issued \/ (t = token /\ t.key = key /\ t.counter = get[p].counter
                                              /\ Timestamp(t) = ts)
    BY <2>4 DEF token, ts
  <2>9. CountersDrawn'
    BY <2>1, <2>2, <2>3, <2>5, <2>6, <2>8 DEF CountersDrawn, TypeOK, GetState, IdleGet
  <2>10. CountersDistinct'
    BY <2>1, <2>3, <2>8 DEF CountersDistinct, TypeOK, GetState, IdleGet
  <2>11. IssuedRecorded'
    <3> SUFFICES ASSUME NEW t \in Issued', t.key = key
                 PROVE  \/ t.counter <= minCounter
                        \/ Timestamp(t) \in DOMAIN maxIssued' /\ t.counter <= maxIssued'[Timestamp(t)]
      BY <2>3 DEF IssuedRecorded, Timestamp
    <3>1. CASE t \in Issued
      <4>1. t.counter \in Nat
        BY <3>1 DEF TypeOK, Token
      <4>2. \A x \in DOMAIN maxIssued : maxIssued[x] \in Nat /\ maxIssued'[x] \in Nat
        BY <2>5 DEF TypeOK
      <4> QED BY <3>1, <4>1, <4>2, <2>5 DEF IssuedRecorded
    <3>2. CASE t \notin Issued
      BY <3>2, <2>5, <2>8 DEF token
    <3> QED BY <3>1, <3>2
  <2>12. RedeemedRemembered' /\ StrictOnce'
    <3>1. \A t \in Issued' : (t \in Issued /\ redemptions'[t] = redemptions[t]) \/ redemptions'[t] = 0
      BY <2>3, <2>4
    <3>2. RedeemedRemembered'
      <4> SUFFICES ASSUME NEW t \in Issued', t.key = key, redemptions'[t] > 0
                   PROVE  Refused(t)'
        BY <2>3 DEF RedeemedRemembered
      <4>1. t \in Issued /\ redemptions[t] > 0
        BY <3>1
      <4>2. Refused(t)
        BY <4>1 DEF RedeemedRemembered
      <4> QED BY <2>3, <4>2 DEF Refused, AlreadyRedeemed, Timestamp
    <3>3. StrictOnce'
      BY <3>1 DEF StrictOnce
    <3> QED BY <3>2, <3>3
  <2>13. RedeemersHoldIssued'
    BY <2>3, <2>4 DEF RedeemersHoldIssued, DecodedExpiry, Timestamp
  <2>14. OutstandingNeverWraps'
    BY <2>3 DEF OutstandingNeverWraps
  <2> QED BY <2>7, <2>9, <2>10, <2>11, <2>12, <2>13, <2>14
<1> QED BY <1>1, <1>2, <1>3, <1>4 DEF GetStep

-----------------------------------------------------------------------------
(* Forgetting the seconds before now, as Redeem and Tidy do with the       *)
(* minimum TidiedMin(now): a token recorded stays recorded and a token     *)
(* refused stays refused, because whatever is forgotten is behind the      *)
(* raised minimum.                                                         *)
LEMMA ForgettingIsSafe ==
  ASSUME IInv, NEW now \in Instant, NEW t \in Issued, t.key = key
  PROVE  /\ \/ t.counter <= TidiedMin(now)
            \/ /\ Timestamp(t) \in DOMAIN WithoutExpired(maxIssued, now)
               /\ t.counter <= WithoutExpired(maxIssued, now)[Timestamp(t)]
         /\ Refused(t) =>
              \/ t.counter <= TidiedMin(now)
              \/ /\ Timestamp(t) \in DOMAIN WithoutExpired(redeemedTokens, now)
                 /\ t.counter \in WithoutExpired(redeemedTokens, now)[Timestamp(t)]
<1>1. /\ TidiedMin(now) \in minCounter..nextCounter
      /\ \A ts \in DOMAIN maxIssued : ts < now.sec => maxIssued[ts] <= TidiedMin(now)
  BY TidiedMinBounds DEF IInv
<1>2. t.counter \in Nat /\ Timestamp(t) \in Nat /\ minCounter \in Nat /\ nextCounter \in Nat
  BY DEF IInv, TypeOK, Token, Timestamp, Instant
<1>3. \A ts \in DOMAIN maxIssued : maxIssued[ts] \in Nat
  BY DEF IInv, TypeOK
<1>4. \/ t.counter <= minCounter
      \/ Timestamp(t) \in DOMAIN maxIssued /\ t.counter <= maxIssued[Timestamp(t)]
  BY DEF IInv, IssuedRecorded
<1>5. CASE Timestamp(t) < now.sec
  <2>1. t.counter <= TidiedMin(now)
    BY <1>1, <1>2, <1>3, <1>4, <1>5
  <2> QED BY <2>1
<1>6. CASE ~ (Timestamp(t) < now.sec)
  BY <1>1, <1>2, <1>4, <1>6 DEF WithoutExpired, Expired, Refused, AlreadyRedeemed
<1> QED BY <1>5, <1>6

(* A nonce the service refuses for good stays refused over a step.         *)
RefusalIsFinal == \A t \in Issued : t.key = key /\ Refused(t) => Refused(t)'

(* Redeem preserves the invariant: the critical section looks at           *)
(* minCounter again, and leaves the token it accepts refused.              *)
LEMMA RedeemPreserves ==
  ASSUME IInv, NEW p \in Redeemer, RedeemStep(p)
  PROVE  IInv' /\ RefusalIsFinal
<1> USE DEF IInv
<1>0. redeem[p] \in RedeemState /\ IdleRedeem \in RedeemState /\ IdleRedeem.pc = "idle"
  BY ConstantsAssumption DEF TypeOK, RedeemState, IdleRedeem, NoToken, Token, Instant
<1>1. ASSUME NEW token \in Issued, RedeemStart(p, token)
      PROVE  IInv' /\ RefusalIsFinal
  <2>1. [pc |-> "check", token |-> token, now |-> clock] \in RedeemState
    BY DEF TypeOK, RedeemState
  <2>2. redeem' \in [Redeemer -> RedeemState]
    BY <1>1, <2>1 DEF RedeemStart, TypeOK
  <2>3. UNCHANGED <<clock, key, nextCounter, minCounter, maxIssued, redeemedTokens, get, redemptions>>
    BY <1>1 DEF RedeemStart, service
  <2>4. TypeOK'
    BY <2>2, <2>3 DEF TypeOK, Issued
  <2>5. RedeemersHoldIssued'
    BY <1>1, <2>3 DEF RedeemStart, RedeemersHoldIssued, TypeOK, Issued
  <2>6. (OutstandingNeverWraps /\ CountersDrawn /\ CountersDistinct /\ IssuedRecorded
           /\ RedeemedRemembered /\ StrictOnce)'
    BY <2>3 DEF OutstandingNeverWraps, CountersDrawn, CountersDistinct, IssuedRecorded,
                RedeemedRemembered, StrictOnce, Refused, AlreadyRedeemed, Issued
  <2>7. RefusalIsFinal
    BY <2>3 DEF RefusalIsFinal, Refused, AlreadyRedeemed
  <2> QED BY <2>4, <2>5, <2>6, <2>7
<1>2. CASE RedeemCheck(p)
  <2>1. redeem' \in [Redeemer -> RedeemState]
    BY <1>0, <1>2 DEF RedeemCheck, TypeOK, RedeemState
  <2>2. UNCHANGED <<clock, key, nextCounter, minCounter, maxIssued, redeemedTokens, get, redemptions>>
    BY <1>2 DEF RedeemCheck, service
  <2>3. TypeOK'
    BY <2>1, <2>2 DEF TypeOK, Issued
  <2>4. RedeemersHoldIssued'
    BY <1>0, <1>2, <2>2 DEF RedeemCheck, RedeemersHoldIssued, TypeOK, RedeemState, Issued
  <2>5. (OutstandingNeverWraps /\ CountersDrawn /\ CountersDistinct /\ IssuedRecorded
           /\ RedeemedRemembered /\ StrictOnce)'
    BY <2>2 DEF OutstandingNeverWraps, CountersDrawn, CountersDistinct, IssuedRecorded,
                RedeemedRemembered, StrictOnce, Refused, AlreadyRedeemed, Issued
  <2>6. RefusalIsFinal
    BY <2>2 DEF RefusalIsFinal, Refused, AlreadyRedeemed
  <2> QED BY <2>3, <2>4, <2>5, <2>6
<1>3. CASE RedeemLocked(p)
  <2>1. redeem' = [redeem EXCEPT ![p] = IdleRedeem] /\ UNCHANGED <<clock, key, nextCounter, get>>
    BY <1>3 DEF RedeemLocked
  <2>2. redeem' \in [Redeemer -> RedeemState]
    BY <1>0, <2>1 DEF TypeOK
  <2>3. CASE Refused(redeem[p].token)
    <3>1. UNCHANGED <<minCounter, maxIssued, redeemedTokens, redemptions>>
      BY <1>3, <2>3 DEF RedeemLocked
    <3>2. TypeOK'
      BY <2>1, <2>2, <3>1 DEF TypeOK, Issued
    <3>3. RedeemersHoldIssued'
      BY <1>0, <2>1, <3>1 DEF RedeemersHoldIssued, TypeOK, Issued
    <3>4. (OutstandingNeverWraps /\ CountersDrawn /\ CountersDistinct /\ IssuedRecorded
             /\ RedeemedRemembered /\ StrictOnce)'
      BY <2>1, <3>1 DEF OutstandingNeverWraps, CountersDrawn, CountersDistinct, IssuedRecorded,
                        RedeemedRemembered, StrictOnce, Refused, AlreadyRedeemed, Issued
    <3>5. RefusalIsFinal
      BY <3>1 DEF RefusalIsFinal, Refused, AlreadyRedeemed
    <3> QED BY <3>2, <3>3, <3>4, <3>5
  <2>4. CASE ~ Refused(redeem[p].token)
    <3> DEFINE token == redeem[p].token
               now   == redeem[p].now
               ts    == Timestamp(token)
               min   == TidiedMin(now)
               kept  == WithoutExpired(Provisioned(ts), now)
    <3>1. /\ token \in Issued /\ token.key = key /\ ~ Before(DecodedExpiry(token), now)
          /\ token \in Token /\ now \in Instant /\ ts \in Nat /\ token.counter \in 1..nextCounter
      BY <1>0, <1>3 DEF RedeemLocked, RedeemersHoldIssued, RedeemState, TypeOK, Token, Instant,
                        Timestamp, CountersDrawn
    <3>2. ~ (ts < now.sec)
      BY <3>1 DEF Before, DecodedExpiry
    <3>3. Spend(token, now) /\ redemptions' = [redemptions EXCEPT ![token] = @ + 1]
      BY <1>3, <2>4 DEF RedeemLocked
    <3>4. min \in minCounter..nextCounter /\ minCounter \in Nat /\ nextCounter \in Nat
      BY <3>1, TidiedMinBounds DEF TypeOK
    <3>5. /\ ts \in DOMAIN kept
          /\ DOMAIN kept \subseteq Nat
          /\ \A x \in DOMAIN kept : kept[x] \in SUBSET (1..nextCounter)
          /\ kept = [x \in DOMAIN kept |-> kept[x]]
          /\ \A x \in DOMAIN WithoutExpired(redeemedTokens, now) :
               x \in DOMAIN kept /\ kept[x] = WithoutExpired(redeemedTokens, now)[x]
      BY <3>1, <3>2 DEF WithoutExpired, Expired, Provisioned, CountersDrawn, TypeOK
    <3>6. maxIssued' = WithoutExpired(maxIssued, now)
      BY <3>3 DEF Spend
    <3>7. \/ minCounter' = token.counter /\ redeemedTokens' = kept /\ min + 1 = token.counter
          \/ minCounter' = min /\ redeemedTokens' = [kept EXCEPT ![ts] = @ \cup {token.counter}]
      BY <3>3 DEF Spend
    <3> HIDE DEF token, now, ts, min, kept
    <3>8. /\ minCounter' \in minCounter..nextCounter /\ min <= minCounter'
          /\ DOMAIN redeemedTokens' = DOMAIN kept
          /\ redeemedTokens' = [x \in DOMAIN redeemedTokens' |-> redeemedTokens'[x]]
          /\ \A x \in DOMAIN kept : kept[x] \subseteq redeemedTokens'[x]
          /\ \A x \in DOMAIN kept : redeemedTokens'[x] \in SUBSET (1..nextCounter)
          /\ token.counter <= minCounter' \/ token.counter \in redeemedTokens'[ts]
      BY <3>1, <3>4, <3>5, <3>7
    <3>9. /\ Issued' = Issued
          /\ redemptions' = [t \in Issued' |-> redemptions'[t]]
          /\ \A t \in Issued : t # token => redemptions'[t] = redemptions[t]
          /\ redemptions'[token] = redemptions[token] + 1
      BY <3>1, <3>3 DEF Issued, TypeOK
    <3>10. /\ DOMAIN maxIssued' \subseteq DOMAIN maxIssued
           /\ maxIssued' = [x \in DOMAIN maxIssued' |-> maxIssued'[x]]
           /\ \A x \in DOMAIN maxIssued' : maxIssued'[x] = maxIssued[x]
      BY <3>6 DEF WithoutExpired, Expired
    <3>11. redemptions[token] = 0
      <4>1. ~ (redemptions[token] > 0)
        BY <2>4, <3>1 DEF RedeemedRemembered, token
      <4> QED BY <3>1, <4>1 DEF TypeOK
    <3>12. TypeOK'
      <4>1. \A t \in Issued' : redemptions'[t] \in Nat
        BY <3>9, <3>11 DEF TypeOK
      <4>2. /\ DOMAIN maxIssued' \subseteq Nat
            /\ \A x \in DOMAIN maxIssued' : maxIssued'[x] \in Nat
        BY <3>10 DEF TypeOK
      <4>3. /\ DOMAIN redeemedTokens' \subseteq Nat
            /\ \A x \in DOMAIN redeemedTokens' : redeemedTokens'[x] \in SUBSET Nat
        BY <3>5, <3>8
      <4> QED BY <2>1, <2>2, <3>4, <3>8, <3>9, <3>10, <4>1, <4>2, <4>3 DEF TypeOK
    <3>13. OutstandingNeverWraps'
      BY <2>1, <3>4, <3>8 DEF OutstandingNeverWraps
    <3>14. CountersDrawn' /\ CountersDistinct'
      BY <2>1, <3>8, <3>9, <3>10 DEF CountersDrawn, CountersDistinct
    <3>15. IssuedRecorded' /\ RedeemedRemembered' /\ RefusalIsFinal
      <4> SUFFICES ASSUME NEW t \in Issued, t.key = key
                   PROVE  /\ \/ t.counter <= minCounter'
                             \/ /\ Timestamp(t) \in DOMAIN maxIssued'
                                /\ t.counter <= maxIssued'[Timestamp(t)]
                          /\ redemptions'[t] > 0 => Refused(t)'
                          /\ Refused(t) => Refused(t)'
        BY <2>1, <3>9 DEF IssuedRecorded, RedeemedRemembered, RefusalIsFinal, Timestamp
      <4>1. t.counter \in Nat /\ Timestamp(t) \in Nat
        BY DEF TypeOK, Token, Timestamp, Instant
      <4>2. /\ \/ t.counter <= min
               \/ Timestamp(t) \in DOMAIN maxIssued' /\ t.counter <= maxIssued'[Timestamp(t)]
            /\ Refused(t) =>
                 \/ t.counter <= min
                 \/ Timestamp(t) \in DOMAIN kept /\ t.counter \in kept[Timestamp(t)]
        BY <3>1, <3>5, <3>6, ForgettingIsSafe DEF min
      <4>3. t.counter <= min => t.counter <= minCounter'
        BY <3>4, <3>8, <4>1
      <4>4. redemptions'[t] > 0 \/ Refused(t) => t.counter <= minCounter'
              \/ (Timestamp(t) \in DOMAIN redeemedTokens' /\ t.counter \in redeemedTokens'[Timestamp(t)])
        <5>1. CASE t = token
          BY <3>5, <3>8, <5>1 DEF ts
        <5>2. CASE t # token
          BY <3>8, <3>9, <4>2, <4>3, <5>2 DEF RedeemedRemembered
        <5> QED BY <5>1, <5>2
      <4>5. redemptions'[t] > 0 \/ Refused(t) => Refused(t)'
        BY <4>4 DEF Refused, AlreadyRedeemed, Timestamp
      <4> QED BY <4>2, <4>3, <4>5
    <3>16. RedeemersHoldIssued'
      BY <1>0, <2>1, <3>9 DEF RedeemersHoldIssued, TypeOK
    <3>17. StrictOnce'
      BY <3>9, <3>11 DEF StrictOnce
    <3> QED BY <3>12, <3>13, <3>14, <3>15, <3>16, <3>17
  <2> QED BY <2>3, <2>4
<1> QED BY <1>1, <1>2, <1>3 DEF RedeemStep

-----------------------------------------------------------------------------
(* Tidy preserves the invariant: what it drops is behind the minimum it    *)
(* leaves.                                                                 *)
LEMMA TidyPreserves ==
  ASSUME IInv, Tidy
  PROVE  IInv' /\ RefusalIsFinal
<1> USE DEF IInv
<1> DEFINE min     == TidiedMin(clock)
           kept    == WithoutExpired(redeemedTokens, clock)
           reached == MinAfterTidy
<1>1. /\ maxIssued' = WithoutExpired(maxIssued, clock)
      /\ minCounter' = reached
      /\ redeemedTokens' = SequentialRest(kept, min, reached)
      /\ UNCHANGED <<clock, key, nextCounter, get, redeem, redemptions>>
  BY DEF Tidy
<1>2. min \in minCounter..nextCounter /\ minCounter \in Nat /\ nextCounter \in Nat
  BY TidiedMinBounds DEF TypeOK
<1>3. reached \in min..nextCounter
  BY <1>2, SequentialMinBounds DEF MinAfterTidy
<1>4. /\ DOMAIN kept \subseteq Nat
      /\ \A ts \in DOMAIN kept : kept[ts] \in SUBSET (1..nextCounter)
  BY DEF WithoutExpired, Expired, TypeOK, CountersDrawn
<1> HIDE DEF min, kept, reached
<1>5. /\ DOMAIN redeemedTokens' \subseteq Nat
      /\ redeemedTokens' = [ts \in DOMAIN redeemedTokens' |-> redeemedTokens'[ts]]
      /\ \A ts \in DOMAIN redeemedTokens' : redeemedTokens'[ts] \in SUBSET (1..nextCounter)
  <2>1. CASE \A ts \in DOMAIN kept : kept[ts] \subseteq (min + 1)..reached
    BY <1>1, <2>1 DEF SequentialRest
  <2>2. CASE ~ \A ts \in DOMAIN kept : kept[ts] \subseteq (min + 1)..reached
    <3>1. redeemedTokens' = [ts \in DOMAIN kept |-> kept[ts] \ ((min + 1)..reached)]
      BY <1>1, <2>2 DEF SequentialRest
    <3> QED BY <1>4, <3>1
  <2> QED BY <2>1, <2>2
<1>6. /\ DOMAIN maxIssued' \subseteq DOMAIN maxIssued
      /\ maxIssued' = [x \in DOMAIN maxIssued' |-> maxIssued'[x]]
      /\ \A x \in DOMAIN maxIssued' : maxIssued'[x] = maxIssued[x]
  BY <1>1 DEF WithoutExpired, Expired
<1>7. TypeOK'
  <2>1. \A ts \in DOMAIN redeemedTokens' : redeemedTokens'[ts] \in SUBSET Nat
    BY <1>2, <1>5
  <2>2. minCounter' \in Nat
    BY <1>1, <1>2, <1>3
  <2> QED BY <1>1, <1>5, <1>6, <2>1, <2>2 DEF TypeOK, Issued
<1>8. OutstandingNeverWraps'
  BY <1>1, <1>2, <1>3 DEF OutstandingNeverWraps
<1>9. CountersDrawn' /\ CountersDistinct'
  BY <1>1, <1>5, <1>6 DEF CountersDrawn, CountersDistinct, Issued
<1>10. IssuedRecorded' /\ RedeemedRemembered' /\ RefusalIsFinal
  <2> SUFFICES ASSUME NEW t \in Issued, t.key = key
               PROVE  /\ \/ t.counter <= minCounter'
                         \/ /\ Timestamp(t) \in DOMAIN maxIssued'
                            /\ t.counter <= maxIssued'[Timestamp(t)]
                      /\ redemptions[t] > 0 \/ Refused(t) => Refused(t)'
    BY <1>1 DEF IssuedRecorded, RedeemedRemembered, RefusalIsFinal, Timestamp, Issued
  <2>1. t.counter \in Nat /\ Timestamp(t) \in Nat
    BY DEF TypeOK, Token, Timestamp, Instant
  <2>2. /\ \/ t.counter <= min
           \/ Timestamp(t) \in DOMAIN maxIssued' /\ t.counter <= maxIssued'[Timestamp(t)]
        /\ Refused(t) =>
             \/ t.counter <= min
             \/ Timestamp(t) \in DOMAIN kept /\ t.counter \in kept[Timestamp(t)]
    BY <1>1, ForgettingIsSafe DEF min, kept, TypeOK
  <2>3. t.counter <= min => t.counter <= minCounter'
    BY <1>1, <1>2, <1>3, <2>1
  <2>4. ASSUME Timestamp(t) \in DOMAIN kept, t.counter \in kept[Timestamp(t)],
               ~ (t.counter <= minCounter')
        PROVE  Timestamp(t) \in DOMAIN redeemedTokens' /\ t.counter \in redeemedTokens'[Timestamp(t)]
    <3>1. reached < t.counter
      BY <1>1, <1>2, <1>3, <2>1, <2>4
    <3>2. min \in Nat /\ reached \in Nat /\ kept[Timestamp(t)] \in SUBSET Nat
      BY <1>2, <1>3, <1>4, <2>4
    <3> QED BY <1>1, <2>4, <3>1, <3>2, SequentialRestKeeps
  <2>5. redemptions[t] > 0 \/ Refused(t) => Refused(t)'
    BY <2>2, <2>3, <2>4 DEF RedeemedRemembered, Refused, AlreadyRedeemed, Timestamp
  <2> QED BY <2>2, <2>3, <2>5
<1>11. RedeemersHoldIssued' /\ StrictOnce'
  BY <1>1 DEF RedeemersHoldIssued, StrictOnce, Issued
<1> QED BY <1>7, <1>8, <1>9, <1>10, <1>11

(* So do the clock, whichever way it moves, and a restart, after which no  *)
(* old token decrypts.                                                     *)
LEMMA EnvironmentPreserves ==
  ASSUME IInv, Tick \/ StepBack \/ Restart
  PROVE  IInv'
<1> USE DEF IInv
<1>1. CASE Tick \/ StepBack
  <2>1. clock' \in Instant
    BY <1>1, ConstantsAssumption DEF Tick, StepBack, TypeOK, Instant
  <2>2. UNCHANGED <<key, nextCounter, minCounter, maxIssued, redeemedTokens, get, redeem, redemptions>>
    BY <1>1 DEF Tick, StepBack, service
  <2>3. TypeOK'
    BY <2>1, <2>2 DEF TypeOK, Issued
  <2>4. (OutstandingNeverWraps /\ CountersDrawn /\ CountersDistinct /\ IssuedRecorded
           /\ RedeemedRemembered /\ RedeemersHoldIssued /\ StrictOnce)'
    BY <2>2 DEF OutstandingNeverWraps, CountersDrawn, CountersDistinct, IssuedRecorded,
                RedeemedRemembered, RedeemersHoldIssued, StrictOnce, Refused, AlreadyRedeemed, Issued
  <2> QED BY <2>3, <2>4
<1>2. CASE Restart
  <2>1. /\ key' = key + 1 /\ nextCounter' = 0 /\ minCounter' = 0
        /\ maxIssued' = << >> /\ redeemedTokens' = << >>
        /\ get' = [p \in Issuer |-> IdleGet] /\ redeem' = [p \in Redeemer |-> IdleRedeem]
        /\ UNCHANGED <<clock, redemptions>>
    BY <1>2 DEF Restart
  <2>2. /\ IdleGet \in GetState /\ IdleGet.pc = "idle"
        /\ IdleRedeem \in RedeemState /\ IdleRedeem.pc = "idle"
    BY ConstantsAssumption DEF GetState, RedeemState, IdleGet, IdleRedeem, NoToken, Token, Instant
  <2>3. TypeOK'
    BY <2>1, <2>2 DEF TypeOK, Issued
  <2>4. \A t \in Issued' : t \in Issued /\ t.key \in Nat /\ t.key <= key /\ t.key # key' /\ t.key <= key'
    BY <2>1 DEF TypeOK, CountersDrawn, Token, Issued
  <2>5. (OutstandingNeverWraps /\ IssuedRecorded /\ RedeemedRemembered)'
    BY <2>1, <2>4 DEF OutstandingNeverWraps, IssuedRecorded, RedeemedRemembered
  <2>6. CountersDrawn' /\ CountersDistinct'
    BY <2>1, <2>2, <2>4 DEF CountersDrawn, CountersDistinct
  <2>7. RedeemersHoldIssued' /\ StrictOnce'
    BY <2>1, <2>2 DEF RedeemersHoldIssued, StrictOnce, Issued
  <2> QED BY <2>3, <2>5, <2>6, <2>7
<1> QED BY <1>1, <1>2

-----------------------------------------------------------------------------
(* Every step of the service preserves IInv, so it holds for ever.         *)
THEOREM Invariance == Spec => []IInv
<1>1. Init => IInv
  BY InitIInv
<1>2. IInv /\ [Next]_vars => IInv'
  <2> SUFFICES ASSUME IInv, [Next]_vars PROVE IInv'
    OBVIOUS
  <2>1. CASE Next
    BY <2>1, GetPreserves, RedeemPreserves, TidyPreserves, EnvironmentPreserves DEF Next
  <2>2. CASE UNCHANGED vars
    <3>1. UNCHANGED <<clock, key, nextCounter, minCounter, maxIssued, redeemedTokens,
                      get, redeem, redemptions>>
      BY <2>2 DEF vars, service
    <3> QED BY <3>1 DEF IInv, TypeOK, OutstandingNeverWraps, CountersDrawn, CountersDistinct,
                        IssuedRecorded, RedeemedRemembered, RedeemersHoldIssued, StrictOnce,
                        Refused, AlreadyRedeemed, Issued
  <2> QED BY <2>1, <2>2
<1> QED BY <1>1, <1>2, PTL DEF Spec

(* The types of the service's variables, whatever the constants.           *)
THEOREM TypeCorrect == Spec => []TypeOK
<1>1. IInv => TypeOK
  BY DEF IInv
<1> QED BY <1>1, Invariance, PTL

(* The promise of IsStrict: no nonce is accepted twice, for any number of  *)
(* goroutines, any validity, any movement of the clock, and restarts.      *)
THEOREM NoNonceTwice == Spec => []StrictOnce
<1>1. IInv => StrictOnce
  BY DEF IInv
<1> QED BY <1>1, Invariance, PTL

(* issued - minCounter in Tidy never wraps around zero.                    *)
THEOREM OutstandingSound == Spec => []OutstandingNeverWraps
<1>1. IInv => OutstandingNeverWraps
  BY DEF IInv
<1> QED BY <1>1, Invariance, PTL

-----------------------------------------------------------------------------
(* The bounds hold, so every token is one of Mintable.                     *)
WithinBounds ==
  /\ clock.sec <= MaxSec /\ key \in 1..MaxKey /\ nextCounter <= MaxCounter
  /\ \A p \in Issuer : get[p].pc = "record" => get[p].expiry.sec <= MaxSec + ValiditySec + 1
  /\ Issued \subseteq Mintable

MintedBy(p) == [key |-> key, counter |-> get[p].counter, expiry |-> get[p].expiry]

(* A token made within the bounds is one of the abstract service's nonces. *)
LEMMA MintedIsMintable ==
  ASSUME IInv, WithinBounds, NEW p \in Issuer, get[p].pc = "record"
  PROVE  MintedBy(p) \in Mintable
<1>1. get[p] \in GetState /\ get[p].counter \in 1..nextCounter
  BY DEF IInv, TypeOK, CountersDrawn
<1>2. MintedBy(p).key \in 1..MaxKey /\ MintedBy(p).counter \in 1..MaxCounter
  BY <1>1, ConstantsAssumption DEF WithinBounds, IInv, TypeOK, MintedBy
<1>3. MintedBy(p).expiry \in [sec : 0..(MaxSec + ValiditySec + 1), nsec : 0..(TicksPerSecond - 1)]
  BY <1>1, ConstantsAssumption DEF WithinBounds, GetState, Instant, MintedBy
<1> QED BY <1>2, <1>3 DEF Mintable, MintedBy

(* The bounds on the clock, the counters and the keys, which only delimit  *)
(* the abstract service's set of nonces, hold for ever.                    *)
LEMMA BoundsInvariance == Spec => []WithinBounds
<1> USE ConstantsAssumption DEF WithinBounds
<1>1. Init => WithinBounds
  BY DEF Init, IdleGet, Issued
<1>2. IInv /\ WithinBounds /\ [Next]_vars => WithinBounds'
  <2> SUFFICES ASSUME IInv, WithinBounds, [Next]_vars PROVE WithinBounds'
    OBVIOUS
  <2>1. ASSUME NEW p \in Issuer, GetStep(p) PROVE WithinBounds'
    <3>1. CASE GetIncrement(p)
      BY <3>1 DEF GetIncrement, IInv, TypeOK, Issued
    <3>2. CASE GetStamp(p)
      <4>1. AddValidity(clock).sec <= MaxSec + ValiditySec + 1
        BY DEF AddValidity, IInv, TypeOK, Instant
      <4>2. \A q \in Issuer : q # p => get'[q] = get[q]
        BY <3>2 DEF GetStamp, IInv, TypeOK
      <4>3. get'[p].expiry = AddValidity(clock)
        BY <3>2 DEF GetStamp, IInv, TypeOK, GetState
      <4> QED BY <3>2, <4>1, <4>2, <4>3 DEF GetStamp, service, Issued
    <3>3. CASE GetFail(p)
      BY <3>3 DEF GetFail, service, IdleGet, IInv, TypeOK, Issued
    <3>4. CASE GetRecord(p)
      <4>1. Issued' = Issued \cup {MintedBy(p)}
        BY <3>4 DEF GetRecord, MintedBy, Issued
      <4>2. MintedBy(p) \in Mintable
        BY <3>4, MintedIsMintable DEF GetRecord
      <4>3. Issued' \subseteq Mintable
        BY <4>1, <4>2
      <4> QED BY <3>4, <4>3 DEF GetRecord, IdleGet, IInv, TypeOK
    <3> QED BY <2>1, <3>1, <3>2, <3>3, <3>4 DEF GetStep
  <2>2. ASSUME NEW p \in Redeemer, RedeemStep(p) PROVE WithinBounds'
    <3>1. UNCHANGED <<clock, key, nextCounter, get>>
      BY <2>2 DEF RedeemStep, RedeemStart, RedeemCheck, RedeemLocked, service
    <3>2. Issued' = Issued
      BY <2>2 DEF RedeemStep, RedeemStart, RedeemCheck, RedeemLocked, service, Issued, IInv, TypeOK
    <3> QED BY <3>1, <3>2
  <2>3. CASE Tidy
    BY <2>3 DEF Tidy, Issued
  <2>4. CASE Tick \/ StepBack
    BY <2>4 DEF Tick, StepBack, IInv, TypeOK, Instant, service, Issued
  <2>5. CASE Restart
    BY <2>5 DEF Restart, IdleGet, IInv, TypeOK, Issued
  <2>6. CASE UNCHANGED vars
    BY <2>6 DEF vars, service, Issued
  <2> QED BY <2>1, <2>2, <2>3, <2>4, <2>5, <2>6 DEF Next
<1> QED BY <1>1, <1>2, Invariance, PTL DEF Spec

(* Steps that leave the tokens and the state Redeem consults alone are     *)
(* invisible to clients.                                                   *)
LEMMA Invisible ==
  ASSUME UNCHANGED <<key, minCounter, redeemedTokens, redemptions>>
  PROVE  UNCHANGED Service!vars
BY DEF Service!vars, Redeemable, Refused, AlreadyRedeemed, Issued

(* A step after which no refused nonce of the key is redeemable is a lapse *)
(* if it accepts nothing.                                                  *)
LEMMA LapseStep ==
  ASSUME UNCHANGED <<key, redemptions>>, RefusalIsFinal
  PROVE  Service!Lapse
BY DEF Service!Lapse, RefusalIsFinal, Redeemable, Issued

(* Handing out a token is the abstract Get: its counter was drawn once.    *)
LEMMA RecordIsGet ==
  ASSUME IInv, WithinBounds, NEW p \in Issuer, GetRecord(p)
  PROVE  Service!Next
<1>1. PICK token \in Mintable : token = MintedBy(p)
  BY MintedIsMintable DEF GetRecord
<1>2. token \notin Issued
  BY <1>1 DEF GetRecord, MintedBy, IInv, CountersDistinct
<1>3. /\ redemptions' = [t \in Issued \cup {token} |-> IF t \in Issued THEN redemptions[t] ELSE 0]
      /\ UNCHANGED <<key, minCounter, redeemedTokens>>
  BY <1>1 DEF GetRecord, MintedBy
<1>4. Issued' = Issued \cup {token} /\ \A t : Redeemable(t)' <=> Redeemable(t)
  BY <1>3 DEF Issued, Redeemable, Refused, AlreadyRedeemed
<1>5. redemptions' = [t \in Issued \cup {token} |-> IF t = token THEN 0 ELSE redemptions[t]]
  BY <1>2, <1>3
<1>6. {t \in Issued' : Redeemable(t)'} \in
        {{t \in Issued : Redeemable(t)}, {t \in Issued : Redeemable(t)} \cup {token}}
  BY <1>4
<1>7. Service!Get(token)
  BY <1>2, <1>5, <1>6 DEF Service!Get, Service!Issued, Issued
<1> QED BY <1>7 DEF Service!Next

(* Accepting a token is the abstract Redeem.                               *)
LEMMA LockedIsRedeem ==
  ASSUME IInv, IInv', WithinBounds, NEW p \in Redeemer, RedeemLocked(p), RefusalIsFinal
  PROVE  Service!Next \/ UNCHANGED Service!vars
<1>1. PICK token \in Issued : token = redeem[p].token
  BY DEF RedeemLocked, IInv, RedeemersHoldIssued
<1>2. token.key = key /\ UNCHANGED key
  BY <1>1 DEF RedeemLocked, IInv, RedeemersHoldIssued
<1>3. CASE Refused(token)
  BY <1>1, <1>3, Invisible DEF RedeemLocked
<1>4. CASE ~ Refused(token)
  <2>1. redemptions' = [redemptions EXCEPT ![token] = @ + 1]
    BY <1>1, <1>4 DEF RedeemLocked
  <2>2. Issued' = Issued /\ redemptions'[token] > 0
    BY <1>1, <2>1 DEF Issued, IInv, TypeOK
  <2>3. Refused(token)'
    BY <1>1, <1>2, <2>2 DEF IInv, RedeemedRemembered
  <2>4. Redeemable(token) /\ ~ Redeemable(token)'
    BY <1>2, <1>4, <2>3 DEF Redeemable
  <2>5. \A t \in Issued : Redeemable(t)' => Redeemable(t)
    BY <1>2 DEF Redeemable, RefusalIsFinal
  <2>6. token \in {t \in Issued : Redeemable(t)}
    BY <1>1, <2>4
  <2>7. {t \in Issued' : Redeemable(t)'} \in SUBSET ({t \in Issued : Redeemable(t)} \ {token})
    BY <2>2, <2>4, <2>5
  <2>8. Service!Redeem(token)
    BY <2>1, <2>6, <2>7 DEF Service!Redeem
  <2> QED BY <1>1, <2>8 DEF Service!Next, WithinBounds
<1> QED BY <1>3, <1>4

(* The encrypted nonce service keeps the promise of NonceService: every    *)
(* step is a Get, a Redeem of a nonce never accepted before and never      *)
(* lapsed, a lapse, or nothing a client can see.                           *)
THEOREM Refinement == Spec => ImplementsService
<1>1. Init => Service!Init
  BY DEF Init, Service!Init, Issued
<1>2. IInv /\ IInv' /\ WithinBounds /\ [Next]_vars => [Service!Next]_(Service!vars)
  <2> SUFFICES ASSUME IInv, IInv', WithinBounds, [Next]_vars
               PROVE  Service!Next \/ UNCHANGED Service!vars
    OBVIOUS
  <2>1. ASSUME NEW p \in Issuer, GetStep(p) PROVE Service!Next \/ UNCHANGED Service!vars
    <3>1. CASE GetIncrement(p) \/ GetStamp(p) \/ GetFail(p)
      BY <3>1, Invisible DEF GetIncrement, GetStamp, GetFail, service
    <3> QED BY <2>1, <3>1, RecordIsGet DEF GetStep
  <2>2. ASSUME NEW p \in Redeemer, RedeemStep(p) PROVE Service!Next \/ UNCHANGED Service!vars
    <3>1. CASE RedeemLocked(p)
      BY <2>2, <3>1, RedeemPreserves, LockedIsRedeem
    <3>2. CASE ~ RedeemLocked(p)
      BY <2>2, <3>2, Invisible DEF RedeemStep, RedeemStart, RedeemCheck, service
    <3> QED BY <3>1, <3>2
  <2>3. CASE Tidy
    BY <2>3, TidyPreserves, LapseStep DEF Tidy, Service!Next
  <2>4. CASE Tick \/ StepBack \/ UNCHANGED vars
    BY <2>4, Invisible DEF Tick, StepBack, vars, service
  <2>5. CASE Restart
    <3>1. \A t \in Issued : t.key # key'
      BY <2>5 DEF Restart, IInv, CountersDrawn, TypeOK, Token
    <3>2. Issued' = Issued /\ UNCHANGED redemptions
      BY <2>5 DEF Restart, Issued
    <3>3. Service!Lapse
      BY <3>1, <3>2 DEF Service!Lapse, Redeemable
    <3> QED BY <3>3 DEF Service!Next
  <2> QED BY <2>1, <2>2, <2>3, <2>4, <2>5 DEF Next
<1> QED BY <1>1, <1>2, Invariance, BoundsInvariance, PTL DEF Spec, ImplementsService, Service!Spec

-----------------------------------------------------------------------------
(* HonoursUnexpired and DrainedByTidy hold while the environment is        *)
(* orderly: one goroutine issues and the clock is never set back.          *)
Orderly == ~ ClockStepsBack /\ \A p, q \in Issuer : p = q

(* The tokens this service has issued.                                     *)
Current == {t \in Issued : t.key = key}

(* A counter is given once, and who has the larger one expires no earlier. *)
InOrder ==
  \A t, u \in Current :
    /\ t.counter = u.counter => t = u
    /\ t.counter <= u.counter => Timestamp(t) <= Timestamp(u)

(* What is issued next comes after all that: in counter and, once it is    *)
(* stamped, in time.                                                       *)
NextInOrder ==
  /\ \A t \in Current : Timestamp(t) <= AddValidity(clock).sec
  /\ \A p \in Issuer : get[p].pc # "idle" =>
       /\ minCounter < get[p].counter
       /\ \A t \in Current : t.counter < get[p].counter
       /\ get[p].pc = "record" =>
            /\ get[p].expiry.sec <= AddValidity(clock).sec
            /\ \A t \in Current : Timestamp(t) <= get[p].expiry.sec

NowIsPast == \A p \in Redeemer : redeem[p].pc # "idle" => redeem[p].now.sec <= clock.sec

(* The maps hold counters of issued tokens, the second one those of        *)
(* redeemed tokens that minCounter has not reached.                        *)
MapsSound ==
  /\ \A ts \in DOMAIN maxIssued :
       \E t \in Current : Timestamp(t) = ts /\ t.counter = maxIssued[ts]
  /\ \A ts \in DOMAIN redeemedTokens : \A c \in redeemedTokens[ts] :
       /\ c > minCounter
       /\ \E t \in Current : Timestamp(t) = ts /\ t.counter = c /\ redemptions[t] > 0

(* minCounter passes only what was redeemed or has expired.                *)
NonePassedOver ==
  \A t \in Current : t.counter <= minCounter => redemptions[t] > 0 \/ Timestamp(t) < clock.sec

OrderInv == InOrder /\ NextInOrder /\ NowIsPast /\ MapsSound /\ NonePassedOver

LEMMA CurrentTokens ==
  ASSUME IInv
  PROVE  \A t \in Current : /\ t \in Issued /\ t.key = key /\ t.counter \in 1..nextCounter
                            /\ Timestamp(t) \in Nat /\ redemptions[t] \in Nat
BY DEF IInv, TypeOK, CountersDrawn, Current, Token, Instant, Timestamp

(* Who expires later was stamped later.                                    *)
LEMMA AddValidityMonotone ==
  ASSUME NEW t \in Instant, NEW u \in Instant, ~ Before(u, t)
  PROVE  AddValidity(t).sec <= AddValidity(u).sec /\ AddValidity(t).sec \in Nat
BY ConstantsAssumption DEF AddValidity, Instant, Before

(* The minimum that a tidy sets is the old one or a forgotten maximum.     *)
LEMMA TidiedMinChoice ==
  ASSUME IInv, NEW now \in Instant
  PROVE  \/ TidiedMin(now) = minCounter
         \/ \E ts \in DOMAIN maxIssued : ts < now.sec /\ TidiedMin(now) = maxIssued[ts]
<1> DEFINE S == {minCounter} \cup {maxIssued[ts] : ts \in Expired(DOMAIN maxIssued, now)}
<1>1. S \in SUBSET Nat /\ S # {} /\ nextCounter \in Nat
  BY DEF IInv, TypeOK, Expired
<1>2. \A x \in S : x <= nextCounter
  BY DEF IInv, TypeOK, Expired, OutstandingNeverWraps, CountersDrawn
<1>3. \A x \in S : x = minCounter \/ \E ts \in DOMAIN maxIssued : ts < now.sec /\ x = maxIssued[ts]
  BY DEF Expired
<1>4. TidiedMin(now) = Max(S)
  BY DEF TidiedMin
<1> HIDE DEF S
<1>5. Max(S) \in S
  BY <1>1, <1>2, MaxOfBounded
<1> QED BY <1>3, <1>4, <1>5

(* It passes only tokens of forgotten seconds, and nothing of what the map *)
(* of redeemed tokens keeps.                                               *)
LEMMA TidiedMinPasses ==
  ASSUME IInv, OrderInv, NEW now \in Instant
  PROVE  /\ \A t \in Current :
              t.counter <= TidiedMin(now) => t.counter <= minCounter \/ Timestamp(t) < now.sec
         /\ TidiedMin(now) = minCounter \/ \E t \in Current : t.counter = TidiedMin(now)
         /\ \A ts \in DOMAIN redeemedTokens : \A c \in redeemedTokens[ts] :
              ~ (ts < now.sec) => c > TidiedMin(now)
<1> USE CurrentTokens
<1>1. CASE TidiedMin(now) = minCounter
  BY <1>1 DEF OrderInv, MapsSound
<1>2. CASE TidiedMin(now) # minCounter
  <2>1. PICK u \in Current : Timestamp(u) < now.sec /\ TidiedMin(now) = u.counter
    BY <1>2, TidiedMinChoice DEF OrderInv, MapsSound
  <2>2. \A t \in Current : t.counter <= u.counter => Timestamp(t) <= Timestamp(u)
    BY DEF OrderInv, InOrder
  <2>3. now.sec \in Nat
    BY DEF Instant
  <2>4. ASSUME NEW ts \in DOMAIN redeemedTokens, NEW c \in redeemedTokens[ts], ~ (ts < now.sec)
        PROVE  c > TidiedMin(now)
    <3>1. PICK t \in Current : Timestamp(t) = ts /\ t.counter = c
      BY <2>4 DEF OrderInv, MapsSound
    <3> QED BY <2>1, <2>2, <2>3, <2>4, <3>1
  <2> QED BY <2>1, <2>2, <2>3, <2>4
<1> QED BY <1>1, <1>2

LEMMA InitOrder == Init => OrderInv
BY DEF Init, OrderInv, InOrder, NextInOrder, NowIsPast, MapsSound, NonePassedOver, Current,
       Issued, IdleGet, IdleRedeem

(* Get keeps the order: whoever issues is alone.                           *)
LEMMA GetKeepsOrder ==
  ASSUME Orderly, IInv, OrderInv, NEW p \in Issuer, GetStep(p)
  PROVE  OrderInv'
<1> USE DEF OrderInv
<1>0. /\ \A q \in Issuer : q = p
      /\ clock \in Instant /\ nextCounter \in Nat /\ minCounter \in Nat /\ minCounter <= nextCounter
      /\ get \in [Issuer -> GetState] /\ IdleGet.pc = "idle"
      /\ ~ Before(clock, clock)
  BY DEF Orderly, IInv, TypeOK, OutstandingNeverWraps, IdleGet, Before, Instant
<1>1. CASE GetIncrement(p) \/ GetStamp(p) \/ GetFail(p)
  <2>1. UNCHANGED <<clock, key, minCounter, maxIssued, redeemedTokens, redeem, redemptions>>
    BY <1>1 DEF GetIncrement, GetStamp, GetFail, service
  <2>2. Current' = Current
    BY <2>1 DEF Current, Issued
  <2>3. InOrder' /\ NowIsPast' /\ MapsSound' /\ NonePassedOver'
    BY <2>1, <2>2 DEF InOrder, NowIsPast, MapsSound, NonePassedOver
  <2>4. NextInOrder'
    <3>1. CASE GetIncrement(p)
      <4>1. get'[p].pc = "stamp" /\ get'[p].counter = nextCounter + 1
        BY <1>0, <3>1 DEF GetIncrement
      <4> QED BY <1>0, <2>1, <2>2, <4>1, CurrentTokens DEF NextInOrder
    <3>2. CASE GetStamp(p)
      <4>1. /\ get[p].pc = "stamp" /\ get'[p].counter = get[p].counter
            /\ get'[p].expiry = AddValidity(clock)
        BY <1>0, <3>2 DEF GetStamp, GetState
      <4>2. AddValidity(clock).sec \in Nat
        BY <1>0, AddValidityMonotone
      <4> QED BY <1>0, <2>1, <2>2, <4>1, <4>2 DEF NextInOrder
    <3>3. CASE GetFail(p)
      <4>1. get'[p].pc = "idle"
        BY <1>0, <3>3 DEF GetFail
      <4> QED BY <1>0, <2>1, <2>2, <4>1 DEF NextInOrder
    <3> QED BY <1>1, <3>1, <3>2, <3>3
  <2> QED BY <2>3, <2>4
<1>2. CASE GetRecord(p)
  <2> DEFINE token == MintedBy(p)
             ts == Timestamp(token)
  <2>1. /\ maxIssued' = RecordedCounter(token.counter, ts)
        /\ redemptions' = [t \in Issued \cup {token} |-> IF t \in Issued THEN redemptions[t] ELSE 0]
        /\ get' = [get EXCEPT ![p] = IdleGet] /\ get[p].pc = "record"
        /\ UNCHANGED <<clock, key, nextCounter, minCounter, redeemedTokens, redeem>>
    BY <1>2 DEF GetRecord, MintedBy
  <2>2. /\ token.key = key /\ token.counter = get[p].counter /\ ts = get[p].expiry.sec
        /\ token.counter \in Nat /\ ts \in Nat
    BY <1>0 DEF MintedBy, Timestamp, GetState, Instant
  <2> HIDE DEF token, ts
  <2>3. Current' = Current \cup {token} /\ \A t \in Current : redemptions'[t] = redemptions[t]
    BY <2>1, <2>2 DEF Current, Issued
  <2>4. /\ \A t \in Current : t.counter < token.counter /\ Timestamp(t) <= ts
        /\ minCounter < token.counter /\ ts <= AddValidity(clock).sec
    BY <2>1, <2>2 DEF NextInOrder
  <2>5. ts = Timestamp(token)
    BY DEF ts
  <2>6. InOrder' 
    BY <2>2, <2>3, <2>4, <2>5, CurrentTokens DEF InOrder, Timestamp
  <2>7. NextInOrder' /\ NowIsPast'
    BY <1>0, <2>1, <2>3, <2>4, <2>5 DEF NextInOrder, NowIsPast, Timestamp
  <2>8. NonePassedOver'
    <3>1. ~ (token.counter <= minCounter)
      BY <1>0, <2>2, <2>4
    <3> QED BY <2>1, <2>3, <3>1 DEF NonePassedOver, Timestamp
  <2>9. MapsSound'
    <3>1. /\ DOMAIN maxIssued' = DOMAIN maxIssued \cup {ts}
          /\ \A x \in DOMAIN maxIssued' :
               \/ x \in DOMAIN maxIssued /\ maxIssued'[x] = maxIssued[x]
               \/ x = ts /\ maxIssued'[x] = token.counter
      <4>1. \A x \in DOMAIN maxIssued' :
              maxIssued'[x] = IF x = ts /\ (ts \notin DOMAIN maxIssued \/ maxIssued[ts] < token.counter)
                              THEN token.counter ELSE maxIssued[x]
        BY <2>1 DEF RecordedCounter
      <4>2. DOMAIN maxIssued' = DOMAIN maxIssued \cup {ts}
        BY <2>1 DEF RecordedCounter
      <4> QED BY <4>1, <4>2
    <3>2. \A x \in DOMAIN maxIssued' :
            \E t \in Current' : t.expiry.sec = x /\ t.counter = maxIssued'[x]
      <4> TAKE x \in DOMAIN maxIssued'
      <4>1. CASE x \in DOMAIN maxIssued /\ maxIssued'[x] = maxIssued[x]
        BY <2>3, <4>1 DEF MapsSound, Timestamp
      <4>2. CASE x = ts /\ maxIssued'[x] = token.counter
        BY <2>3, <2>5, <4>2 DEF Timestamp
      <4> QED BY <3>1, <4>1, <4>2
    <3>3. \A x \in DOMAIN redeemedTokens' : \A c \in redeemedTokens'[x] :
            /\ c > minCounter'
            /\ \E t \in Current' : t.expiry.sec = x /\ t.counter = c /\ redemptions'[t] > 0
      <4> SUFFICES ASSUME NEW x \in DOMAIN redeemedTokens', NEW c \in redeemedTokens'[x]
                   PROVE  /\ c > minCounter'
                          /\ \E t \in Current' :
                               t.expiry.sec = x /\ t.counter = c /\ redemptions'[t] > 0
        OBVIOUS
      <4>1. x \in DOMAIN redeemedTokens /\ c \in redeemedTokens[x]
        BY <2>1
      <4>2. c > minCounter /\ minCounter' = minCounter
        BY <2>1, <4>1 DEF MapsSound
      <4>3. PICK t \in Current : Timestamp(t) = x /\ t.counter = c /\ redemptions[t] > 0
        BY <4>1 DEF MapsSound
      <4> QED BY <2>3, <4>2, <4>3 DEF Timestamp
    <3> QED BY <3>2, <3>3, Zenon DEF MapsSound, Timestamp
  <2> QED BY <2>6, <2>7, <2>8, <2>9
<1> QED BY <1>1, <1>2 DEF GetStep

(* Redeem and Tidy move minCounter to the counter of an issued token.      *)
LEMMA OrderKept ==
  ASSUME IInv, OrderInv, UNCHANGED <<clock, key, get>>, Issued' = Issued,
         minCounter' = minCounter \/ \E t \in Current : t.counter = minCounter'
  PROVE  Current' = Current /\ InOrder' /\ NextInOrder'
BY DEF OrderInv, Current, InOrder, NextInOrder, Timestamp

LEMMA RedeemKeepsOrder ==
  ASSUME Orderly, IInv, OrderInv, NEW p \in Redeemer, RedeemStep(p)
  PROVE  OrderInv'
<1>0. /\ redeem \in [Redeemer -> RedeemState] /\ clock \in Instant
      /\ IdleRedeem.pc = "idle" /\ nextCounter \in Nat /\ minCounter \in Nat
  BY DEF IInv, TypeOK, IdleRedeem
<1>1. CASE (\E token \in Issued : RedeemStart(p, token)) \/ RedeemCheck(p)
  <2>1. UNCHANGED <<clock, key, minCounter, maxIssued, redeemedTokens, get, redemptions>>
    BY <1>1 DEF RedeemStart, RedeemCheck, service
  <2>2. Current' = Current /\ InOrder' /\ NextInOrder'
    BY <2>1, OrderKept DEF Issued
  <2>3. NowIsPast'
    <3>1. \A q \in Redeemer : q # p => redeem'[q] = redeem[q]
      BY <1>0, <1>1 DEF RedeemStart, RedeemCheck
    <3>2. CASE \E token \in Issued : RedeemStart(p, token)
      <4>1. redeem'[p].now = clock /\ clock.sec \in Nat
        BY <1>0, <3>2 DEF RedeemStart, Instant
      <4> QED BY <2>1, <3>1, <4>1 DEF OrderInv, NowIsPast
    <3>3. CASE RedeemCheck(p)
      <4>1. redeem'[p].pc = "idle" \/ (redeem[p].pc = "check" /\ redeem'[p].now = redeem[p].now)
        BY <1>0, <3>3 DEF RedeemCheck, RedeemState
      <4> QED BY <2>1, <3>1, <4>1 DEF OrderInv, NowIsPast
    <3> QED BY <1>1, <3>2, <3>3
  <2>4. MapsSound' /\ NonePassedOver'
    BY <2>1, <2>2 DEF OrderInv, MapsSound, NonePassedOver, Timestamp
  <2> QED BY <2>2, <2>3, <2>4 DEF OrderInv
<1>2. CASE RedeemLocked(p)
  <2>1. redeem' = [redeem EXCEPT ![p] = IdleRedeem] /\ UNCHANGED <<clock, key, nextCounter, get>>
    BY <1>2 DEF RedeemLocked
  <2>2. NowIsPast'
    BY <1>0, <2>1 DEF OrderInv, NowIsPast
  <2>3. CASE Refused(redeem[p].token)
    <3>1. UNCHANGED <<minCounter, maxIssued, redeemedTokens, redemptions>>
      BY <1>2, <2>3 DEF RedeemLocked
    <3>2. Current' = Current /\ InOrder' /\ NextInOrder'
      BY <2>1, <3>1, OrderKept DEF Issued
    <3>3. MapsSound' /\ NonePassedOver'
      BY <2>1, <3>1, <3>2 DEF OrderInv, MapsSound, NonePassedOver, Timestamp
    <3> QED BY <2>2, <3>2, <3>3 DEF OrderInv
  <2>4. CASE ~ Refused(redeem[p].token)
    <3> DEFINE token == redeem[p].token
               now   == redeem[p].now
               ts    == Timestamp(token)
               min   == TidiedMin(now)
               kept  == WithoutExpired(Provisioned(ts), now)
    <3>1. /\ token \in Current /\ now \in Instant /\ now.sec <= clock.sec
          /\ ~ Before(DecodedExpiry(token), now)
      BY <1>0, <1>2 DEF RedeemLocked, IInv, RedeemersHoldIssued, Current, RedeemState,
                        OrderInv, NowIsPast
    <3>2. ~ (ts < now.sec)
      BY <3>1 DEF Before, DecodedExpiry
    <3>3. Spend(token, now) /\ redemptions' = [redemptions EXCEPT ![token] = @ + 1]
      BY <1>2, <2>4 DEF RedeemLocked
    <3>4. /\ \A t \in Current :
               t.counter <= min => t.counter <= minCounter \/ Timestamp(t) < now.sec
          /\ min = minCounter \/ \E t \in Current : t.counter = min
          /\ \A x \in DOMAIN redeemedTokens : \A c \in redeemedTokens[x] :
               ~ (x < now.sec) => c > min
      BY <3>1, TidiedMinPasses
    <3>5. min \in minCounter..nextCounter
      BY <3>1, TidiedMinBounds DEF IInv
    <3>6. /\ maxIssued' = WithoutExpired(maxIssued, now)
          /\ \/ minCounter' = token.counter /\ redeemedTokens' = kept /\ min + 1 = token.counter
             \/ /\ minCounter' = min /\ min + 1 # token.counter
                /\ redeemedTokens' = [kept EXCEPT ![ts] = @ \cup {token.counter}]
      BY <3>3 DEF Spend
    <3>7. /\ ts \in DOMAIN kept
          /\ \A x \in DOMAIN kept : ~ (x < now.sec)
          /\ \A x \in DOMAIN kept : \A c : c \in kept[x] => x \in DOMAIN redeemedTokens
                                                     /\ c \in redeemedTokens[x]
      BY <3>1, <3>2, CurrentTokens DEF WithoutExpired, Expired, Provisioned
    <3>8. /\ minCounter < token.counter /\ token.counter \in Nat
          /\ ~ (ts \in DOMAIN redeemedTokens /\ token.counter \in redeemedTokens[ts])
      BY <1>0, <2>4, <3>1, CurrentTokens DEF Refused, AlreadyRedeemed
    <3>9. ts = Timestamp(token) /\ ts \in Nat
      BY <3>1, CurrentTokens
    <3> HIDE DEF token, now, ts, min, kept
    <3>10. /\ Issued' = Issued /\ redemptions'[token] > 0
           /\ \A t \in Current : redemptions[t] > 0 => redemptions'[t] > 0
      <4>1. redemptions[token] \in Nat /\ token \in Issued
        BY <3>1, CurrentTokens
      <4> QED BY <3>3, <4>1 DEF Issued, IInv, TypeOK, Current
    <3>11. minCounter' = minCounter \/ \E t \in Current : t.counter = minCounter'
      BY <3>1, <3>4, <3>6
    <3>12. Current' = Current /\ InOrder' /\ NextInOrder'
      BY <2>1, <3>10, <3>11, OrderKept
    <3>13. NonePassedOver'
      <4> SUFFICES ASSUME NEW t \in Current, t.counter <= minCounter'
                   PROVE  redemptions'[t] > 0 \/ Timestamp(t) < clock.sec
        BY <2>1, <3>12 DEF NonePassedOver, Timestamp
      <4>1. t.counter \in Nat
        BY CurrentTokens
      <4>2. CASE t.counter <= min
        <5>0. now.sec \in Nat /\ clock.sec \in Nat /\ Timestamp(t) \in Nat
          BY <1>0, <3>1, CurrentTokens DEF Instant
        <5>1. redemptions[t] > 0 \/ Timestamp(t) < clock.sec
          BY <3>1, <3>4, <4>2, <5>0 DEF OrderInv, NonePassedOver
        <5> QED BY <3>10, <5>1
      <4>3. CASE ~ (t.counter <= min)
        <5>1. t.counter = token.counter
          BY <3>5, <3>6, <3>8, <4>1, <4>3
        <5> QED BY <3>1, <3>10, <5>1 DEF OrderInv, InOrder
      <4> QED BY <4>2, <4>3
    <3>14. \A x \in DOMAIN maxIssued' :
             \E t \in Current : Timestamp(t) = x /\ t.counter = maxIssued'[x]
      BY <3>6 DEF WithoutExpired, Expired, OrderInv, MapsSound
    <3>15. /\ DOMAIN redeemedTokens' = DOMAIN kept
           /\ \A x \in DOMAIN kept : \A c :
                c \in redeemedTokens'[x] =>
                  c \in kept[x] \/ (x = ts /\ c = token.counter /\ minCounter' = min)
      BY <3>6, <3>7
    <3>16. ASSUME NEW x \in DOMAIN redeemedTokens', NEW c \in redeemedTokens'[x]
           PROVE  /\ c > minCounter'
                  /\ \E t \in Current : Timestamp(t) = x /\ t.counter = c /\ redemptions'[t] > 0
      <4>1. CASE c \in kept[x]
        <5>1. PICK t \in Current : Timestamp(t) = x /\ t.counter = c /\ redemptions[t] > 0
          BY <3>7, <3>15, <4>1 DEF OrderInv, MapsSound
        <5>2. c > min /\ c \in Nat
          BY <3>4, <3>7, <3>15, <4>1, <5>1, CurrentTokens
        <5>3. c # token.counter
          <6>1. ASSUME c = token.counter PROVE FALSE
            <7>1. t = token
              BY <3>1, <5>1, <6>1 DEF OrderInv, InOrder
            <7> QED BY <3>7, <3>8, <3>9, <3>15, <4>1, <5>1, <6>1, <7>1
          <6> QED BY <6>1
        <5>4. c > minCounter'
          BY <3>5, <3>6, <3>8, <5>2, <5>3
        <5> QED BY <3>10, <5>1, <5>4
      <4>2. CASE x = ts /\ c = token.counter /\ minCounter' = min
        <5>1. c > min
          <6>1. ~ (token.counter <= minCounter) /\ ~ (Timestamp(token) < now.sec)
            BY <1>0, <3>2, <3>8, <3>9
          <6>2. ~ (token.counter <= min)
            BY <3>1, <3>4, <6>1
          <6> QED BY <1>0, <3>5, <3>8, <4>2, <6>2
        <5> QED BY <3>1, <3>9, <3>10, <4>2, <5>1
      <4> QED BY <3>15, <4>1, <4>2
    <3>17. MapsSound'
      BY <2>1, <3>12, <3>14, <3>16 DEF MapsSound, Timestamp
    <3> QED BY <2>2, <3>12, <3>13, <3>17 DEF OrderInv
  <2> QED BY <2>3, <2>4
<1> QED BY <1>1, <1>2 DEF RedeemStep

(* What the walk of a tidy reaches was redeemed.                           *)
LEMMA TidyKeepsOrder ==
  ASSUME Orderly, IInv, OrderInv, Tidy
  PROVE  OrderInv'
<1> DEFINE min     == TidiedMin(clock)
           kept    == WithoutExpired(redeemedTokens, clock)
           reached == MinAfterTidy
<1>1. /\ maxIssued' = WithoutExpired(maxIssued, clock)
      /\ minCounter' = reached
      /\ redeemedTokens' = SequentialRest(kept, min, reached)
      /\ UNCHANGED <<clock, key, nextCounter, get, redeem, redemptions>>
  BY DEF Tidy
<1>2. /\ clock \in Instant /\ clock.sec \in Nat /\ minCounter \in Nat /\ nextCounter \in Nat
      /\ min \in minCounter..nextCounter
  BY TidiedMinBounds DEF IInv, TypeOK, Instant
<1>3. /\ reached \in min..nextCounter /\ CanReach(kept, min, reached)
  BY <1>2, SequentialMinBounds DEF MinAfterTidy
<1>4. /\ \A t \in Current : t.counter <= min => t.counter <= minCounter \/ Timestamp(t) < clock.sec
      /\ min = minCounter \/ \E t \in Current : t.counter = min
      /\ \A x \in DOMAIN redeemedTokens : \A c \in redeemedTokens[x] :
           ~ (x < clock.sec) => c > min
  BY <1>2, TidiedMinPasses
<1>5. /\ \A x \in DOMAIN kept : ~ (x < clock.sec) /\ x \in DOMAIN redeemedTokens
                              /\ kept[x] = redeemedTokens[x]
  BY DEF WithoutExpired, Expired
<1> HIDE DEF min, kept, reached
<1>6. ASSUME NEW c \in (min + 1)..reached
      PROVE  \E t \in Current : t.counter = c /\ redemptions[t] > 0
  <2>1. PICK x \in DOMAIN kept : c \in kept[x]
    BY <1>3, <1>6 DEF CanReach
  <2> QED BY <1>5, <2>1 DEF OrderInv, MapsSound
<1>7. minCounter' = minCounter \/ \E t \in Current : t.counter = minCounter'
  <2>1. CASE reached = min
    BY <1>1, <1>4, <2>1
  <2>2. CASE reached # min
    <3>1. reached \in (min + 1)..reached
      BY <1>2, <1>3, <2>2
    <3> QED BY <1>1, <1>6, <3>1
  <2> QED BY <2>1, <2>2
<1>8. Current' = Current /\ InOrder' /\ NextInOrder'
  BY <1>1, <1>7, OrderKept DEF Issued
<1>9. NowIsPast'
  BY <1>1 DEF OrderInv, NowIsPast
<1>10. NonePassedOver'
  <2> SUFFICES ASSUME NEW t \in Current, t.counter <= reached
               PROVE  redemptions[t] > 0 \/ Timestamp(t) < clock.sec
    BY <1>1, <1>8 DEF NonePassedOver, Timestamp
  <2>1. t.counter \in Nat
    BY CurrentTokens
  <2>2. CASE t.counter <= min
    BY <1>4, <2>2 DEF OrderInv, NonePassedOver
  <2>3. CASE ~ (t.counter <= min)
    <3>1. t.counter \in (min + 1)..reached
      BY <1>2, <1>3, <2>1, <2>3
    <3>2. PICK u \in Current : u.counter = t.counter /\ redemptions[u] > 0
      BY <1>6, <3>1
    <3> QED BY <3>2 DEF OrderInv, InOrder
  <2> QED BY <2>2, <2>3
<1>11. \A x \in DOMAIN maxIssued' :
         \E t \in Current : Timestamp(t) = x /\ t.counter = maxIssued'[x]
  BY <1>1 DEF WithoutExpired, Expired, OrderInv, MapsSound
<1>12. ASSUME NEW x \in DOMAIN redeemedTokens', NEW c \in redeemedTokens'[x]
       PROVE  /\ c > minCounter'
              /\ \E t \in Current : Timestamp(t) = x /\ t.counter = c /\ redemptions[t] > 0
  <2>1. x \in DOMAIN kept /\ c \in kept[x] /\ c \notin (min + 1)..reached
    BY <1>1, <1>12 DEF SequentialRest
  <2>2. PICK t \in Current : Timestamp(t) = x /\ t.counter = c /\ redemptions[t] > 0
    BY <1>5, <2>1 DEF OrderInv, MapsSound
  <2>3. c > min /\ c \in Nat
    BY <1>4, <1>5, <2>1, <2>2, CurrentTokens
  <2>4. c > reached
    BY <1>2, <1>3, <2>1, <2>3
  <2> QED BY <1>1, <2>2, <2>4
<1>13. MapsSound'
  BY <1>1, <1>8, <1>11, <1>12 DEF MapsSound, Timestamp
<1> QED BY <1>8, <1>9, <1>10, <1>13 DEF OrderInv

(* Time goes on; a restart leaves no token of the current service.         *)
LEMMA EnvironmentKeepsOrder ==
  ASSUME Orderly, IInv, OrderInv, Tick \/ StepBack \/ Restart
  PROVE  OrderInv'
<1>1. CASE Tick \/ StepBack
  <2>1. UNCHANGED <<key, minCounter, maxIssued, redeemedTokens, get, redeem, redemptions>>
        /\ clock \in Instant /\ clock' \in Instant /\ clock.sec <= clock'.sec
        /\ ~ Before(clock', clock)
    BY <1>1, ConstantsAssumption
       DEF Orderly, Tick, StepBack, service, IInv, TypeOK, Instant, Before
  <2>2. /\ AddValidity(clock).sec <= AddValidity(clock').sec
        /\ AddValidity(clock).sec \in Nat /\ AddValidity(clock').sec \in Nat
    BY <2>1, AddValidityMonotone, AddValidityType DEF Instant
  <2>3. clock.sec \in Nat /\ clock'.sec \in Nat
    BY <2>1 DEF Instant
  <2>4. Current' = Current
    BY <2>1 DEF Current, Issued
  <2>5. InOrder' /\ MapsSound'
    BY <2>1, <2>4 DEF OrderInv, InOrder, MapsSound, Timestamp
  <2>6. NextInOrder'
    <3>1. /\ \A t \in Current : Timestamp(t) <= AddValidity(clock').sec
          /\ \A p \in Issuer : get[p].pc = "record" => get[p].expiry.sec <= AddValidity(clock').sec
      <4>1. \A p \in Issuer : get[p].expiry.sec \in Nat
        BY DEF IInv, TypeOK, GetState, Instant
      <4> QED BY <2>2, <4>1, CurrentTokens DEF OrderInv, NextInOrder
    <3> QED BY <2>1, <2>4, <3>1 DEF OrderInv, NextInOrder, Timestamp
  <2>7. NowIsPast'
    <3>1. \A p \in Redeemer : redeem[p].now.sec \in Nat
      BY DEF IInv, TypeOK, RedeemState, Instant
    <3> QED BY <2>1, <2>3, <3>1 DEF OrderInv, NowIsPast
  <2>8. NonePassedOver'
    <3>1. \A t \in Current : Timestamp(t) < clock.sec => Timestamp(t) < clock'.sec
      BY <2>1, <2>3, CurrentTokens
    <3> QED BY <2>1, <2>4, <3>1 DEF OrderInv, NonePassedOver, Timestamp
  <2> QED BY <2>5, <2>6, <2>7, <2>8 DEF OrderInv
<1>2. CASE Restart
  <2>1. /\ key' = key + 1 /\ maxIssued' = << >> /\ redeemedTokens' = << >>
        /\ get' = [p \in Issuer |-> IdleGet] /\ redeem' = [p \in Redeemer |-> IdleRedeem]
        /\ UNCHANGED redemptions /\ IdleGet.pc = "idle" /\ IdleRedeem.pc = "idle"
    BY <1>2 DEF Restart, IdleGet, IdleRedeem
  <2>2. Current' = {}
    BY <2>1 DEF Current, Issued, IInv, CountersDrawn, TypeOK, Token
  <2> QED BY <2>1, <2>2 DEF OrderInv, InOrder, NextInOrder, NowIsPast, MapsSound, NonePassedOver
<1> QED BY <1>1, <1>2

LEMMA OrderTheorem == ASSUME Orderly PROVE Spec => []OrderInv
<1>1. IInv /\ OrderInv /\ [Next]_vars => OrderInv'
  <2> SUFFICES ASSUME IInv, OrderInv, [Next]_vars PROVE OrderInv'
    OBVIOUS
  <2>1. CASE Next
    BY <2>1, GetKeepsOrder, RedeemKeepsOrder, TidyKeepsOrder, EnvironmentKeepsOrder DEF Next
  <2>2. CASE UNCHANGED vars
    <3>1. UNCHANGED <<clock, key, minCounter, maxIssued, redeemedTokens, get, redeem, redemptions>>
      BY <2>2 DEF vars, service
    <3>2. Current' = Current /\ InOrder' /\ NextInOrder'
      BY <3>1, OrderKept DEF Issued
    <3> QED BY <3>1, <3>2 DEF OrderInv, NowIsPast, MapsSound, NonePassedOver, Timestamp
  <2> QED BY <2>1, <2>2
<1> QED BY InitOrder, <1>1, Invariance, PTL DEF Spec

(* Forgetting by timestamp costs no client its nonce while one goroutine   *)
(* issues and the clock is never set back: what was handed out and not yet *)
(* used is redeemable until its encoded expiry.                            *)
THEOREM UnexpiredHonoured == ASSUME Orderly PROVE Spec => []HonoursUnexpired
<1>1. IInv /\ OrderInv => HonoursUnexpired
  <2> SUFFICES ASSUME IInv, OrderInv, NEW t \in Issued, t.key = key, redemptions[t] = 0,
                      ~ Before(DecodedExpiry(t), clock), Refused(t)
               PROVE  FALSE
    BY DEF HonoursUnexpired, Redeemable
  <2>1. t \in Current /\ ~ (redemptions[t] > 0)
    BY DEF Current
  <2>2. ~ (Timestamp(t) < clock.sec)
    BY DEF Before, DecodedExpiry
  <2>3. ~ (t.counter <= minCounter)
    BY <2>1, <2>2 DEF OrderInv, NonePassedOver
  <2>4. PICK u \in Current : u.counter = t.counter /\ redemptions[u] > 0
    BY <2>3 DEF Refused, AlreadyRedeemed, OrderInv, MapsSound
  <2> QED BY <2>1, <2>4 DEF OrderInv, InOrder
<1> QED BY <1>1, Invariance, OrderTheorem, PTL

(* A walk that finds every counter above min in its place takes min to the *)
(* last counter.                                                           *)
LEMMA WalkToTheEnd ==
  ASSUME nextCounter \in Nat, NEW map, NEW min \in 0..nextCounter, CanReach(map, min, nextCounter)
  PROVE  SequentialMin(map, min) = nextCounter
<1> DEFINE S == {m \in min..nextCounter : CanReach(map, min, m)}
<1>1. S \in SUBSET Nat /\ nextCounter \in S /\ \A x \in S : x <= nextCounter
  OBVIOUS
<1>2. SequentialMin(map, min) = Max(S)
  BY DEF SequentialMin
<1> HIDE DEF S
<1>3. Max(S) \in S /\ \A x \in S : x <= Max(S)
  BY <1>1, MaxOfBounded
<1>4. Max(S) \in Nat /\ Max(S) <= nextCounter /\ nextCounter <= Max(S)
  BY <1>1, <1>3
<1> QED BY <1>2, <1>4

(* And once every nonce was used, in whatever order, a Tidy leaves nothing *)
(* outstanding.                                                            *)
THEOREM Drained == ASSUME Orderly PROVE Spec => []DrainedByTidy
<1>1. IInv /\ OrderInv => DrainedByTidy
  <2> SUFFICES ASSUME IInv, OrderInv, EveryNonceUsed PROVE OutstandingAfterTidy = 0
    BY DEF DrainedByTidy
  <2> DEFINE min  == TidiedMin(clock)
             kept == WithoutExpired(redeemedTokens, clock)
  <2>1. /\ clock \in Instant /\ clock.sec \in Nat /\ nextCounter \in Nat /\ minCounter \in Nat
        /\ min \in minCounter..nextCounter
    BY TidiedMinBounds DEF IInv, TypeOK, Instant
  <2>2. \A x \in DOMAIN kept : x \in DOMAIN redeemedTokens /\ kept[x] = redeemedTokens[x]
                            /\ ~ (x < clock.sec)
    BY DEF WithoutExpired, Expired
  <2>3. /\ \A x \in DOMAIN redeemedTokens : \A c \in redeemedTokens[x] :
             ~ (x < clock.sec) => c > min
    BY <2>1, TidiedMinPasses
  <2>4. \A t \in Issued : t.key = key /\ Refused(t) =>
          \/ t.counter <= min
          \/ Timestamp(t) \in DOMAIN kept /\ t.counter \in kept[Timestamp(t)]
    BY <2>1, ForgettingIsSafe
  <2> HIDE DEF min, kept
  <2>5. ASSUME NEW c \in (min + 1)..nextCounter
        PROVE  \E ts \in DOMAIN kept :
                 /\ c \in kept[ts]
                 /\ \A earlier \in DOMAIN kept : earlier < ts =>
                      kept[earlier] \subseteq (min + 1)..(c - 1)
    <3>1. c \in 1..nextCounter /\ ~ (c <= min)
      BY <2>1
    <3>2. PICK t \in Issued : t.key = key /\ t.counter = c /\ redemptions[t] > 0
      BY <3>1 DEF EveryNonceUsed
    <3>3. Refused(t) /\ t \in Current
      BY <3>2 DEF IInv, RedeemedRemembered, Current
    <3>4. Timestamp(t) \in DOMAIN kept /\ c \in kept[Timestamp(t)]
      BY <2>4, <3>1, <3>2, <3>3
    <3>5. ASSUME NEW earlier \in DOMAIN kept, earlier < Timestamp(t), NEW d \in kept[earlier]
          PROVE  d \in (min + 1)..(c - 1)
      <4>1. PICK u \in Current : Timestamp(u) = earlier /\ u.counter = d
        BY <2>2, <3>5 DEF OrderInv, MapsSound
      <4>2. d > min /\ d \in Nat /\ earlier \in Nat /\ Timestamp(t) \in Nat
        BY <2>2, <2>3, <3>3, <3>5, <4>1, CurrentTokens
      <4>3. ~ (c <= d)
        BY <3>2, <3>3, <3>5, <4>1, <4>2 DEF OrderInv, InOrder
      <4> QED BY <2>1, <3>1, <4>2, <4>3
    <3> QED BY <3>4, <3>5
  <2>6. CanReach(kept, min, nextCounter)
    BY <2>5 DEF CanReach
  <2>7. SequentialMin(kept, min) = nextCounter
    BY <2>1, <2>6, WalkToTheEnd
  <2> QED BY <2>1, <2>7 DEF OutstandingAfterTidy, MinAfterTidy, min, kept
<1> QED BY <1>1, Invariance, OrderTheorem, PTL
=============================================================================

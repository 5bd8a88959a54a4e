--------------------------- MODULE EncryptedNonce ---------------------------
(***************************************************************************)
(* nonceutil/encrypted_nonce.go: the encrypted, counter-based nonce        *)
(* service.  Goroutines call Get and Redeem concurrently, a housekeeper    *)
(* calls Tidy, and the process may restart.  A critical section under      *)
(* issueLock is one action; every access to the atomics or to the clock    *)
(* outside of it is an action of its own.                                  *)
(*                                                                         *)
(* A token is the tuple AES-GCM seals, under the key it was sealed with;   *)
(* GCM is taken to be unforgeable, so a token that is not of the current   *)
(* key does not decrypt.                                                   *)
(***************************************************************************)
EXTENDS Integers, FiniteSets, FiniteSetsExt

CONSTANTS
  Issuer,            \* goroutines that call Get
  Redeemer,          \* goroutines that call Redeem
  TicksPerSecond,    \* resolution of time.Now below the second
  ValiditySec,       \* validity: its whole seconds ...
  ValidityNsec,      \* ... and the rest of it, in ticks
  ClockStepsBack,    \* whether the wall clock may be set back
  MaxSec,            \* bound: the clock stops at this second
  MaxCounter,        \* bound: Gets per service
  MaxKey             \* bound: services started

ASSUME ConstantsAssumption ==
  /\ TicksPerSecond \in Nat \ {0}
  /\ ValiditySec \in Nat
  /\ ValidityNsec \in 0..(TicksPerSecond - 1)
  /\ ClockStepsBack \in BOOLEAN
  /\ MaxSec \in Nat /\ MaxCounter \in Nat /\ MaxKey \in Nat \ {0}

VARIABLES
  clock,             \* the wall clock, what time.Now returns
  key,               \* crypt: the n-th service holds the n-th key
  nextCounter,       \* atomic
  minCounter,        \* atomic, written under issueLock
  maxIssued,         \* timestamp -> highest counter recorded for it
  redeemedTokens,    \* timestamp -> set of counters
  get,               \* Issuer -> where its Get is, with its locals
  redeem,            \* Redeemer -> where its Redeem is, with its locals
  redemptions        \* history: token returned by a Get -> times accepted

service == <<key, nextCounter, minCounter, maxIssued, redeemedTokens>>
vars == <<clock, service, get, redeem, redemptions>>

-----------------------------------------------------------------------------
(* Time.  A time.Time is whole seconds and a sub-second part; Unix() drops *)
(* the latter, and a token carries only Unix() of its expiry.              *)

Instant == [sec : Nat, nsec : 0..(TicksPerSecond - 1)]

Before(s, t) == s.sec < t.sec \/ (s.sec = t.sec /\ s.nsec < t.nsec)

AddValidity(t) ==
  LET n == t.nsec + ValidityNsec
  IN  IF n < TicksPerSecond
      THEN [sec |-> t.sec + ValiditySec, nsec |-> n]
      ELSE [sec |-> t.sec + ValiditySec + 1, nsec |-> n - TicksPerSecond]

(* A token as the client holds it, with the time Get returned beside it.   *)
Token == [key : Nat, counter : Nat, expiry : Instant]

Timestamp(token) == token.expiry.sec

DecodedExpiry(token) == [sec |-> Timestamp(token), nsec |-> 0]

Issued == DOMAIN redemptions

-----------------------------------------------------------------------------
GetState == [pc : {"idle", "stamp", "record"}, counter : Nat, expiry : Instant]

RedeemState == [pc : {"idle", "check", "lock"}, token : Token, now : Instant]

IdleGet == [pc |-> "idle", counter |-> 0, expiry |-> [sec |-> 0, nsec |-> 0]]

NoToken == [key |-> 0, counter |-> 0, expiry |-> [sec |-> 0, nsec |-> 0]]

IdleRedeem == [pc |-> "idle", token |-> NoToken, now |-> [sec |-> 0, nsec |-> 0]]

Init ==
  /\ clock = [sec |-> 0, nsec |-> 0]
  /\ key = 1 /\ nextCounter = 0 /\ minCounter = 0
  /\ maxIssued = << >> /\ redeemedTokens = << >>
  /\ get = [p \in Issuer |-> IdleGet]
  /\ redeem = [p \in Redeemer |-> IdleRedeem]
  /\ redemptions = << >>

-----------------------------------------------------------------------------
(* Get: Add(1), then the clock, then encryptNonce, then the locked         *)
(* recordCounterForTime.                                                   *)

GetIncrement(p) ==
  /\ get[p].pc = "idle"
  /\ nextCounter < MaxCounter
  /\ nextCounter' = nextCounter + 1
  /\ get' = [get EXCEPT ![p] = [pc |-> "stamp", counter |-> nextCounter + 1,
                                    expiry |-> IdleGet.expiry]]
  /\ UNCHANGED <<clock, key, minCounter, maxIssued, redeemedTokens, redeem, redemptions>>

GetStamp(p) ==
  /\ get[p].pc = "stamp"
  /\ get' = [get EXCEPT ![p].pc = "record", ![p].expiry = AddValidity(clock)]
  /\ UNCHANGED <<clock, service, redeem, redemptions>>

(* encryptNonce found no randomness: the counter is lost.                  *)
GetFail(p) ==
  /\ get[p].pc = "record"
  /\ get' = [get EXCEPT ![p] = IdleGet]
  /\ UNCHANGED <<clock, service, redeem, redemptions>>

RecordedCounter(counter, timestamp) ==
  [ts \in DOMAIN maxIssued \cup {timestamp} |->
     IF ts = timestamp /\ (ts \notin DOMAIN maxIssued \/ maxIssued[ts] < counter)
     THEN counter
     ELSE maxIssued[ts]]

(* recordCounterForTime, and the token goes to the caller.                 *)
GetRecord(p) ==
  /\ get[p].pc = "record"
  /\ LET token == [key |-> key, counter |-> get[p].counter, expiry |-> get[p].expiry]
     IN  /\ maxIssued' = RecordedCounter(token.counter, Timestamp(token))
         /\ redemptions' = [t \in Issued \cup {token} |->
                              IF t \in Issued THEN redemptions[t] ELSE 0]
  /\ get' = [get EXCEPT ![p] = IdleGet]
  /\ UNCHANGED <<clock, key, nextCounter, minCounter, redeemedTokens, redeem>>

-----------------------------------------------------------------------------
(* tidyMemoryHoldingLock, on both maps.                                    *)

(* A mutant: the second that is still running counts as over.              *)
ExpiredEarly(timestamps, now) == {ts \in timestamps : ts <= now.sec}

Expired(timestamps, now) == {ts \in timestamps : ts < now.sec}

WithoutExpired(map, now) ==
  [ts \in DOMAIN map \ Expired(DOMAIN map, now) |-> map[ts]]

TidiedMin(now) ==
  Max({minCounter} \cup {maxIssued[ts] : ts \in Expired(DOMAIN maxIssued, now)})

(* Redeem: the clock and the checks that need no lock, ...                 *)
RedeemStart(p, token) ==
  /\ redeem[p].pc = "idle"
  /\ token.key = key                            \* else decryptNonce fails
  /\ ~ Before(DecodedExpiry(token), clock)      \* else it has expired
  /\ redeem' = [redeem EXCEPT ![p] = [pc |-> "check", token |-> token, now |-> clock]]
  /\ UNCHANGED <<clock, service, get, redemptions>>

(* ... a first look at minCounter, ...                                     *)
RedeemCheck(p) ==
  /\ redeem[p].pc = "check"
  /\ redeem' = [redeem EXCEPT ![p] = IF redeem[p].token.counter <= minCounter
                                     THEN IdleRedeem
                                     ELSE [@ EXCEPT !.pc = "lock"]]
  /\ UNCHANGED <<clock, service, get, redemptions>>

(* ... and the critical section, which looks again.  It ends in a refusal  *)
(* or with the token spent: by raising minCounter if it is the next in     *)
(* line, by remembering its counter otherwise.                             *)
AlreadyRedeemed(token) ==
  /\ Timestamp(token) \in DOMAIN redeemedTokens
  /\ token.counter \in redeemedTokens[Timestamp(token)]

(* A mutant: minCounter is not looked at again under the lock.             *)
RefusedUnchecked(token) == AlreadyRedeemed(token)

Refused(token) == token.counter <= minCounter \/ AlreadyRedeemed(token)

Provisioned(timestamp) ==
  [ts \in DOMAIN redeemedTokens \cup {timestamp} |->
     IF ts \in DOMAIN redeemedTokens THEN redeemedTokens[ts] ELSE {}]

Spend(token, now) ==
  LET ts   == Timestamp(token)
      min  == TidiedMin(now)
      kept == WithoutExpired(Provisioned(ts), now)
  IN  /\ maxIssued' = WithoutExpired(maxIssued, now)
      /\ IF min + 1 = token.counter
         THEN minCounter' = token.counter /\ redeemedTokens' = kept
         ELSE minCounter' = min /\ redeemedTokens' = [kept EXCEPT ![ts] = @ \cup {token.counter}]

RedeemLocked(p) ==
  /\ redeem[p].pc = "lock"
  /\ LET token == redeem[p].token
     IN  IF Refused(token)
         THEN UNCHANGED <<minCounter, maxIssued, redeemedTokens, redemptions>>
         ELSE /\ Spend(token, redeem[p].now)
              /\ redemptions' = [redemptions EXCEPT ![token] = @ + 1]
  /\ redeem' = [redeem EXCEPT ![p] = IdleRedeem]
  /\ UNCHANGED <<clock, key, nextCounter, get>>

-----------------------------------------------------------------------------
(* tidySequentialNonces walks the timestamps upwards and takes min+1,      *)
(* min+2, ... out of each map until it is empty, giving up at the first    *)
(* counter that is missing.  CanReach(map, min, m) says that the walk gets *)
(* as far as m: each counter on the way is in a map whose elders the walk  *)
(* has emptied.                                                            *)

(* A mutant: the timestamps are walked downwards.                          *)
CanReachDownwards(map, min, m) ==
  \A c \in (min + 1)..m : \E ts \in DOMAIN map :
     /\ c \in map[ts]
     /\ \A later \in DOMAIN map : later > ts => map[later] \subseteq (min + 1)..(c - 1)

CanReach(map, min, m) ==
  \A c \in (min + 1)..m : \E ts \in DOMAIN map :
     /\ c \in map[ts]
     /\ \A earlier \in DOMAIN map : earlier < ts => map[earlier] \subseteq (min + 1)..(c - 1)

(* A mutant: minCounter ends up at the counter that was not found.         *)
SequentialMinOvershoot(map, min) ==
  Max({m \in min..(nextCounter + 1) : CanReach(map, min, m - 1)})

SequentialMin(map, min) == Max({m \in min..nextCounter : CanReach(map, min, m)})

(* Emptied maps are dropped only if the walk reaches its end.              *)
SequentialRest(map, min, reached) ==
  IF \A ts \in DOMAIN map : map[ts] \subseteq (min + 1)..reached
  THEN << >>
  ELSE [ts \in DOMAIN map |-> map[ts] \ ((min + 1)..reached)]

MinAfterTidy == SequentialMin(WithoutExpired(redeemedTokens, clock), TidiedMin(clock))

(* A mutant: only what was issued is tidied.                               *)
TidyIssuedOnly ==
  /\ maxIssued' = WithoutExpired(maxIssued, clock)
  /\ minCounter' = TidiedMin(clock)
  /\ UNCHANGED <<clock, key, nextCounter, redeemedTokens, get, redeem, redemptions>>

Tidy ==
  /\ maxIssued' = WithoutExpired(maxIssued, clock)
  /\ minCounter' = MinAfterTidy
  /\ redeemedTokens' =
       SequentialRest(WithoutExpired(redeemedTokens, clock), TidiedMin(clock), MinAfterTidy)
  /\ UNCHANGED <<clock, key, nextCounter, get, redeem, redemptions>>

(* The NonceStatus.Outstanding that a Tidy run now would return.           *)
OutstandingAfterTidy == nextCounter - MinAfterTidy

-----------------------------------------------------------------------------
Tick ==
  /\ clock.sec < MaxSec
  /\ clock' = IF clock.nsec + 1 < TicksPerSecond
              THEN [clock EXCEPT !.nsec = @ + 1]
              ELSE [sec |-> clock.sec + 1, nsec |-> 0]
  /\ UNCHANGED <<service, get, redeem, redemptions>>

(* The wall clock is set back (NTP, an administrator).                     *)
StepBack ==
  /\ ClockStepsBack
  /\ \E sec \in 0..(clock.sec - 1) : clock' = [sec |-> sec, nsec |-> 0]
  /\ UNCHANGED <<service, get, redeem, redemptions>>

(* A mutant: the successor starts from the old key.                        *)
RestartSameKey ==
  /\ key < MaxKey
  /\ nextCounter' = 0 /\ minCounter' = 0
  /\ maxIssued' = << >> /\ redeemedTokens' = << >>
  /\ get' = [p \in Issuer |-> IdleGet]
  /\ redeem' = [p \in Redeemer |-> IdleRedeem]
  /\ UNCHANGED <<clock, key, redemptions>>

(* The process dies; its successor makes a new service and Initialize      *)
(* gives it a fresh key.  Clients keep their old tokens.                   *)
Restart ==
  /\ key < MaxKey
  /\ key' = key + 1 /\ nextCounter' = 0 /\ minCounter' = 0
  /\ maxIssued' = << >> /\ redeemedTokens' = << >>
  /\ get' = [p \in Issuer |-> IdleGet]
  /\ redeem' = [p \in Redeemer |-> IdleRedeem]
  /\ UNCHANGED <<clock, redemptions>>

GetStep(p) == GetIncrement(p) \/ GetStamp(p) \/ GetFail(p) \/ GetRecord(p)

RedeemStep(p) ==
  (\E token \in Issued : RedeemStart(p, token)) \/ RedeemCheck(p) \/ RedeemLocked(p)

Next ==
  \/ \E p \in Issuer : GetStep(p)
  \/ \E p \in Redeemer : RedeemStep(p)
  \/ Tidy \/ Tick \/ StepBack \/ Restart

Spec == Init /\ [][Next]_vars

(* The housekeeper calls Tidy again and again, and time goes on.           *)
FairSpec == Spec /\ WF_vars(Tidy) /\ WF_vars(Tick)

-----------------------------------------------------------------------------
(* Every variable has its type; tokens and locals carry what GetRecord     *)
(* and RedeemStart put there.                                              *)
TypeOK ==
  /\ clock \in Instant
  /\ key \in Nat /\ nextCounter \in Nat /\ minCounter \in Nat
  /\ DOMAIN maxIssued \subseteq Nat
  /\ maxIssued = [ts \in DOMAIN maxIssued |-> maxIssued[ts]]
  /\ \A ts \in DOMAIN maxIssued : maxIssued[ts] \in Nat
  /\ DOMAIN redeemedTokens \subseteq Nat
  /\ redeemedTokens = [ts \in DOMAIN redeemedTokens |-> redeemedTokens[ts]]
  /\ \A ts \in DOMAIN redeemedTokens : redeemedTokens[ts] \in SUBSET Nat
  /\ get \in [Issuer -> GetState]
  /\ redeem \in [Redeemer -> RedeemState]
  /\ Issued \subseteq Token
  /\ redemptions = [t \in Issued |-> redemptions[t]]
  /\ \A t \in Issued : redemptions[t] \in Nat

(* IsStrict (line 142): whatever Redeems race each other and Tidy, however *)
(* the clock moves and whenever the service restarts, no nonce is accepted *)
(* twice.                                                                  *)
StrictOnce == \A t \in Issued : redemptions[t] <= 1

(* Tidy computes issued - minCounter in uint64 (line 443): the difference  *)
(* never wraps, although the counter that raises minCounter and the one it *)
(* is subtracted from are updated by different goroutines.                 *)
OutstandingNeverWraps == minCounter <= nextCounter

(* What Redeem would say of a token that has not expired.                  *)
Redeemable(t) == t.key = key /\ ~ Refused(t)

(* While one goroutine issues and the clock is never set back, forgetting  *)
(* by timestamp (lines 350-357) costs no client its nonce: a nonce handed  *)
(* out and not yet used is redeemable until its encoded expiry.            *)
HonoursUnexpired ==
  \A t \in Issued :
    t.key = key /\ redemptions[t] = 0 /\ ~ Before(DecodedExpiry(t), clock) => Redeemable(t)

(* nonce_test.go line 52: once every nonce of the service was used (or no  *)
(* nonce was lost on the way), whatever the order, a Tidy leaves nothing   *)
(* outstanding.                                                            *)
EveryNonceUsed ==
  \A c \in 1..nextCounter : \E t \in Issued : t.key = key /\ t.counter = c /\ redemptions[t] > 0

DrainedByTidy == EveryNonceUsed => OutstandingAfterTidy = 0

(* Comment at lines 84-88: what was remembered for a second is freed when  *)
(* the second is over, even if nobody redeems any more.                    *)
Reclaimed ==
  \A ts \in 0..(MaxSec - 1) :
    (ts \in DOMAIN maxIssued \cup DOMAIN redeemedTokens)
      ~> (ts \notin DOMAIN maxIssued \cup DOMAIN redeemedTokens)

(* Every nonce the service ever issued is accepted at most once, and one   *)
(* it refuses for good stays refused (no time stamp it forgets makes an    *)
(* old nonce good again).                                                  *)
Mintable ==
  [key : 1..MaxKey, counter : 1..MaxCounter,
   expiry : [sec : 0..(MaxSec + ValiditySec + 1), nsec : 0..(TicksPerSecond - 1)]]

Service == INSTANCE NonceService
             WITH Nonce <- Mintable, live <- {t \in Issued : Redeemable(t)}
ImplementsService == Service!Spec

-----------------------------------------------------------------------------
(* The inductive invariant behind StrictOnce.  Counters in flight and      *)
(* issued are distinct and were drawn; a timestamp forgotten by either map *)
(* has pushed minCounter past every counter issued for it.                 *)

CountersDrawn ==
  /\ \A p \in Issuer : get[p].pc # "idle" => get[p].counter \in 1..nextCounter
  /\ \A t \in Issued : t.key <= key /\ (t.key = key => t.counter \in 1..nextCounter)
  /\ \A ts \in DOMAIN maxIssued : maxIssued[ts] <= nextCounter
  /\ \A ts \in DOMAIN redeemedTokens : redeemedTokens[ts] \subseteq 1..nextCounter

CountersDistinct ==
  /\ \A p, q \in Issuer :
       p # q /\ get[p].pc # "idle" /\ get[q].pc # "idle" => get[p].counter # get[q].counter
  /\ \A p \in Issuer, t \in Issued :
       get[p].pc # "idle" /\ t.key = key => t.counter # get[p].counter

IssuedRecorded ==
  \A t \in Issued : t.key = key =>
    \/ t.counter <= minCounter
    \/ /\ Timestamp(t) \in DOMAIN maxIssued
       /\ t.counter <= maxIssued[Timestamp(t)]

RedeemedRemembered ==
  \A t \in Issued : t.key = key /\ redemptions[t] > 0 => Refused(t)

RedeemersHoldIssued ==
  \A p \in Redeemer : redeem[p].pc # "idle" =>
    /\ redeem[p].token \in Issued
    /\ redeem[p].token.key = key
    /\ ~ Before(DecodedExpiry(redeem[p].token), redeem[p].now)

(* What no step breaks: the typing, the bookkeeping above, and the three   *)
(* properties it implies.                                                  *)
IInv ==
  /\ TypeOK /\ OutstandingNeverWraps /\ CountersDrawn /\ CountersDistinct
  /\ IssuedRecorded /\ RedeemedRemembered /\ RedeemersHoldIssued /\ StrictOnce
=============================================================================

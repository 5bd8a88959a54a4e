----------------------------- MODULE CallsProofs -----------------------------
(***************************************************************************)
(* Proofs about the calls that wait for somebody: the permit pool, for any *)
(* finite set of workers and any argument of New; RotateKeys, for any      *)
(* timeout, delay, limits and bounds; the password prompt, for any number  *)
(* of calls and anything typed; the string generator and base62, for any   *)
(* rules, bytes and callers; and the sum of them that MCCalls checks.      *)
(***************************************************************************)
EXTENDS MCCalls, ListLemmas, FiniteSetTheorems

-----------------------------------------------------------------------------
(* PermitPool.                                                             *)

(* The number of permits is positive whatever New is given.                *)
LEMMA PermitsPositive == Permits \in Nat \ {0}
BY ConstantsAssumption DEF Permits, DefaultParallelOperations

(* Taking one blocked sender out of the channel's queue leaves the others  *)
(* in it, once each.                                                       *)
LEMMA RemoveAtOthers ==
  ASSUME NEW s \in Seq(Worker), NEW i \in DOMAIN s,
         \A j, k \in 1..Len(s) : s[j] = s[k] => j = k
  PROVE  /\ RemoveAt(s, i) \in Seq(Worker)
         /\ \A j \in 1..Len(RemoveAt(s, i)) :
              \E k \in 1..Len(s) : k # i /\ RemoveAt(s, i)[j] = s[k]
         /\ \A j, k \in 1..Len(RemoveAt(s, i)) : RemoveAt(s, i)[j] = RemoveAt(s, i)[k] => j = k
<1> DEFINE r == RemoveAt(s, i)
<1>1. i \in 1..Len(s) /\ Len(s) \in Nat
  OBVIOUS
<1>2. /\ r \in Seq(Worker) /\ Len(r) = Len(s) - 1
      /\ \A j \in 1..Len(r) : r[j] = IF j < i THEN s[j] ELSE s[j + 1]
  <2> DEFINE a == SubSeq(s, 1, i - 1)
             b == SubSeq(s, i + 1, Len(s))
  <2>1. a \in Seq(Worker) /\ Len(a) = i - 1 /\ \A j \in 1..(i - 1) : a[j] = s[j]
    BY <1>1
  <2>2. b \in Seq(Worker) /\ Len(b) = Len(s) - i /\ \A j \in 1..(Len(s) - i) : b[j] = s[i + j]
    BY <1>1
  <2>3. r = a \o b
    BY DEF RemoveAt
  <2> HIDE DEF a, b, r
  <2>4. r \in Seq(Worker) /\ Len(r) = Len(s) - 1
    BY <1>1, <2>1, <2>2, <2>3
  <2>5. ASSUME NEW j \in 1..Len(r) PROVE r[j] = IF j < i THEN s[j] ELSE s[j + 1]
    <3>1. CASE j < i
      BY <1>1, <2>1, <2>2, <2>3, <2>4, <3>1
    <3>2. CASE ~ (j < i)
      <4>1. r[j] = b[j - (i - 1)] /\ j - (i - 1) \in 1..(Len(s) - i)
        BY SMTT(30), <1>1, <2>1, <2>2, <2>3, <2>4, <3>2
      <4> QED BY SMTT(30), <1>1, <2>2, <3>2, <4>1
    <3> QED BY <3>1, <3>2
  <2> QED BY <2>4, <2>5
<1> HIDE DEF r
<1>3. \A j \in 1..Len(r) : \E k \in 1..Len(s) : k # i /\ r[j] = s[k]
  BY SMTT(30), <1>1, <1>2
<1>4. \A j, k \in 1..Len(r) : r[j] = r[k] => j = k
  BY <1>1, <1>2
<1> QED BY <1>2, <1>3, <1>4 DEF r

-----------------------------------------------------------------------------
(* What no step breaks.  LimitRespected follows: a permit is only taken    *)
(* from those left, or handed over.                                        *)
IInv == TypeOK /\ CurrentPermitsExact /\ NoneWaitsInVain /\ sem <= Permits

(* Running workers are finitely many, and counted one by one.              *)
LEMMA RunningFinite == IsFiniteSet(Running)
BY ConstantsAssumption, FS_Subset DEF Running

(* Whatever a worker does keeps the count, the queue and the states in     *)
(* step: a hand-over moves one permit, a cancellation none.                *)
LEMMA StepPreserves ==
  ASSUME IInv, NEW w \in Worker,
         \/ AcquireAtOnce(w) \/ AcquireBlocks(w) \/ AcquireFails(w)
         \/ CancelWaiting(w) \/ Cancel(w) \/ Release(w)
  PROVE  IInv'
<1> USE PermitsPositive DEF IInv
<1>1. CASE AcquireAtOnce(w)
  <2>1. Running' = Running \cup {w} /\ w \notin Running
    BY <1>1 DEF AcquireAtOnce, Running, TypeOK
  <2>2. Cardinality(Running') = Cardinality(Running) + 1
    BY <2>1, RunningFinite, FS_AddElement
  <2>3. TypeOK'
    BY <1>1 DEF AcquireAtOnce, TypeOK
  <2> QED BY <1>1, <2>2, <2>3 DEF AcquireAtOnce, CurrentPermitsExact, NoneWaitsInVain, TypeOK
<1>2. CASE AcquireBlocks(w)
  <2>1. Running' = Running
    BY <1>2 DEF AcquireBlocks, Running, TypeOK
  <2>2. /\ senders' \in Seq(Worker) /\ Len(senders') = Len(senders) + 1 /\ Len(senders) \in Nat
        /\ senders'[Len(senders) + 1] = w
        /\ \A i \in 1..Len(senders) : senders'[i] = senders[i]
    BY <1>2 DEF AcquireBlocks, TypeOK
  <2>3. state' \in [Worker -> {"idle", "waiting", "running"}] /\ state'[w] = "waiting"
        /\ \A v \in Worker : state[v] = "waiting" => state'[v] = "waiting"
    BY <1>2 DEF AcquireBlocks, TypeOK
  <2>4. \A i \in 1..Len(senders) : senders[i] \in Worker /\ senders[i] # w
    BY <1>2 DEF AcquireBlocks, TypeOK
  <2>5. \A i \in 1..Len(senders') : state'[senders'[i]] = "waiting"
    BY <2>2, <2>3, <2>4 DEF TypeOK
  <2>6. \A i, j \in 1..Len(senders') : senders'[i] = senders'[j] => i = j
    BY <2>2, <2>4 DEF TypeOK
  <2>7. TypeOK'
    BY <1>2, <2>2, <2>3, <2>5, <2>6 DEF AcquireBlocks, TypeOK
  <2> QED BY <1>2, <2>1, <2>7 DEF AcquireBlocks, CurrentPermitsExact, NoneWaitsInVain
<1>3. CASE AcquireFails(w) \/ Cancel(w)
  <2>1. UNCHANGED <<sem, senders, state>> /\ cancelled' \in SUBSET Worker
    BY <1>3 DEF AcquireFails, Cancel, TypeOK
  <2> QED BY <2>1 DEF TypeOK, CurrentPermitsExact, NoneWaitsInVain, Running
<1>4. CASE CancelWaiting(w)
  <2>1. PICK i \in DOMAIN senders : senders[i] = w /\ senders' = RemoveAt(senders, i)
    BY <1>4 DEF CancelWaiting
  <2>2. i \in 1..Len(senders) /\ state[w] = "waiting"
    BY <2>1 DEF TypeOK
  <2>3. /\ senders' \in Seq(Worker)
        /\ \A j \in 1..Len(senders') : \E k \in 1..Len(senders) : k # i /\ senders'[j] = senders[k]
        /\ \A j, k \in 1..Len(senders') : senders'[j] = senders'[k] => j = k
    <3>1. senders \in Seq(Worker) /\ \A j, k \in 1..Len(senders) : senders[j] = senders[k] => j = k
      BY DEF TypeOK
    <3>2. /\ RemoveAt(senders, i) \in Seq(Worker)
          /\ \A j \in 1..Len(RemoveAt(senders, i)) :
               \E k \in 1..Len(senders) : k # i /\ RemoveAt(senders, i)[j] = senders[k]
          /\ \A j, k \in 1..Len(RemoveAt(senders, i)) :
               RemoveAt(senders, i)[j] = RemoveAt(senders, i)[k] => j = k
      BY <3>1, RemoveAtOthers, Zenon
    <3> QED BY <2>1, <3>2, Zenon
  <2>4. Running' = Running
    BY <1>4, <2>2 DEF CancelWaiting, Running, TypeOK
  <2>5. \A j \in 1..Len(senders') : state'[senders'[j]] = "waiting"
    <3> TAKE j \in 1..Len(senders')
    <3>1. PICK k \in 1..Len(senders) : k # i /\ senders'[j] = senders[k]
      BY <2>3
    <3>2. senders[k] # w /\ senders[k] \in Worker /\ state[senders[k]] = "waiting"
      BY <2>1, <2>2, <3>1 DEF TypeOK
    <3> QED BY <1>4, <3>1, <3>2 DEF CancelWaiting, TypeOK
  <2>6. TypeOK'
    BY <1>4, <2>3, <2>5 DEF CancelWaiting, TypeOK
  <2> QED BY <1>4, <2>1, <2>4, <2>6 DEF CancelWaiting, CurrentPermitsExact, NoneWaitsInVain
<1>5. CASE Release(w)
  <2>1. CASE senders = << >>
    <3>1. Running' = Running \ {w} /\ w \in Running
      BY <1>5, <2>1 DEF Release, Running, TypeOK
    <3>2. Cardinality(Running') = Cardinality(Running) - 1
      BY <3>1, RunningFinite, FS_RemoveElement
    <3>3. TypeOK'
      BY <1>5, <2>1 DEF Release, TypeOK
    <3> QED BY <1>5, <2>1, <3>2, <3>3 DEF Release, CurrentPermitsExact, NoneWaitsInVain, TypeOK
  <2>2. CASE senders # << >>
    <3> DEFINE h == Head(senders)
    <3>1. /\ h \in Worker /\ h = senders[1] /\ state[h] = "waiting" /\ h # w
          /\ senders' = Tail(senders) /\ sem' = sem /\ 1 \in 1..Len(senders)
          /\ state' = [state EXCEPT ![w] = "idle", ![h] = "running"]
      BY <1>5, <2>2 DEF Release, TypeOK
    <3>2. /\ senders' \in Seq(Worker) /\ Len(senders') = Len(senders) - 1 /\ Len(senders) \in Nat
          /\ \A j \in 1..Len(senders') : senders'[j] = senders[j + 1] /\ j + 1 \in 1..Len(senders)
      BY <2>2, <3>1 DEF TypeOK
    <3> HIDE DEF h
    <3>3. Running' = (Running \ {w}) \cup {h} /\ w \in Running /\ h \notin Running \ {w}
      BY <1>5, <3>1 DEF Release, Running, TypeOK
    <3>4. IsFiniteSet(Running \ {w}) /\ Cardinality(Running \ {w}) = Cardinality(Running) - 1
      BY <3>3, RunningFinite, FS_RemoveElement
    <3>5. Cardinality(Running') = Cardinality(Running)
      <4>1. Cardinality(Running') = Cardinality(Running \ {w}) + 1
        BY <3>3, <3>4, FS_AddElement
      <4>2. Cardinality(Running) \in Nat
        BY RunningFinite, FS_CardinalityType
      <4> QED BY <3>4, <4>1, <4>2
    <3>6. \A j \in 1..Len(senders') : state'[senders'[j]] = "waiting"
      <4> TAKE j \in 1..Len(senders')
      <4>1. /\ senders'[j] = senders[j + 1] /\ j + 1 \in 1..Len(senders) /\ j + 1 # 1
            /\ senders[j + 1] \in Worker
        BY <3>2 DEF TypeOK
      <4>2. senders[j + 1] # h /\ senders[j + 1] # w /\ state[senders[j + 1]] = "waiting"
        BY <1>5, <3>1, <4>1 DEF Release, TypeOK
      <4> QED BY <3>1, <4>1, <4>2 DEF TypeOK
    <3>7. \A j, k \in 1..Len(senders') : senders'[j] = senders'[k] => j = k
      <4> TAKE j, k \in 1..Len(senders')
      <4> HAVE senders'[j] = senders'[k]
      <4>1. j + 1 = k + 1
        BY <3>2 DEF TypeOK
      <4> QED BY <4>1
    <3>8. TypeOK'
      BY <1>5, <3>1, <3>2, <3>6, <3>7 DEF Release, TypeOK
    <3> QED BY <2>2, <3>1, <3>5, <3>8 DEF CurrentPermitsExact, NoneWaitsInVain
  <2> QED BY <2>1, <2>2
<1> QED BY <1>1, <1>2, <1>3, <1>4, <1>5

(* Every step of the pool preserves IInv, so it holds for ever.            *)
THEOREM Invariance == Spec => []IInv
<1>1. Init => IInv
  <2> SUFFICES ASSUME Init PROVE IInv
    OBVIOUS
  <2>1. Running = {}
    BY DEF Init, Running
  <2> QED BY <2>1, FS_EmptySet, PermitsPositive
          DEF Init, IInv, TypeOK, CurrentPermitsExact, NoneWaitsInVain
<1>2. IInv /\ [Next]_vars => IInv'
  <2>1. IInv /\ Next => IInv'
    BY StepPreserves DEF Next
  <2>2. IInv /\ UNCHANGED vars => IInv'
    BY DEF vars, IInv, TypeOK, CurrentPermitsExact, NoneWaitsInVain, Running
  <2> QED BY <2>1, <2>2
<1> QED BY <1>1, <1>2, PTL DEF Spec

(* The types of the pool's variables; the queue has no duplicates.         *)
THEOREM TypeCorrect == Spec => []TypeOK
<1>1. IInv => TypeOK
  BY DEF IInv
<1> QED BY <1>1, Invariance, PTL

(* Never more running operations than permits.                             *)
THEOREM LimitTheorem == Spec => []LimitRespected
<1>1. IInv => LimitRespected
  BY DEF IInv, CurrentPermitsExact, LimitRespected
<1> QED BY <1>1, Invariance, PTL

(* CurrentPermits is the number of running operations at every moment.     *)
THEOREM CountTheorem == Spec => []CurrentPermitsExact
<1>1. IInv => CurrentPermitsExact
  BY DEF IInv
<1> QED BY <1>1, Invariance, PTL

(* A worker only waits while every permit is in use.                       *)
THEOREM NoIdlePermit == Spec => []NoneWaitsInVain
<1>1. IInv => NoneWaitsInVain
  BY DEF IInv
<1> QED BY <1>1, Invariance, PTL

-----------------------------------------------------------------------------
(* RotateKeys.                                                             *)

Places == {"idle", "create", "attempt", "pause", "delete"}

Rotations ==
  [pc : Places, new : Nat, elapsed : Nat, paused : Nat, calling : Nat]

(* Keys are numbered as they are made; the one in hand is at AWS, and is   *)
(* not the configured one.                                                 *)
KeysInv ==
  /\ made \in Nat /\ failed \in Nat /\ rotation \in Rotations
  /\ iam \subseteq 1..made /\ accepted \subseteq iam /\ config \in 1..made
  /\ rotation.pc \in {"idle", "create"} => rotation.new = Keys!NoKey
  /\ rotation.pc \in {"attempt", "pause", "delete"} => rotation.new \in iam \ {config}
  /\ answer \in {"none", "nil", "error"} /\ before \in 1..made /\ asked \subseteq 1..made

LEMMA InitKeys == Keys!Init => KeysInv
BY DEF Keys!Init, KeysInv, Keys!Idle, Rotations, Places, Keys!NoKey

(* What Create does to the locals, if it is answered.                      *)
LEMMA CreateHolds ==
  ASSUME KeysInv, rotation' = [rotation EXCEPT !.pc = Keys!AfterCreate, !.new = made + 1]
  PROVE  /\ rotation' \in Rotations /\ rotation'.pc = Keys!AfterCreate /\ rotation'.new = made + 1
         /\ rotation'.elapsed = rotation.elapsed /\ rotation'.paused = rotation.paused
         /\ rotation'.calling = rotation.calling
<1> DEFINE checked == [rotation EXCEPT !.pc = Keys!AfterCreate]
<1>1. Keys!AfterCreate \in Places
  BY DEF Keys!AfterCreate, Places
<1>2. /\ checked \in Rotations /\ checked.pc = Keys!AfterCreate
      /\ checked.elapsed = rotation.elapsed /\ checked.paused = rotation.paused
      /\ checked.calling = rotation.calling
  BY <1>1 DEF KeysInv, Rotations
<1>3. rotation' = [checked EXCEPT !.new = made + 1] /\ made + 1 \in Nat
  BY DEF KeysInv
<1> HIDE DEF checked
<1> QED BY <1>2, <1>3 DEF Rotations

(* Until the rotation is over its locals change, the keys do not.          *)
LEMMA LocalsPreserveKeys ==
  ASSUME KeysInv,
         Keys!GetUser \/ Keys!GetUserError \/ Keys!Verified \/ Keys!NotVerified \/ Keys!Again
                 \/ Keys!Cancel \/ Keys!Tick \/ \E k \in 1..MaxKey : Keys!Propagate(k)
  PROVE  KeysInv'
<1> USE CallsAssumption DEF KeysInv, Rotations, Places
<1>1. CASE Keys!GetUser \/ Keys!GetUserError
  BY <1>1 DEF Keys!GetUser, Keys!GetUserError, Keys!Return, Keys!Idle, Keys!NoKey
<1>2. CASE Keys!Verified \/ Keys!NotVerified \/ Keys!Again
  <2>1. /\ rotation' \in Rotations /\ rotation'.new = rotation.new
        /\ rotation.pc \in {"attempt", "pause"} /\ rotation'.pc \in {"attempt", "pause", "delete"}
    <3>1. CASE Keys!Verified
      BY <3>1 DEF Keys!Verified
    <3>2. CASE Keys!NotVerified
      BY <3>2 DEF Keys!NotVerified
    <3>3. CASE Keys!Again
      BY <3>3 DEF Keys!Again
    <3> QED BY <1>2, <3>1, <3>2, <3>3
  <2>2. UNCHANGED <<iam, accepted, config, made, failed, answer, before, asked>>
    BY <1>2 DEF Keys!Verified, Keys!NotVerified, Keys!Again, Keys!history
  <2> HIDE DEF Rotations
  <2> QED BY <2>1, <2>2
<1>3. CASE Keys!Cancel
  BY <1>3 DEF Keys!Cancel, Keys!history
<1>4. CASE Keys!Tick
  <2> DEFINE elapsed == IF rotation.elapsed < Timeout THEN rotation.elapsed + 1
                        ELSE rotation.elapsed
             paused == IF rotation.pc = "pause" THEN rotation.paused + 1 ELSE rotation.paused
             calling == IF rotation.pc = "attempt" THEN rotation.calling + 1
                        ELSE rotation.calling
  <2>1. rotation' = [rotation EXCEPT !.elapsed = elapsed, !.paused = paused, !.calling = calling]
    BY <1>4, Zenon DEF Keys!Tick
  <2>2. elapsed \in Nat /\ paused \in Nat /\ calling \in Nat
    OBVIOUS
  <2>3. UNCHANGED <<iam, accepted, config, made, failed, answer, before, asked>>
    BY <1>4 DEF Keys!Tick, Keys!history
  <2> HIDE DEF elapsed, paused, calling
  <2>4. rotation' \in Rotations /\ rotation'.pc = rotation.pc /\ rotation'.new = rotation.new
    BY <2>1, <2>2
  <2> HIDE DEF Rotations
  <2> QED BY <2>3, <2>4
<1>5. CASE \E k \in 1..MaxKey : Keys!Propagate(k)
  BY <1>5 DEF Keys!Propagate, Keys!history
<1> QED BY <1>1, <1>2, <1>3, <1>4, <1>5

(* Calls to IAM, and the ways a rotation ends.                             *)
LEMMA CallsPreserveKeys ==
  ASSUME KeysInv, Keys!Create \/ Keys!CreateError \/ Keys!TimedOut \/ Keys!Delete \/ Keys!DeleteError
  PROVE  KeysInv'
<1> USE DEF KeysInv, Rotations, Places, Keys!Return, Keys!ReturnError, Keys!Idle, Keys!NoKey
<1>1. CASE Keys!Create
  <2>1. /\ made' = made + 1 /\ iam' = iam \cup {made + 1}
        /\ UNCHANGED <<accepted, config, before, asked>> /\ rotation.pc = "create"
    BY <1>1 DEF Keys!Create
  <2>2. iam' \subseteq 1..made' /\ accepted' \subseteq iam' /\ config' \in 1..made' /\ made' \in Nat
    BY <2>1
  <2>3. CASE /\ rotation' = [rotation EXCEPT !.pc = Keys!AfterCreate, !.new = made + 1]
             /\ UNCHANGED <<failed, answer>>
    <3>1. Keys!AfterCreate \in {"delete", "attempt"}
      BY DEF Keys!AfterCreate
    <3>2. /\ rotation' \in Rotations /\ rotation'.pc = Keys!AfterCreate
          /\ rotation'.new = made + 1
      BY <2>3, CreateHolds
    <3> QED BY <2>1, <2>2, <2>3, <3>1, <3>2
  <2>4. CASE Keys!Return("error") /\ failed' = failed + 1
    BY <2>1, <2>2, <2>4
  <2> QED BY <1>1, <2>3, <2>4 DEF Keys!Create
<1>2. CASE Keys!CreateError
  BY <1>2 DEF Keys!CreateError
<1>3. CASE Keys!TimedOut
  BY <1>3 DEF Keys!TimedOut
<1>4. CASE Keys!Delete
  BY <1>4 DEF Keys!Delete
<1>5. CASE Keys!DeleteError
  <2>1. iam' \subseteq iam /\ accepted' \subseteq iam' /\ UNCHANGED <<config, made>>
    BY <1>5 DEF Keys!DeleteError
  <2>2. /\ rotation' = Keys!Idle /\ failed' \in Nat /\ answer' = "error" /\ before' = before
        /\ asked' = {config}
    BY <1>5 DEF Keys!DeleteError
  <2> QED BY <2>1, <2>2
<1> QED BY <1>1, <1>2, <1>3, <1>4, <1>5

LEMMA KeysTheorem == Keys!Spec => []KeysInv
<1>1. KeysInv /\ [Keys!Next]_(Keys!vars) => KeysInv'
  <2> SUFFICES ASSUME KeysInv, [Keys!Next]_(Keys!vars) PROVE KeysInv'
    OBVIOUS
  <2>1. CASE Keys!Next
    BY <2>1, LocalsPreserveKeys, CallsPreserveKeys DEF Keys!Next, Keys!Rotate
  <2>2. CASE UNCHANGED Keys!vars
    BY <2>2 DEF Keys!vars, Keys!history, KeysInv
  <2> QED BY <2>1, <2>2
<1> QED BY InitKeys, <1>1, PTL DEF Keys!Spec

-----------------------------------------------------------------------------
(* With the validity check, what is about to replace the configured key    *)
(* has been accepted.                                                      *)
VerifiedBeforeDelete == rotation.pc = "delete" => rotation.new \in accepted

(* Configured keys that exist work, if there is a validity check.          *)
THEOREM CredentialsWork ==
  ASSUME Timeout # 0
  PROVE  Keys!Spec => []WorkingCredentials
<1> DEFINE Inv == WorkingCredentials /\ VerifiedBeforeDelete
<1>1. Keys!Init => Inv
  BY DEF Keys!Init, Keys!Idle, WorkingCredentials, VerifiedBeforeDelete
<1>2. KeysInv /\ Inv /\ [Keys!Next]_(Keys!vars) => Inv'
  <2> SUFFICES ASSUME KeysInv, Inv, [Keys!Next]_(Keys!vars) PROVE Inv'
    OBVIOUS
  <2> USE DEF WorkingCredentials, VerifiedBeforeDelete, KeysInv, Rotations, Places
  <2>1. CASE Keys!GetUser \/ Keys!GetUserError \/ Keys!Verified \/ Keys!NotVerified \/ Keys!Again
             \/ Keys!Cancel
    <3>1. CASE Keys!GetUser \/ Keys!GetUserError
      BY <3>1 DEF Keys!GetUser, Keys!GetUserError, Keys!Return, Keys!Idle
    <3>2. CASE Keys!Verified
      BY <3>2 DEF Keys!Verified
    <3>3. CASE Keys!NotVerified
      BY <3>3 DEF Keys!NotVerified
    <3>4. CASE Keys!Again \/ Keys!Cancel
      BY <3>4 DEF Keys!Again, Keys!Cancel
    <3> QED BY <2>1, <3>1, <3>2, <3>3, <3>4
  <2>2. CASE Keys!Tick
    <3>1. rotation'.pc = rotation.pc /\ rotation'.new = rotation.new
          /\ UNCHANGED <<iam, accepted, config>>
      BY <2>2 DEF Keys!Tick
    <3> QED BY <3>1
  <2>3. CASE \E k \in 1..MaxKey : Keys!Propagate(k)
    BY <2>3 DEF Keys!Propagate
  <2>4. CASE Keys!Create
    <3>1. /\ iam' = iam \cup {made + 1} /\ UNCHANGED <<accepted, config>>
          /\ rotation'.pc \in {"attempt", "idle"}
      <4>1. Keys!AfterCreate = "attempt"
        BY DEF Keys!AfterCreate
      <4>2. CASE rotation' = [rotation EXCEPT !.pc = Keys!AfterCreate, !.new = made + 1]
        <5>1. rotation'.pc = "attempt"
          BY <4>1, <4>2, CreateHolds
        <5> QED BY <2>4, <5>1 DEF Keys!Create
      <4>3. CASE Keys!Return("error")
        BY <2>4, <4>3 DEF Keys!Create, Keys!Return, Keys!Idle
      <4> QED BY <2>4, <4>2, <4>3 DEF Keys!Create
    <3> QED BY <3>1
  <2>5. CASE Keys!CreateError \/ Keys!TimedOut
    BY <2>5 DEF Keys!CreateError, Keys!TimedOut, Keys!ReturnError, Keys!Return, Keys!Idle
  <2>6. CASE Keys!Delete
    BY <2>6 DEF Keys!Delete, Keys!Return, Keys!Idle
  <2>7. CASE Keys!DeleteError
    BY <2>7 DEF Keys!DeleteError, Keys!ReturnError, Keys!Return, Keys!Idle
  <2>8. CASE UNCHANGED Keys!vars
    BY <2>8 DEF Keys!vars
  <2> QED BY <2>1, <2>2, <2>3, <2>4, <2>5, <2>6, <2>7, <2>8 DEF Keys!Next, Keys!Rotate
<1>3. Keys!Spec => []KeysInv
  BY KeysTheorem
<1> QED BY <1>1, <1>2, <1>3, PTL DEF Keys!Spec

(* While a call runs it has answered nothing, and the configuration is     *)
(* that of its beginning.                                                  *)
NothingYet == rotation.pc # "idle" => answer = "none" /\ config = before

(* The configuration is overwritten only after a deletion that was         *)
(* answered; a key that is configured and gone has cost an error.          *)
THEOREM OnlyAfterDeletion == Keys!Spec => []OverwrittenAfterDeletion
<1> DEFINE Inv == OverwrittenAfterDeletion /\ NothingYet
<1>1. Keys!Init => Inv
  BY DEF Keys!Init, Keys!Idle, OverwrittenAfterDeletion, NothingYet
<1>2. KeysInv /\ Inv /\ [Keys!Next]_(Keys!vars) => Inv'
  <2> SUFFICES ASSUME KeysInv, Inv, [Keys!Next]_(Keys!vars) PROVE Inv'
    OBVIOUS
  <2> USE DEF OverwrittenAfterDeletion, NothingYet, KeysInv
  <2>1. CASE Keys!GetUser \/ Keys!GetUserError
    BY <2>1 DEF Keys!GetUser, Keys!GetUserError, Keys!Authorised, Keys!Return, Keys!Idle
  <2>2. CASE Keys!Verified \/ Keys!NotVerified \/ Keys!Again \/ Keys!Cancel \/ Keys!Tick
             \/ \E k \in 1..MaxKey : Keys!Propagate(k)
    <3>1. UNCHANGED <<iam, config, answer, before>> /\ (rotation.pc # "idle" \/ rotation' = rotation)
      BY <2>2 DEF Keys!Verified, Keys!NotVerified, Keys!Again, Keys!Cancel, Keys!Tick,
                  Keys!Propagate, Keys!history
    <3> QED BY <3>1
  <2>3. CASE Keys!Create
    <3>1. /\ iam' = iam \cup {made + 1} /\ UNCHANGED <<config, before>> /\ rotation.pc = "create"
          /\ \/ answer' = answer
             \/ answer' = "error" /\ rotation'.pc = "idle"
      BY <2>3 DEF Keys!Create, Keys!Return, Keys!Idle
    <3> QED BY <3>1
  <2>4. CASE Keys!CreateError \/ Keys!TimedOut
    BY <2>4 DEF Keys!CreateError, Keys!TimedOut, Keys!ReturnError, Keys!Return, Keys!Idle
  <2>5. CASE Keys!Delete
    BY <2>5 DEF Keys!Delete, Keys!Return, Keys!Idle
  <2>6. CASE Keys!DeleteError
    BY <2>6 DEF Keys!DeleteError, Keys!ReturnError, Keys!Return, Keys!Idle
  <2>7. CASE UNCHANGED Keys!vars
    BY <2>7 DEF Keys!vars, Keys!history
  <2> QED BY <2>1, <2>2, <2>3, <2>4, <2>5, <2>6, <2>7 DEF Keys!Next, Keys!Rotate
<1> QED BY <1>1, <1>2, KeysTheorem, PTL DEF Keys!Spec

-----------------------------------------------------------------------------
(* The keys that nobody uses: neither configured nor in hand.              *)
Stray == iam \ {config, rotation.new}

OneEach == Cardinality(Stray) = failed

LEMMA StrayFinite == KeysInv => IsFiniteSet(Stray) /\ Cardinality(Stray) \in Nat
<1> SUFFICES ASSUME KeysInv PROVE IsFiniteSet(Stray) /\ Cardinality(Stray) \in Nat
  OBVIOUS
<1>1. IsFiniteSet(1..made)
  BY FS_Interval DEF KeysInv
<1>2. Stray \in SUBSET (1..made)
  BY DEF Stray, KeysInv
<1> QED BY <1>1, <1>2, FS_Subset, FS_CardinalityType

(* What is left of a rotation that fails with a key in hand is that key.   *)
LEMMA FailureLeavesOne ==
  ASSUME KeysInv, OneEach, rotation.new \in iam \ {config},
         Keys!Return("error"), failed' = failed + 1, config' = config,
         iam' \in {iam, iam \ {config}}
  PROVE  OneEach'
<1>1. Stray' = Stray \cup {rotation.new} /\ rotation.new \notin Stray
  BY DEF Stray, Keys!Return, Keys!Idle, Keys!NoKey, KeysInv
<1> QED BY <1>1, StrayFinite, FS_AddElement DEF OneEach, Stray

(* A failure with nothing in hand leaves nothing.                          *)
LEMMA FailureLeavesNone ==
  ASSUME KeysInv, OneEach, rotation.new = Keys!NoKey,
         Keys!Return("error"), failed' = failed, config' = config, iam' = iam
  PROVE  OneEach'
BY DEF Stray, Keys!Return, Keys!Idle, OneEach

(* The code never cleans up: there are exactly as many.                    *)
LEMMA StrayKeysExact == Keys!Spec => []OneEach
<1>1. Keys!Init => OneEach
  <2> SUFFICES ASSUME Keys!Init PROVE OneEach
    OBVIOUS
  <2>1. iam \ {config, rotation.new} = {} /\ failed = 0
    BY DEF Keys!Init, Keys!Idle
  <2> QED BY <2>1, FS_EmptySet DEF OneEach, Stray
<1>2. KeysInv /\ KeysInv' /\ OneEach /\ [Keys!Next]_(Keys!vars) => OneEach'
  <2> SUFFICES ASSUME KeysInv, KeysInv', OneEach, [Keys!Next]_(Keys!vars) PROVE OneEach'
    OBVIOUS
  <2>1. CASE Keys!GetUser \/ Keys!GetUserError \/ Keys!Verified \/ Keys!NotVerified \/ Keys!Again \/ Keys!Cancel
    <3> DEFINE Nobody == rotation'.new = rotation.new /\ UNCHANGED <<iam, config, failed>>
    <3> USE DEF Keys!history, KeysInv, Rotations, Places
    <3>1. CASE Keys!GetUser \/ Keys!GetUserError
      <4>1. Nobody
        BY <3>1 DEF Keys!GetUser, Keys!GetUserError, Keys!Return, Keys!Idle
      <4> QED BY <4>1 DEF OneEach, Stray
    <3>2. CASE Keys!Verified
      <4>1. Nobody
        BY <3>2 DEF Keys!Verified
      <4> QED BY <4>1 DEF OneEach, Stray
    <3>3. CASE Keys!NotVerified
      <4>1. Nobody
        BY <3>3 DEF Keys!NotVerified
      <4> QED BY <4>1 DEF OneEach, Stray
    <3>4. CASE Keys!Again \/ Keys!Cancel
      <4>1. Nobody
        BY <3>4 DEF Keys!Again, Keys!Cancel
      <4> QED BY <4>1 DEF OneEach, Stray
    <3> QED BY <2>1, <3>1, <3>2, <3>3, <3>4
  <2>2. CASE Keys!Tick
    <3>1. rotation'.new = rotation.new /\ UNCHANGED <<iam, config, failed>>
      BY <2>2 DEF Keys!Tick, Keys!history
    <3> QED BY <3>1 DEF OneEach, Stray
  <2>3. CASE \E k \in 1..MaxKey : Keys!Propagate(k)
    BY <2>3 DEF Keys!Propagate, Keys!history, OneEach, Stray
  <2>4. CASE Keys!Create
    <3>1. /\ iam' = iam \cup {made + 1} /\ config' = config
          /\ rotation.new = Keys!NoKey /\ Keys!NoKey \notin iam
          /\ made + 1 \notin iam \cup {config, Keys!NoKey}
      BY <2>4 DEF Keys!Create, KeysInv, Keys!NoKey
    <3>2. CASE /\ rotation' = [rotation EXCEPT !.pc = Keys!AfterCreate, !.new = made + 1]
               /\ UNCHANGED failed
      <4>1. rotation'.new = made + 1
        BY <3>2, CreateHolds
      <4>2. Stray' = Stray
        BY <3>1, <4>1 DEF Stray
      <4> QED BY <3>2, <4>2 DEF OneEach, Stray
    <3>3. CASE Keys!Return("error") /\ failed' = failed + 1
      <4>1. Stray' = Stray \cup {made + 1} /\ made + 1 \notin Stray
        BY <3>1, <3>3 DEF Stray, Keys!Return, Keys!Idle
      <4> QED BY <3>3, <4>1, StrayFinite, FS_AddElement DEF OneEach, Stray
    <3> QED BY <2>4, <3>2, <3>3 DEF Keys!Create
  <2>5. CASE Keys!CreateError
    <3>1. rotation.new = Keys!NoKey /\ rotation.new \notin iam
      BY <2>5 DEF Keys!CreateError, KeysInv, Keys!NoKey
    <3> QED BY <2>5, <3>1, FailureLeavesNone DEF Keys!CreateError, Keys!ReturnError
  <2>6. CASE Keys!TimedOut
    <3>1. rotation.new \in iam \ {config}
      BY <2>6 DEF Keys!TimedOut, KeysInv
    <3> QED BY <2>6, <3>1, FailureLeavesOne DEF Keys!TimedOut, Keys!ReturnError
  <2>7. CASE Keys!Delete
    <3>1. /\ iam' = iam \ {config} /\ config' = rotation.new /\ rotation'.new = Keys!NoKey
          /\ failed' = failed /\ Keys!NoKey \notin iam
      BY <2>7 DEF Keys!Delete, Keys!Return, Keys!Idle, KeysInv, Keys!NoKey
    <3>2. Stray' = Stray
      BY <3>1 DEF Stray
    <3> QED BY <3>1, <3>2 DEF OneEach, Stray
  <2>8. CASE Keys!DeleteError
    <3>1. rotation.new \in iam \ {config}
      BY <2>8 DEF Keys!DeleteError, KeysInv
    <3>2. iam' \in {iam, iam \ {config}} /\ config' = config
      BY <2>8 DEF Keys!DeleteError
    <3> QED BY <2>8, <3>1, <3>2, FailureLeavesOne DEF Keys!DeleteError, Keys!ReturnError
  <2>9. CASE UNCHANGED Keys!vars
    BY <2>9 DEF Keys!vars, Keys!history, OneEach, Stray
  <2> QED BY <2>1, <2>2, <2>3, <2>4, <2>5, <2>6, <2>7, <2>8, <2>9 DEF Keys!Next, Keys!Rotate
<1>3. Keys!Spec => []KeysInv
  BY KeysTheorem
<1> QED BY <1>1, <1>2, <1>3, PTL DEF Keys!Spec

-----------------------------------------------------------------------------
(* Types: the timers stop at their limits, and no more keys are left over  *)
(* than were made.                                                         *)
Timers ==
  /\ rotation.elapsed \in 0..Timeout /\ rotation.paused \in 0..Delay
  /\ rotation.calling \in 0..MaxCall
  /\ made \in 1..MaxKey

LEMMA TimersTheorem == Keys!Spec => []Timers
<1>1. Keys!Init => Timers
  BY CallsAssumption DEF Keys!Init, Keys!Idle, Timers
<1>2. KeysInv /\ Timers /\ [Keys!Next]_(Keys!vars) => Timers'
  <2> SUFFICES ASSUME KeysInv, Timers, [Keys!Next]_(Keys!vars) PROVE Timers'
    OBVIOUS
  <2> USE CallsAssumption DEF Timers, KeysInv, Rotations, Places
  <2>1. CASE Keys!GetUser \/ Keys!GetUserError \/ Keys!Verified \/ Keys!NotVerified \/ Keys!Again \/ Keys!Cancel
    <3>1. CASE Keys!GetUser \/ Keys!GetUserError
      BY <3>1 DEF Keys!GetUser, Keys!GetUserError, Keys!Return, Keys!Idle
    <3>2. CASE Keys!Verified
      BY <3>2 DEF Keys!Verified
    <3>3. CASE Keys!NotVerified
      BY <3>3 DEF Keys!NotVerified
    <3>4. CASE Keys!Again
      BY <3>4 DEF Keys!Again
    <3>5. CASE Keys!Cancel
      BY <3>5 DEF Keys!Cancel
    <3> QED BY <2>1, <3>1, <3>2, <3>3, <3>4, <3>5
  <2>2. CASE Keys!Tick
    <3>1. /\ rotation'.elapsed \in {rotation.elapsed, rotation.elapsed + 1}
          /\ rotation'.elapsed # rotation.elapsed => rotation.elapsed < Timeout
      BY <2>2 DEF Keys!Tick
    <3>2. /\ rotation'.paused \in {rotation.paused, rotation.paused + 1}
          /\ rotation'.paused # rotation.paused => rotation.paused < Delay
      BY <2>2 DEF Keys!Tick
    <3>3. /\ rotation'.calling \in {rotation.calling, rotation.calling + 1}
          /\ rotation'.calling # rotation.calling => rotation.calling < MaxCall
      BY <2>2 DEF Keys!Tick
    <3>4. made' = made
      BY <2>2 DEF Keys!Tick
    <3> QED BY <3>1, <3>2, <3>3, <3>4
  <2>3. CASE \E k \in 1..MaxKey : Keys!Propagate(k)
    BY <2>3 DEF Keys!Propagate
  <2>4. CASE Keys!Create
    <3>1. made' = made + 1 /\ made < MaxKey
      BY <2>4 DEF Keys!Create
    <3>2. \/ rotation' = [rotation EXCEPT !.pc = Keys!AfterCreate, !.new = made + 1]
          \/ Keys!Return("error")
      BY <2>4 DEF Keys!Create
    <3>3. /\ rotation'.elapsed \in {0, rotation.elapsed} /\ rotation'.paused \in {0, rotation.paused}
          /\ rotation'.calling \in {0, rotation.calling}
      BY <3>2, CreateHolds DEF Keys!Return, Keys!Idle
    <3> QED BY <3>1, <3>3
  <2>5. CASE Keys!CreateError \/ Keys!TimedOut \/ Keys!Delete \/ Keys!DeleteError
    <3>1. rotation' = Keys!Idle /\ made' = made
      BY <2>5 DEF Keys!CreateError, Keys!TimedOut, Keys!Delete, Keys!DeleteError,
                  Keys!ReturnError, Keys!Return
    <3> QED BY <3>1 DEF Keys!Idle
  <2>6. CASE UNCHANGED Keys!vars
    BY <2>6 DEF Keys!vars
  <2> QED BY <2>1, <2>2, <2>3, <2>4, <2>5, <2>6 DEF Keys!Next, Keys!Rotate
<1> QED BY <1>1, <1>2, KeysTheorem, PTL DEF Keys!Spec

(* A context is done, or it is not.                                        *)
EndedOrNot == ended \in BOOLEAN

LEMMA EndedTheorem == Keys!Spec => []EndedOrNot
<1>1. Keys!Init => EndedOrNot
  BY DEF Keys!Init, EndedOrNot
<1>2. EndedOrNot /\ [Keys!Next]_(Keys!vars) => EndedOrNot'
  BY Zenon
     DEF EndedOrNot, Keys!vars, Keys!Next, Keys!Rotate, Keys!GetUser, Keys!GetUserError, Keys!Create, Keys!CreateError,
         Keys!Verified, Keys!NotVerified, Keys!Again, Keys!TimedOut, Keys!Delete,
         Keys!DeleteError, Keys!Propagate, Keys!Cancel, Keys!Tick, Keys!Return,
         Keys!ReturnError
<1> QED BY <1>1, <1>2, PTL DEF Keys!Spec

LEMMA KeysTyped == Keys!Spec => []Keys!TypeOK
<1>1. KeysInv /\ Timers /\ OneEach /\ EndedOrNot => Keys!TypeOK
  <2> SUFFICES ASSUME KeysInv, Timers, OneEach, EndedOrNot PROVE Keys!TypeOK
    OBVIOUS
  <2>1. IsFiniteSet(1..made) /\ Cardinality(1..made) = made
    BY FS_Interval DEF KeysInv
  <2>2. Stray \in SUBSET (1..made) /\ failed = Cardinality(Stray) /\ failed \in Nat
    BY DEF KeysInv, Stray, OneEach
  <2>3. failed \in 0..made
    <3>1. Cardinality(Stray) <= Cardinality(1..made)
      BY <2>1, <2>2, FS_Subset
    <3> QED BY <2>1, <2>2, <3>1
  <2>4. rotation.pc \in Places
    BY DEF KeysInv, Rotations
  <2>5. rotation.pc \in {"idle", "create"} <=> rotation.new = Keys!NoKey
    BY <2>4 DEF KeysInv, Places, Keys!NoKey
  <2> QED BY <2>3, <2>4, <2>5 DEF KeysInv, Timers, EndedOrNot, Places, Keys!TypeOK
<1> QED BY <1>1, KeysTheorem, TimersTheorem, EndedTheorem, StrayKeysExact, PTL

-----------------------------------------------------------------------------
(* Password: what was typed, as lines.                                     *)
LEMMA PromptOnly == \A s, S : Prompt!Only(s, S) = Only(s, S)
<1>1. ASSUME NEW s, NEW S PROVE Prompt!Only(s, S) = Only(s, S)
  <2> DEFINE parts == [i \in DOMAIN s |-> IF s[i] \in S THEN <<s[i]>> ELSE << >>]
  <2>1. Prompt!Only(s, S) = Prompt!FlattenSeq(parts)
    BY DEF Prompt!Only
  <2>2. Only(s, S) = FlattenSeq(parts)
    BY DEF Only
  <2> HIDE DEF parts
  <2>3. Prompt!FlattenSeq(parts) = FlattenSeq(parts)
    BY DEF Prompt!FlattenSeq, FlattenSeq
  <2> QED BY <2>1, <2>2, <2>3
<1> QED BY <1>1

(* Bytes of a line, and its end: a carriage return is none on Windows.     *)
Plain == Prompt!Counted \ {"cr", "lf"}
IsEnd(b) == b \in Prompt!Counted /\ b \in {"cr", "lf"}

(* What the bytes from the one after n to e are worth.                     *)
Part(n, e) == Only(SubSeq(bytes, n + 1, e), Prompt!Counted)

Within(n) == n \in Nat /\ taken \in Nat /\ n <= taken /\ taken <= Len(bytes) /\ bytes \in Seq(Prompt!Byte)

(* A line of which all that was read is in buf; and one read to its end.   *)
SoFar(buf, n) == Within(n) /\ buf = Part(n, taken) /\ buf \in Seq(Plain)

ClosedAt(e) ==
  \/ e + 1 <= taken /\ IsEnd(bytes[e + 1])
  \/ ~ open /\ e = Len(bytes)

Whole(text, n) ==
  Within(n) /\ \E e \in n..taken : text = Part(n, e) /\ text \in Seq(Plain) /\ ClosedAt(e)

(* A reading that goes on keeps the bytes that were taken.                 *)
KeepsTaken ==
  /\ platform' = platform /\ bytes' \in Seq(Prompt!Byte)
  /\ taken' \in Nat /\ taken <= taken' /\ taken' <= Len(bytes')
  /\ \A i \in 1..taken : bytes'[i] = bytes[i]
  /\ ~ open => ~ open' /\ bytes' = bytes

LEMMA SameSlice ==
  ASSUME NEW R, NEW s \in Seq(R), NEW t \in Seq(R), NEW n \in Nat, NEW e \in Nat, n <= e,
         e <= Len(s), e <= Len(t), \A i \in 1..e : s[i] = t[i]
  PROVE  SubSeq(s, n + 1, e) = SubSeq(t, n + 1, e)
<1> DEFINE a == SubSeq(s, n + 1, e)
           b == SubSeq(t, n + 1, e)
<1>1. a \in Seq(R) /\ Len(a) = e - n /\ \A i \in 1..e - n : a[i] = s[n + i]
  OBVIOUS
<1>2. b \in Seq(R) /\ Len(b) = e - n /\ \A i \in 1..e - n : b[i] = t[n + i]
  OBVIOUS
<1> HIDE DEF a, b
<1>3. ASSUME NEW i \in 1..e - n PROVE a[i] = b[i]
  <2>1. n + i \in 1..e
    OBVIOUS
  <2> QED BY <1>1, <1>2, <2>1
<1>4. a = b
  BY <1>1, <1>2, <1>3
<1> QED BY <1>4 DEF a, b

LEMMA SameCounted ==
  ASSUME platform' = platform
  PROVE  Prompt!Counted' = Prompt!Counted /\ Plain' = Plain /\ \A b : IsEnd(b)' <=> IsEnd(b)
BY DEF Prompt!Counted, Plain, IsEnd, Prompt!Byte, Prompt!Key

LEMMA PartStays ==
  ASSUME NEW n, Within(n), KeepsTaken, NEW e \in n..taken
  PROVE  Part(n, e)' = Part(n, e)
<1>1. SubSeq(bytes', n + 1, e) = SubSeq(bytes, n + 1, e)
  <2>1. e \in Nat /\ n \in Nat /\ n <= e /\ e <= taken
    BY DEF Within
  <2> QED BY <2>1, SameSlice DEF Within, KeepsTaken
<1>2. Prompt!Counted' = Prompt!Counted
  BY SameCounted DEF KeepsTaken
<1>3. Part(n, e)' = Only(SubSeq(bytes', n + 1, e), Prompt!Counted')
  BY Zenon DEF Part
<1> QED BY <1>1, <1>2, <1>3 DEF Part

LEMMA WithinStays ==
  ASSUME NEW n, Within(n), KeepsTaken PROVE Within(n)'
BY DEF Within, KeepsTaken, Prompt!Byte, Prompt!Key

LEMMA SoFarStays ==
  ASSUME NEW buf, NEW n, SoFar(buf, n), KeepsTaken, taken' = taken PROVE SoFar(buf, n)'
<1>1. Within(n) /\ taken \in n..taken
  BY DEF SoFar, Within
<1>2. Part(n, taken)' = Part(n, taken)
  <2>1. \A e \in n..taken : Part(n, e)' = Part(n, e)
    BY <1>1, PartStays
  <2>2. Part(n, taken)' = Only(SubSeq(bytes', n + 1, taken'), Prompt!Counted')
    BY Zenon DEF Part
  <2>3. ASSUME NEW e, e = taken PROVE Part(n, e)' = Only(SubSeq(bytes', n + 1, e), Prompt!Counted')
    BY Zenon DEF Part
  <2> QED BY <1>1, <2>1, <2>2, <2>3
<1>3. Plain' = Plain
  BY SameCounted DEF KeepsTaken
<1> QED BY <1>1, <1>2, <1>3, WithinStays DEF SoFar

LEMMA WholeStays ==
  ASSUME NEW text, NEW n, Whole(text, n), KeepsTaken PROVE Whole(text, n)'
<1>1. PICK e \in n..taken : text = Part(n, e) /\ text \in Seq(Plain) /\ ClosedAt(e)
  BY DEF Whole
<1>2. Within(n) /\ e \in n..taken'
  BY DEF Whole, Within, KeepsTaken
<1>3. Part(n, e)' = Part(n, e) /\ Plain' = Plain /\ Within(n)'
  BY <1>2, PartStays, SameCounted, WithinStays DEF KeepsTaken
<1>4. ClosedAt(e)'
  <2>1. CASE e + 1 <= taken /\ IsEnd(bytes[e + 1])
    <3>1. bytes'[e + 1] = bytes[e + 1] /\ e + 1 <= taken'
      BY <1>2, <2>1 DEF Within, KeepsTaken
    <3>2. IsEnd(bytes[e + 1])'
      BY <2>1, <3>1 DEF KeepsTaken, IsEnd, Prompt!Counted, Prompt!Byte, Prompt!Key
    <3> QED BY <3>1, <3>2 DEF ClosedAt
  <2>2. CASE ~ open /\ e = Len(bytes)
    BY <2>2 DEF ClosedAt, KeepsTaken
  <2> QED BY <1>1, <2>1, <2>2 DEF ClosedAt
<1>5. \E i \in n..taken' : text = Part(n, i)' /\ text \in Seq(Plain') /\ ClosedAt(i)'
  BY <1>1, <1>2, <1>3, <1>4
<1> QED BY <1>3, <1>5 DEF Whole

LEMMA CountedBytes ==
  Prompt!Counted \subseteq Prompt!Byte /\ (platform # "windows" => Prompt!Counted = Prompt!Byte)
BY DEF Prompt!Counted, Prompt!Byte, Prompt!Key

LEMMA NextSlice ==
  ASSUME NEW R, NEW s \in Seq(R), NEW n \in Nat, NEW m \in Nat, n <= m, m + 1 <= Len(s)
  PROVE  SubSeq(s, n + 1, m + 1) = SubSeq(s, n + 1, m) \o <<s[m + 1]>>
<1> DEFINE a == SubSeq(s, n + 1, m)
           b == <<s[m + 1]>>
           c == SubSeq(s, n + 1, m + 1)
<1>1. m + 1 \in 1..Len(s) /\ s[m + 1] \in R /\ m <= Len(s)
  OBVIOUS
<1>2. a \in Seq(R) /\ Len(a) = m - n /\ \A i \in 1..m - n : a[i] = s[n + i]
  BY <1>1
<1>3. b \in Seq(R) /\ Len(b) = 1 /\ b[1] = s[m + 1]
  BY <1>1
<1>4. c \in Seq(R) /\ Len(c) = m + 1 - n /\ \A i \in 1..m + 1 - n : c[i] = s[n + i]
  BY <1>1
<1> HIDE DEF a, b, c
<1>5. ASSUME NEW i \in 1..Len(a) PROVE c[i] = a[i]
  BY <1>2, <1>4
<1>6. ASSUME NEW i \in 1..Len(b) PROVE c[Len(a) + i] = b[i]
  <2>1. i = 1 /\ Len(a) + i \in 1..m + 1 - n /\ n + (Len(a) + i) = m + 1
    BY <1>2, <1>3
  <2> QED BY <1>3, <1>4, <2>1
<1>7. Len(c) = Len(a) + Len(b)
  BY <1>2, <1>3, <1>4
<1>8. c = a \o b
  BY <1>2, <1>3, <1>4, <1>5, <1>6, <1>7, ConcatIs
<1> QED BY <1>8 DEF a, b, c

(* One more byte is read.                                                  *)
LEMMA PartGrows ==
  ASSUME NEW n, Within(n), taken + 1 <= Len(bytes)
  PROVE  Part(n, taken + 1) = Part(n, taken) \o Kept(bytes[taken + 1], Prompt!Counted)
<1>1. n \in Nat /\ taken \in Nat /\ n <= taken /\ bytes \in Seq(Prompt!Byte)
  BY DEF Within
<1>2. SubSeq(bytes, n + 1, taken + 1) = SubSeq(bytes, n + 1, taken) \o <<bytes[taken + 1]>>
  BY <1>1, NextSlice
<1>3. SubSeq(bytes, n + 1, taken) \in Seq(Prompt!Byte) /\ bytes[taken + 1] \in Prompt!Byte
  BY <1>1
<1>4. Only(SubSeq(bytes, n + 1, taken) \o <<bytes[taken + 1]>>, Prompt!Counted) =
        Only(SubSeq(bytes, n + 1, taken), Prompt!Counted) \o Kept(bytes[taken + 1], Prompt!Counted)
  BY <1>3, OnlyAppend
<1> QED BY <1>2, <1>4 DEF Part

LEMMA SoFarGrows ==
  ASSUME NEW buf, NEW n, SoFar(buf, n), taken + 1 <= Len(bytes), ~ IsEnd(bytes[taken + 1]),
         taken' = taken + 1, bytes' = bytes, platform' = platform,
         NEW new, new = buf \o Kept(bytes[taken + 1], Prompt!Counted)
  PROVE  SoFar(new, n)'
<1> DEFINE b == bytes[taken + 1]
           more == Kept(b, Prompt!Counted)
<1>1. Within(n) /\ buf = Part(n, taken) /\ buf \in Seq(Plain) /\ b \in Prompt!Byte
  BY DEF SoFar, Within
<1>2. Part(n, taken + 1) = buf \o more
  BY <1>1, PartGrows
<1>3. Part(n, taken)' = Part(n, taken + 1)
  BY SameCounted, Zenon DEF Part
<1>4. more \in Seq(Plain)
  <2>1. CASE b \in Prompt!Counted
    <3>1. b \in Plain
      BY <2>1 DEF Plain, IsEnd
    <3>2. more = <<b>>
      BY <2>1 DEF Kept
    <3> HIDE DEF b, more
    <3> QED BY <3>1, <3>2
  <2>2. CASE b \notin Prompt!Counted
    BY <2>2 DEF Kept
  <2> QED BY <2>1, <2>2
<1> HIDE DEF more, b
<1>5. buf \o more \in Seq(Plain)
  BY <1>1, <1>4
<1>6. Plain' = Plain /\ Prompt!Counted' = Prompt!Counted /\ Prompt!Byte' = Prompt!Byte
  BY SameCounted DEF Prompt!Byte, Prompt!Key
<1>7. Within(n)'
  BY <1>1 DEF Within, Prompt!Byte, Prompt!Key
<1>8. new = buf \o more
  BY DEF more, b
<1> QED BY <1>2, <1>3, <1>5, <1>6, <1>7, <1>8 DEF SoFar

(* Its end is read, or nothing more will come.                             *)
LEMMA SoFarEnds ==
  ASSUME NEW buf, NEW n, SoFar(buf, n), KeepsTaken,
         \/ taken + 1 <= Len(bytes) /\ IsEnd(bytes[taken + 1]) /\ taken' = taken + 1 /\ bytes' = bytes
         \/ ~ open /\ taken = Len(bytes) /\ bytes' = bytes
  PROVE  Whole(buf, n)'
<1>1. Within(n) /\ buf = Part(n, taken) /\ buf \in Seq(Plain)
  BY DEF SoFar
<1>2. PICK e : e = taken
  OBVIOUS
<1>3. e \in n..taken /\ e \in n..taken'
  BY <1>1, <1>2 DEF Within, KeepsTaken
<1>4. Part(n, e)' = buf /\ Plain' = Plain /\ Within(n)'
  BY <1>1, <1>2, <1>3, PartStays, SameCounted, WithinStays DEF KeepsTaken
<1>5. ClosedAt(e)'
  BY <1>1, <1>2 DEF ClosedAt, KeepsTaken, IsEnd, Prompt!Counted, Prompt!Byte, Prompt!Key, Within
<1>6. \E i \in n..taken' : buf = Part(n, i)' /\ buf \in Seq(Plain') /\ ClosedAt(i)'
  BY <1>1, <1>3, <1>4, <1>5
<1> QED BY <1>4, <1>6 DEF Whole

-----------------------------------------------------------------------------
(* A line that was read to its end is what LineFrom says.                  *)
LEMMA FirstEnd ==
  ASSUME NEW R, NEW s \in Seq(R), NEW ends, NEW k \in 1..Len(s),
         ends \subseteq 1..Len(s), k \in ends, \A i \in 1..k - 1 : i \notin ends
  PROVE  (CHOOSE i \in ends : \A j \in ends : i <= j) = k
<1>1. \A j \in ends : k <= j
  OBVIOUS
<1>2. ASSUME NEW i \in ends, \A j \in ends : i <= j PROVE i = k
  <2>1. i <= k /\ k <= i /\ i \in Int /\ k \in Int
    BY <1>1, <1>2
  <2> QED BY <2>1
<1> QED BY <1>1, <1>2

LEMMA SplitSlice ==
  ASSUME NEW R, NEW s \in Seq(R), NEW n \in Nat, NEW e \in Nat, n <= e, e <= Len(s)
  PROVE  SubSeq(s, n + 1, Len(s)) = SubSeq(s, n + 1, e) \o SubSeq(s, e + 1, Len(s))
<1> DEFINE m == Len(s)
           a == SubSeq(s, n + 1, e)
           b == SubSeq(s, e + 1, m)
           c == SubSeq(s, n + 1, m)
<1>1. m \in Nat
  OBVIOUS
<1>2. a \in Seq(R) /\ Len(a) = e - n /\ \A i \in 1..e - n : a[i] = s[n + i]
  BY <1>1
<1>3. b \in Seq(R) /\ Len(b) = m - e /\ \A i \in 1..m - e : b[i] = s[e + i]
  BY <1>1
<1>4. c \in Seq(R) /\ Len(c) = m - n /\ \A i \in 1..m - n : c[i] = s[n + i]
  BY <1>1
<1> HIDE DEF a, b, c, m
<1>5. ASSUME NEW i \in 1..Len(a) PROVE c[i] = a[i]
  <2>1. i \in 1..e - n /\ i \in 1..m - n
    BY <1>1, <1>2 DEF m
  <2> QED BY <1>2, <1>4, <2>1
<1>6. ASSUME NEW i \in 1..Len(b) PROVE c[Len(a) + i] = b[i]
  <2>1. Len(a) + i \in 1..m - n /\ n + (Len(a) + i) = e + i /\ i \in 1..m - e
    BY <1>1, <1>2, <1>3
  <2> QED BY <1>3, <1>4, <2>1
<1>7. Len(c) = Len(a) + Len(b)
  BY <1>1, <1>2, <1>3, <1>4
<1>8. c = a \o b
  BY <1>2, <1>3, <1>4, <1>5, <1>6, <1>7, ConcatIs
<1> QED BY <1>8 DEF a, b, c, m

LEMMA WholeIsLine ==
  ASSUME NEW text, NEW n, Whole(text, n) PROVE text = Prompt!LineFrom(n)
<1>1. PICK e \in n..taken : text = Part(n, e) /\ text \in Seq(Plain) /\ ClosedAt(e)
  BY DEF Whole
<1>2. /\ n \in Nat /\ e \in Nat /\ n <= e /\ e <= Len(bytes) /\ taken \in Nat /\ taken <= Len(bytes)
      /\ e <= taken /\ bytes \in Seq(Prompt!Byte) /\ Len(bytes) \in Nat
  BY DEF Whole, Within
<1> DEFINE C == Prompt!Counted
           rest == Part(n, Len(bytes))
           more == Part(e, Len(bytes))
           ends == {i \in DOMAIN rest : rest[i] \in {"cr", "lf"}}
<1>3. Prompt!LineFrom(n) =
        IF ends = {} THEN rest
        ELSE SubSeq(rest, 1, (CHOOSE i \in ends : \A j \in ends : i <= j) - 1)
  <2>1. Prompt!Only(SubSeq(bytes, n + 1, Len(bytes)), C) = rest
    BY PromptOnly DEF Part
  <2>2. Prompt!LineFrom(n) = Prompt!FirstLine(rest)
    BY <2>1 DEF Prompt!LineFrom
  <2> HIDE DEF rest
  <2> QED BY <2>2 DEF Prompt!FirstLine
<1>4. rest = text \o more /\ more \in Seq(C)
  <2> DEFINE a == SubSeq(bytes, n + 1, e)
             b == SubSeq(bytes, e + 1, Len(bytes))
  <2>1. a \in Seq(Prompt!Byte) /\ b \in Seq(Prompt!Byte)
    BY <1>2
  <2>2. SubSeq(bytes, n + 1, Len(bytes)) = a \o b
    BY <1>2, SplitSlice
  <2>3. rest = Only(a \o b, C) /\ text = Only(a, C) /\ more = Only(b, C)
    BY <1>1, <2>2 DEF Part
  <2> HIDE DEF a, b, rest, more
  <2>4. Only(a \o b, C) = Only(a, C) \o Only(b, C)
    BY <2>1, OnlyConcat
  <2>5. more \in Seq(Prompt!Byte \cap C)
    BY <2>1, <2>3, OnlyType
  <2>6. Prompt!Byte \cap C = C
    BY CountedBytes
  <2> QED BY <2>3, <2>4, <2>5, <2>6
<1>5. Len(text) \in Nat /\ \A i \in 1..Len(text) : text[i] \in C /\ text[i] \notin {"cr", "lf"}
  BY <1>1 DEF Plain
<1>6. text \in Seq(C)
  BY <1>1 DEF Plain
<1>7. CASE ~ open /\ e = Len(bytes)
  <2>1. more = << >>
    <3>1. SubSeq(bytes, e + 1, Len(bytes)) = << >>
      BY <1>2, <1>7
    <3> QED BY <3>1, OnlyEmpty DEF Part
  <2> HIDE DEF more, rest
  <2>2. rest = text
    BY <1>4, <1>6, <2>1
  <2>3. ends = {}
    BY <1>5, <1>6, <2>2
  <2> QED BY <1>3, <2>2, <2>3
<1>8. CASE e + 1 <= taken /\ IsEnd(bytes[e + 1])
  <2> DEFINE b == bytes[e + 1]
             after == Part(e + 1, Len(bytes))
  <2>1. more = <<b>> \o after /\ after \in Seq(C) /\ b \in C /\ b \in {"cr", "lf"}
    <3> DEFINE u == SubSeq(bytes, e + 1, e + 1)
               v == SubSeq(bytes, (e + 1) + 1, Len(bytes))
    <3>1. u = <<b>> /\ u \in Seq(Prompt!Byte) /\ v \in Seq(Prompt!Byte) /\ b \in C /\ b \in {"cr", "lf"}
      <4>1. /\ e + 1 \in 1..Len(bytes) /\ b \in Prompt!Byte /\ b \in C /\ b \in {"cr", "lf"}
            /\ v \in Seq(Prompt!Byte)
        BY <1>2, <1>8 DEF IsEnd
      <4>2. u \in Seq(Prompt!Byte) /\ Len(u) = 1 /\ u[1] = b
        BY <1>2, <4>1
      <4> HIDE DEF u
      <4>3. u = <<b>>
        BY <4>2
      <4> QED BY <4>1, <4>2, <4>3
    <3>2. SubSeq(bytes, e + 1, Len(bytes)) = u \o v
      <4>1. e + 1 \in Nat /\ e <= e + 1 /\ e + 1 <= Len(bytes)
        BY <1>2, <1>8
      <4> QED BY <1>2, <4>1, SplitSlice
    <3>3. more = Only(u \o v, C) /\ after = Only(v, C)
      BY <3>2 DEF Part
    <3> HIDE DEF u, v, more, after
    <3>4. more = Only(u, C) \o after
      BY <3>1, <3>3, OnlyConcat
    <3>5. Only(u, C) = <<b>>
      BY <3>1, OnlyOne DEF Kept
    <3>6. after \in Seq(Prompt!Byte \cap C)
      BY <3>1, <3>3, OnlyType
    <3>7. Prompt!Byte \cap C = C
      BY CountedBytes
    <3> QED BY <3>1, <3>4, <3>5, <3>6, <3>7
  <2> HIDE DEF more, rest, b, after, C
  <2>2. Len(<<b>>) = 1 /\ <<b>>[1] = b /\ <<b>> \in Seq(C) /\ Len(after) \in Nat
    BY <2>1
  <2>3. more \in Seq(C) /\ Len(more) = 1 + Len(after) /\ more[1] = b
    BY <2>1, <2>2
  <2> DEFINE k == Len(text) + 1
  <2>4. /\ rest \in Seq(C) /\ Len(rest) = Len(text) + Len(more) /\ k \in 1..Len(rest)
        /\ \A i \in 1..Len(text) : rest[i] = text[i]
    BY <1>4, <1>5, <1>6, <2>2, <2>3
  <2>5. rest[k] = b
    BY <1>4, <1>5, <1>6, <2>2, <2>3
  <2>6. ends \subseteq 1..Len(rest) /\ k \in ends /\ \A i \in 1..k - 1 : i \notin ends
    BY <1>5, <2>1, <2>4, <2>5
  <2>7. SubSeq(rest, 1, k - 1) = text
    BY <1>5, <1>6, <2>4
  <2> HIDE DEF ends, k
  <2>8. (CHOOSE i \in ends : \A j \in ends : i <= j) = k
    BY <2>4, <2>6, FirstEnd
  <2>9. ends # {}
    BY <2>6
  <2> QED BY <1>3, <2>7, <2>8, <2>9
<1> QED BY <1>1, <1>7, <1>8 DEF ClosedAt

-----------------------------------------------------------------------------
(* Password: types of what the calls keep.                                 *)
Results == [err : {"none", "error", "interrupted"}] \cup [err : {""}, text : Seq(Prompt!Byte)]

Readers ==
  [pc : {"none", "started", "reading", "done"}, oldState : {"normal", "raw", "no echo"},
   resultBuf : Seq(Prompt!Byte), result : Results]

PromptTypes ==
  /\ platform \in {"unix", "solaris", "windows"} /\ mode \in {"normal", "raw", "no echo"}
  /\ bytes \in Seq(Prompt!Byte) /\ taken \in 0..Len(bytes) /\ open \in BOOLEAN
  /\ pc \in [Prompt!Call -> {"idle", "waiting", "returned"}]
  /\ start \in [Prompt!Call -> Nat]
  /\ reader \in [Prompt!Call -> Readers]
  /\ result \in [Prompt!Call -> Results]

(* One call after the other: a call has begun only if those before it have *)
(* returned and their goroutines have ended.                               *)
Turn(c) ==
  /\ pc[c] = "idle" <=> reader[c].pc = "none"
  /\ pc[c] # "idle" => \A d \in 1..c - 1 : pc[d] = "returned" /\ reader[d].pc = "done"

(* A goroutine that reads has hidden what is typed and knows the mode from *)
(* before.                                                                 *)
Hidden ==
  /\ \A c \in Prompt!Call : Prompt!Reading(c) => mode = Prompt!HiddenMode /\ reader[c].oldState = "normal"
  /\ (\A c \in Prompt!Call : ~ Prompt!Reading(c)) => mode = "normal"

(* What it has read so far, what it has found, and what Read returned.     *)
LineOf(c) ==
  /\ reader[c].pc = "none" => reader[c].resultBuf = << >>
  /\ reader[c].pc \in {"started", "reading"} => SoFar(reader[c].resultBuf, start[c])
  /\ reader[c].pc = "done" /\ reader[c].result.err = "" => Whole(reader[c].result.text, start[c])

ResultOf(c) ==
  result[c].err = "" =>
    /\ reader[c].pc = "done" /\ reader[c].result.err = ""
    /\ result[c].text = Prompt!removeiTermDelete(reader[c].result.text)

PromptInv ==
  /\ PromptTypes /\ Hidden /\ ~ echoed
  /\ \A c \in Prompt!Call : Turn(c) /\ LineOf(c) /\ ResultOf(c)

LEMMA PromptInit == Prompt!Init => PromptInv
<1> SUFFICES ASSUME Prompt!Init PROVE PromptInv
  OBVIOUS
<1>1. PromptTypes
  BY DEF Prompt!Init, PromptTypes, Readers, Results, Prompt!Nothing
<1>2. Hidden /\ ~ echoed
  BY DEF Prompt!Init, Hidden, Prompt!Reading
<1>3. ASSUME NEW c \in Prompt!Call PROVE Turn(c) /\ LineOf(c) /\ ResultOf(c)
  BY DEF Prompt!Init, Turn, LineOf, ResultOf, Prompt!Nothing
<1> QED BY <1>1, <1>2, <1>3 DEF PromptInv

(* At most one goroutine has something to do.                              *)
LEMMA OneActive ==
  ASSUME PromptInv, NEW c \in Prompt!Call, NEW d \in Prompt!Call,
         reader[c].pc \in {"started", "reading"}, reader[d].pc \in {"started", "reading"}
  PROVE  c = d
<1>1. c \in Int /\ d \in Int /\ 1 <= c /\ 1 <= d
  BY CallsAssumption DEF Prompt!Call
<1>2. Turn(c) /\ Turn(d)
  BY DEF PromptInv
<1>3. ~ (c < d)
  BY <1>1, <1>2 DEF Turn
<1>4. ~ (d < c)
  BY <1>1, <1>2 DEF Turn
<1> QED BY <1>1, <1>3, <1>4

(* A goroutine with which nothing happens while bytes are typed or taken.  *)
LEMMA LineStays ==
  ASSUME PromptInv, KeepsTaken, NEW d \in Prompt!Call,
         reader'[d] = reader[d], start'[d] = start[d],
         taken' = taken \/ reader[d].pc \notin {"started", "reading"}
  PROVE  LineOf(d)'
<1>1. LineOf(d)
  BY DEF PromptInv
<1> DEFINE buf == reader[d].resultBuf
           text == reader[d].result.text
           n == start[d]
<1>2. CASE reader[d].pc \in {"started", "reading"}
  <2>1. SoFar(buf, n) /\ taken' = taken
    BY <1>1, <1>2 DEF LineOf
  <2>2. PICK b, m : b = buf /\ m = n
    OBVIOUS
  <2>3. SoFar(b, m)'
    BY <2>1, <2>2, SoFarStays
  <2>4. SoFar(reader[d].resultBuf, start[d])'
    BY <2>2, <2>3 DEF SoFar, Within, Part
  <2> QED BY <1>2, <2>4 DEF LineOf
<1>3. CASE reader[d].pc = "done" /\ reader[d].result.err = ""
  <2>1. PICK t, m : t = text /\ m = n
    OBVIOUS
  <2>2. Whole(t, m)'
    BY <1>1, <1>3, <2>1, WholeStays DEF LineOf
  <2>3. Whole(reader[d].result.text, start[d])'
    BY <2>1, <2>2 DEF Whole, Within, Part
  <2> QED BY <1>3, <2>3 DEF LineOf
<1>4. CASE ~ (reader[d].pc = "done" /\ reader[d].result.err = "") /\ reader[d].pc \notin {"started", "reading"}
  BY <1>1, <1>4 DEF LineOf
<1> QED BY <1>2, <1>3, <1>4

-----------------------------------------------------------------------------
(* Password: no step breaks it.  A step of a goroutine.                    *)
Active(c) == reader[c].pc \in {"started", "reading"}

LEMMA EarlierCall == \A d \in Prompt!Call : \A e \in 1..d - 1 : e \in Prompt!Call
BY CallsAssumption DEF Prompt!Call

LEMMA LengthIsNat == ASSUME NEW R, NEW s \in Seq(R) PROVE Len(s) \in Nat
OBVIOUS

LEMMA UpTo == \A t, n \in Nat : t <= n => t \in 0..n
OBVIOUS

LEMMA Interruption == Prompt!ErrInterrupted \in Results /\ Prompt!ErrInterrupted.err # ""
BY DEF Prompt!ErrInterrupted, Results

LEMMA ReaderStep ==
  ASSUME PromptInv, NEW c \in Prompt!Call, Active(c),
         NEW r \in Readers, r.pc \in {"reading", "done"}, reader' = [reader EXCEPT ![c] = r],
         UNCHANGED <<open, pc, start, result, echoed>>, mode' \in {"normal", "raw", "no echo"},
         KeepsTaken, LineOf(c)', Hidden'
  PROVE  PromptInv'
<1>1. PromptTypes /\ ~ echoed /\ \A d \in Prompt!Call : Turn(d) /\ LineOf(d) /\ ResultOf(d)
  BY DEF PromptInv
<1>2. /\ reader'[c] = r /\ reader' \in [Prompt!Call -> Readers]
      /\ \A d \in Prompt!Call : d # c => reader'[d] = reader[d]
  BY <1>1 DEF PromptTypes
<1>3. PromptTypes'
  <2>1. bytes' \in Seq(Prompt!Byte) /\ taken' \in 0..Len(bytes') /\ platform' = platform
    <3>1. /\ bytes' \in Seq(Prompt!Byte) /\ platform' = platform
          /\ taken' \in Nat /\ taken' <= Len(bytes')
      BY Zenon DEF KeepsTaken
    <3>2. Len(bytes') \in Nat
      BY <3>1, LengthIsNat
    <3> QED BY <3>1, <3>2, UpTo, Zenon
  <2> QED BY <1>1, <1>2, <2>1 DEF PromptTypes
<1>4. ASSUME NEW d \in Prompt!Call PROVE Turn(d)'
  <2>1. reader'[d].pc = "none" <=> reader[d].pc = "none"
    BY <1>2 DEF Active
  <2>2. ASSUME pc[d] # "idle", NEW e \in 1..d - 1 PROVE pc[e] = "returned" /\ reader'[e].pc = "done"
    <3>1. pc[e] = "returned" /\ reader[e].pc = "done"
      BY <1>1, <2>2 DEF Turn
    <3>2. e \in Prompt!Call
      BY EarlierCall
    <3>3. e # c
      BY <3>1 DEF Active
    <3> QED BY <1>2, <3>1, <3>2, <3>3
  <2> QED BY <1>1, <2>1, <2>2 DEF Turn
<1>5. ASSUME NEW d \in Prompt!Call PROVE LineOf(d)'
  <2>1. CASE d # c
    <3>1. taken' = taken \/ reader[d].pc \notin {"started", "reading"}
      BY <2>1, OneActive DEF Active
    <3> QED BY <1>2, <2>1, <3>1, LineStays
  <2> QED BY <2>1
<1>6. ASSUME NEW d \in Prompt!Call PROVE ResultOf(d)'
  <2>1. CASE d = c
    BY <1>1, <2>1 DEF ResultOf, Active
  <2>2. CASE d # c
    BY <1>1, <1>2, <2>2 DEF ResultOf, Prompt!removeiTermDelete, Prompt!IsPrefix
  <2> QED BY <2>1, <2>2
<1> QED BY <1>1, <1>3, <1>4, <1>5, <1>6 DEF PromptInv

LEMMA SliceIsEmpty == ASSUME NEW s, NEW n \in Nat PROVE SubSeq(s, n + 1, n) = << >>
OBVIOUS

LEMMA NothingTaken ==
  ASSUME PromptInv, UNCHANGED <<platform, bytes, taken>>, open' = open \/ ~ open' PROVE KeepsTaken
<1>1. bytes \in Seq(Prompt!Byte) /\ taken \in 0..Len(bytes) /\ Len(bytes) \in Nat
  <2>1. bytes \in Seq(Prompt!Byte) /\ taken \in 0..Len(bytes)
    BY Zenon DEF PromptInv, PromptTypes
  <2> QED BY <2>1, LengthIsNat
<1>2. taken \in Nat /\ taken <= Len(bytes) /\ taken <= taken
  BY <1>1
<1>3. ~ open => ~ open'
  OBVIOUS
<1> QED BY <1>1, <1>2, <1>3 DEF KeepsTaken

(* The terminal is set back when the one goroutine that reads ends.        *)
LEMMA SetBack ==
  ASSUME PromptInv, NEW c \in Prompt!Call, Prompt!Reading(c), NEW res \in Results,
         Prompt!Restore(c, res), UNCHANGED <<platform, open, pc, start, result, echoed>>, KeepsTaken,
         res.err = "" => Whole(res.text, start[c])'
  PROVE  PromptInv'
<1> DEFINE r == [reader[c] EXCEPT !.pc = "done", !.result = res]
<1>1. PromptTypes /\ Active(c) /\ reader[c] \in Readers
  BY DEF PromptInv, PromptTypes, Active, Prompt!Reading
<1>2. r \in Readers /\ r.pc = "done" /\ r.result = res
  BY <1>1 DEF Readers
<1>3. reader' = [reader EXCEPT ![c] = r] /\ mode' = "normal"
  BY <1>1 DEF Prompt!Restore, Prompt!Ends, PromptInv, Hidden, PromptTypes
<1> HIDE DEF r
<1>4. /\ reader'[c] = r
      /\ \A d \in Prompt!Call : d # c => reader'[d] = reader[d]
  BY <1>1, <1>3 DEF PromptTypes
<1>5. Hidden'
  <2>1. ASSUME NEW d \in Prompt!Call PROVE ~ Prompt!Reading(d)'
    BY <1>2, <1>4, OneActive DEF Prompt!Reading
  <2> QED BY <1>3, <2>1 DEF Hidden
<1>6. LineOf(c)'
  BY <1>2, <1>4 DEF LineOf
<1> QED BY <1>1, <1>2, <1>3, <1>5, <1>6, ReaderStep

LEMMA HidesKeeps ==
  ASSUME PromptInv, NEW c \in Prompt!Call, Prompt!makeRaw(c) PROVE PromptInv'
<1> DEFINE r == [reader[c] EXCEPT !.pc = "reading", !.oldState = mode]
<1>1. PromptTypes /\ Active(c) /\ reader[c] \in Readers /\ reader[c].pc = "started"
  BY DEF PromptInv, PromptTypes, Active, Prompt!makeRaw
<1>2. r \in Readers /\ r.pc = "reading" /\ r.oldState = mode /\ r.resultBuf = reader[c].resultBuf
  BY <1>1 DEF Readers, PromptTypes
<1>3. reader' = [reader EXCEPT ![c] = r] /\ mode' = Prompt!HiddenMode /\ KeepsTaken
  BY <1>1, NothingTaken DEF Prompt!makeRaw, PromptTypes
<1> HIDE DEF r
<1>4. /\ reader'[c] = r
      /\ \A d \in Prompt!Call : d # c => reader'[d] = reader[d]
  BY <1>1, <1>3 DEF PromptTypes
<1>5. mode = "normal"
  <2>1. ASSUME NEW d \in Prompt!Call PROVE ~ Prompt!Reading(d)
    BY <1>1, OneActive DEF Prompt!Reading
  <2> QED BY <2>1 DEF PromptInv, Hidden
<1>6. Hidden'
  <2>1. ASSUME NEW d \in Prompt!Call, d # c PROVE ~ Prompt!Reading(d)'
    BY <1>1, <1>4, <2>1, OneActive DEF Prompt!Reading
  <2>2. Prompt!Reading(c)' /\ reader'[c].oldState = "normal"
    BY <1>2, <1>4, <1>5 DEF Prompt!Reading
  <2>3. mode' = Prompt!HiddenMode'
    BY <1>3 DEF KeepsTaken, Prompt!HiddenMode
  <2> QED BY <2>1, <2>2, <2>3 DEF Hidden
<1>7. LineOf(c)'
  <2>1. PICK b, m : b = reader[c].resultBuf /\ m = start[c] /\ SoFar(b, m)
    BY <1>1 DEF PromptInv, LineOf
  <2>2. SoFar(b, m)'
    BY <1>3, <2>1, SoFarStays DEF Prompt!makeRaw
  <2>3. reader'[c].resultBuf = b /\ start'[c] = m
    BY <1>2, <1>4, <2>1 DEF Prompt!makeRaw
  <2>4. SoFar(reader[c].resultBuf, start[c])'
    BY <2>2, <2>3 DEF SoFar, Within, Part
  <2> QED BY <1>2, <1>4, <2>4 DEF LineOf
<1>8. mode' \in {"normal", "raw", "no echo"}
  BY <1>3 DEF Prompt!HiddenMode
<1> QED BY <1>1, <1>2, <1>3, <1>6, <1>7, <1>8, ReaderStep DEF Prompt!makeRaw

LEMMA CannotHideKeeps ==
  ASSUME PromptInv, NEW c \in Prompt!Call, Prompt!CannotHide(c) PROVE PromptInv'
<1> DEFINE r == [reader[c] EXCEPT !.pc = "done", !.result = Prompt!Error]
<1>1. PromptTypes /\ Active(c) /\ reader[c] \in Readers /\ reader[c].pc = "started"
  BY DEF PromptInv, PromptTypes, Active, Prompt!CannotHide
<1>2. r \in Readers /\ r.pc = "done" /\ r.result.err = "error"
  BY <1>1 DEF Readers, Results, Prompt!Error
<1>3. reader' = [reader EXCEPT ![c] = r] /\ mode' = mode /\ KeepsTaken
  BY <1>1, NothingTaken DEF Prompt!CannotHide, Prompt!Ends, PromptTypes
<1> HIDE DEF r
<1>4. /\ reader'[c] = r
      /\ \A d \in Prompt!Call : d # c => reader'[d] = reader[d]
  BY <1>1, <1>3 DEF PromptTypes
<1>5. Hidden'
  <2>1. ASSUME NEW d \in Prompt!Call
        PROVE  (Prompt!Reading(d)' <=> Prompt!Reading(d)) /\ (d # c => reader'[d] = reader[d])
    BY <1>1, <1>2, <1>4 DEF Prompt!Reading
  <2>2. ~ Prompt!Reading(c)
    BY <1>1 DEF Prompt!Reading
  <2>3. Prompt!HiddenMode' = Prompt!HiddenMode
    BY <1>3 DEF KeepsTaken, Prompt!HiddenMode
  <2> QED BY <1>3, <2>1, <2>2, <2>3 DEF PromptInv, Hidden
<1>6. LineOf(c)'
  BY <1>2, <1>4 DEF LineOf
<1> QED BY <1>1, <1>2, <1>3, <1>5, <1>6, ReaderStep DEF Prompt!CannotHide, PromptTypes

(* Typing, and what ends without a byte, keeps what was taken.             *)
LEMMA readlineKeeps ==
  ASSUME PromptInv, NEW c \in Prompt!Call, Prompt!readline(c) PROVE PromptInv'
<1> DEFINE b == bytes[taken + 1]
           buf == reader[c].resultBuf
<1>1. PromptTypes /\ Active(c) /\ Prompt!Reading(c) /\ reader[c] \in Readers /\ reader[c].pc = "reading"
  BY DEF PromptInv, PromptTypes, Active, Prompt!readline, Prompt!Reading
<1>2. /\ taken \in Nat /\ Len(bytes) \in Nat /\ taken <= Len(bytes) /\ bytes \in Seq(Prompt!Byte)
      /\ buf \in Seq(Prompt!Byte)
  <2>1. taken \in 0..Len(bytes) /\ bytes \in Seq(Prompt!Byte) /\ buf \in Seq(Prompt!Byte)
    BY <1>1, Zenon DEF PromptTypes, Readers
  <2>2. Len(bytes) \in Nat
    BY <2>1, LengthIsNat
  <2>3. \A t, n : n \in Nat /\ t \in 0..n => t \in Nat /\ t <= n
    OBVIOUS
  <2> QED BY <2>1, <2>2, <2>3, Zenon
<1>3. taken + 1 <= Len(bytes) /\ b \in Prompt!Byte
  <2>1. SubSeq(bytes, taken + 1, Len(bytes)) # << >>
    BY DEF Prompt!readline, Prompt!Readable, Prompt!Unread
  <2>2. taken # Len(bytes)
    BY <1>2, <2>1, SliceIsEmpty
  <2> QED BY <1>2, <2>2
<1>4. /\ taken' = taken + 1 /\ UNCHANGED <<platform, bytes, open, pc, start, result, echoed>>
      /\ \/ /\ b = "lf" \/ (b = "cr" /\ platform # "windows")
            /\ Prompt!Restore(c, Prompt!Text(buf))
         \/ b = "cr" /\ platform = "windows" /\ reader' = reader /\ mode' = mode
         \/ b = "ctrl-c" /\ Prompt!Restore(c, Prompt!ErrInterrupted)
         \/ /\ b \notin {"lf", "cr", "ctrl-c"}
            /\ reader' = [reader EXCEPT ![c].resultBuf = Append(@, b)] /\ mode' = mode
  BY Zenon DEF Prompt!readline, Prompt!CtrlC
<1>5. KeepsTaken
  BY <1>2, <1>3, <1>4 DEF KeepsTaken
<1>6. SoFar(buf, start[c])
  BY <1>1 DEF PromptInv, LineOf
<1> HIDE DEF b, buf
<1>7. PICK w, n : w = buf /\ n = start[c]
  OBVIOUS
<1>8. CASE /\ b = "lf" \/ (b = "cr" /\ platform # "windows")
           /\ Prompt!Restore(c, Prompt!Text(buf))
  <2>1. Prompt!Restore(c, Prompt!Text(buf))
    BY <1>8
  <2>2. IsEnd(bytes[taken + 1])
    BY <1>8, CountedBytes DEF b, IsEnd, Prompt!Counted, Prompt!Byte, Prompt!Key
  <2>3. Whole(w, n)'
    BY <1>3, <1>4, <1>5, <1>6, <1>7, <2>2, SoFarEnds
  <2>4. Prompt!Text(buf) \in Results /\ Prompt!Text(buf).text = w
    BY <1>2, <1>7 DEF Prompt!Text, Results
  <2>5. PICK res \in Results : res = Prompt!Text(buf)
    BY <2>4
  <2>6. start'[c] = n
    BY <1>4, <1>7
  <2>7. res.text = w /\ Prompt!Restore(c, res)
    BY <2>1, <2>4, <2>5
  <2>8. Whole(res.text, start[c])'
    BY <2>3, <2>6, <2>7 DEF Whole, Within, Part
  <2> QED BY <1>1, <1>4, <1>5, <2>7, <2>8, SetBack
<1>9. CASE b = "ctrl-c" /\ Prompt!Restore(c, Prompt!ErrInterrupted)
  <2>1. Prompt!ErrInterrupted \in Results /\ Prompt!ErrInterrupted.err # ""
    BY Interruption
  <2>2. PICK res \in Results : res = Prompt!ErrInterrupted /\ res.err # ""
    BY <2>1
  <2>3. Prompt!Restore(c, res)
    BY <1>9, <2>2
  <2> QED BY <1>1, <1>4, <1>5, <2>2, <2>3, SetBack
<1>10. CASE \/ b = "cr" /\ platform = "windows" /\ reader' = reader /\ mode' = mode
            \/ /\ b \notin {"lf", "cr", "ctrl-c"}
               /\ reader' = [reader EXCEPT ![c].resultBuf = Append(@, b)] /\ mode' = mode
  <2>1. \E x : /\ x = IF b = "cr" THEN buf ELSE Append(buf, b)
               /\ reader' = [reader EXCEPT ![c].resultBuf = x] /\ mode' = mode
    <3>1. CASE b = "cr"
      <4>1. reader' = reader /\ mode' = mode
        BY <1>10, <3>1
      <4>2. [reader[c] EXCEPT !.resultBuf = reader[c].resultBuf] = reader[c]
        BY <1>1 DEF Readers
      <4>3. [reader EXCEPT ![c].resultBuf = buf] = reader
        BY <1>1, <4>2 DEF buf, PromptTypes
      <4> QED BY <3>1, <4>1, <4>3
    <3>2. CASE b # "cr"
      BY <1>1, <1>10, <3>2 DEF buf
    <3> QED BY <3>1, <3>2
  <2>2. PICK x : /\ x = IF b = "cr" THEN buf ELSE Append(buf, b)
                 /\ reader' = [reader EXCEPT ![c].resultBuf = x] /\ mode' = mode
    BY <2>1
  <2>3. ~ IsEnd(bytes[taken + 1])
    BY <1>10 DEF b, IsEnd, Prompt!Counted
  <2>4. x = buf \o Kept(b, Prompt!Counted) /\ x \in Seq(Prompt!Byte)
    <3>1. CASE b = "cr"
      <4>1. Kept(b, Prompt!Counted) = << >>
        BY <1>10, <3>1 DEF Kept, Prompt!Counted
      <4> QED BY <1>2, <2>2, <3>1, <4>1
    <3>2. CASE b # "cr"
      <4>1. b \in Prompt!Counted
        BY <1>3, <3>2 DEF Prompt!Counted
      <4>2. Kept(b, Prompt!Counted) = <<b>>
        BY <4>1 DEF Kept
      <4>3. Append(buf, b) = buf \o <<b>> /\ Append(buf, b) \in Seq(Prompt!Byte)
        BY <1>2, <1>3
      <4> QED BY <2>2, <3>2, <4>2, <4>3
    <3> QED BY <3>1, <3>2
  <2>5. SoFar(x, n)'
    <3>1. x = w \o Kept(bytes[taken + 1], Prompt!Counted) /\ SoFar(w, n)
      BY <1>6, <1>7, <2>4 DEF b
    <3> QED BY <1>3, <1>4, <2>3, <3>1, SoFarGrows
  <2> DEFINE r == [reader[c] EXCEPT !.resultBuf = x]
  <2>6. r \in Readers /\ r.pc = "reading" /\ r.resultBuf = x /\ r.oldState = reader[c].oldState
    BY <1>1, <2>4 DEF Readers
  <2>7. reader' = [reader EXCEPT ![c] = r]
    BY <1>1, <2>2 DEF PromptTypes
  <2> HIDE DEF r
  <2>8. reader'[c] = r /\ \A d \in Prompt!Call : d # c => reader'[d] = reader[d]
    BY <1>1, <2>7 DEF PromptTypes
  <2>9. Hidden'
    <3>1. ASSUME NEW d \in Prompt!Call
          PROVE  /\ Prompt!Reading(d)' <=> Prompt!Reading(d)
                 /\ reader'[d].oldState = reader[d].oldState
      <4>1. CASE d = c
        BY <1>1, <2>6, <2>8, <4>1 DEF Prompt!Reading
      <4>2. CASE d # c
        BY <2>8, <4>2 DEF Prompt!Reading
      <4> QED BY <4>1, <4>2
    <3>2. Prompt!HiddenMode' = Prompt!HiddenMode /\ mode' = mode
      BY <1>5, <2>2 DEF KeepsTaken, Prompt!HiddenMode
    <3> QED BY <3>1, <3>2 DEF PromptInv, Hidden
  <2>10. LineOf(c)'
    <3>1. reader'[c].resultBuf = x /\ start'[c] = n
      BY <1>4, <1>7, <2>6, <2>8
    <3>2. SoFar(reader[c].resultBuf, start[c])'
      BY <2>5, <3>1 DEF SoFar, Within, Part
    <3> QED BY <2>6, <2>8, <3>2 DEF LineOf
  <2>11. mode' \in {"normal", "raw", "no echo"}
    BY <1>1, <2>2 DEF PromptTypes
  <2> QED BY <1>1, <1>4, <1>5, <2>6, <2>7, <2>9, <2>10, <2>11, ReaderStep
<1> QED BY <1>4, <1>8, <1>9, <1>10

LEMMA NothingBehind ==
  ASSUME NEW R, NEW s \in Seq(R), NEW t \in Nat, t <= Len(s), SubSeq(s, t + 1, Len(s)) = << >>
  PROVE  t = Len(s)
<1>1. ASSUME t # Len(s) PROVE FALSE
  <2>1. Len(SubSeq(s, t + 1, Len(s))) = Len(s) - t /\ Len(s) - t # 0
    BY <1>1
  <2>2. Len(<< >>) = 0
    OBVIOUS
  <2> QED BY <2>1, <2>2
<1> QED BY <1>1

LEMMA EndsKeep ==
  ASSUME PromptInv, NEW c \in Prompt!Call, Prompt!ReadError(c) \/ Prompt!EndOfFile(c)
  PROVE  PromptInv'
<1>1. /\ PromptTypes /\ Prompt!Reading(c) /\ reader[c].pc = "reading" /\ ~ open
      /\ UNCHANGED <<platform, bytes, taken, open, pc, start, result, echoed>>
  BY DEF PromptInv, Prompt!ReadError, Prompt!EndOfFile, Prompt!Reading
<1>2. KeepsTaken
  BY <1>1, NothingTaken
<1>3. CASE Prompt!ReadError(c)
  <2>1. PICK res \in Results : res = Prompt!Error /\ res.err # ""
    <3>1. Prompt!Error \in Results /\ Prompt!Error.err # ""
      BY DEF Prompt!Error, Results
    <3> QED BY <3>1
  <2>2. Prompt!Restore(c, res)
    BY <1>3, <2>1 DEF Prompt!ReadError
  <2> QED BY <1>1, <1>2, <2>1, <2>2, SetBack
<1>4. CASE Prompt!EndOfFile(c)
  <2> DEFINE buf == reader[c].resultBuf
  <2>1. Prompt!Restore(c, Prompt!Text(buf)) /\ SubSeq(bytes, taken + 1, Len(bytes)) = << >>
    BY <1>4 DEF Prompt!EndOfFile, Prompt!Unread
  <2>2. SoFar(buf, start[c])
    BY <1>1 DEF PromptInv, LineOf
  <2>3. PICK w, n : w = buf /\ n = start[c]
    OBVIOUS
  <2>4. taken = Len(bytes)
    <3>1. bytes \in Seq(Prompt!Byte) /\ taken \in Nat /\ taken <= Len(bytes)
      BY <2>2 DEF SoFar, Within
    <3> QED BY <2>1, <3>1, NothingBehind
  <2>5. Whole(w, n)'
    BY <1>1, <1>2, <2>2, <2>3, <2>4, SoFarEnds
  <2>6. buf \in Seq(Prompt!Byte)
    BY <1>1 DEF PromptTypes, Readers
  <2> HIDE DEF buf
  <2>7. Prompt!Text(buf) \in Results /\ Prompt!Text(buf).text = w
    BY <2>3, <2>6 DEF Prompt!Text, Results
  <2>8. PICK res \in Results : res = Prompt!Text(buf)
    BY <2>7
  <2>9. res.text = w /\ Prompt!Restore(c, res) /\ start'[c] = n
    BY <1>1, <2>1, <2>3, <2>7, <2>8
  <2>10. Whole(res.text, start[c])'
    BY <2>5, <2>9 DEF Whole, Within, Part
  <2> QED BY <1>1, <1>2, <2>9, <2>10, SetBack
<1> QED BY <1>3, <1>4

(* A step of a call, or of the user.                                       *)
LEMMA ReadKeeps ==
  ASSUME ~ AfterInterrupt, PromptInv, NEW c \in Prompt!Call, Prompt!Read(c) PROVE PromptInv'
<1> DEFINE r == [reader[c] EXCEPT !.pc = "started"]
<1>1. /\ PromptTypes /\ pc[c] = "idle" /\ reader[c] \in Readers /\ reader[c].pc = "none"
      /\ reader[c].resultBuf = << >>
      /\ \A d \in 1..c - 1 : pc[d] = "returned" /\ reader[d].pc = "done"
  BY DEF PromptInv, PromptTypes, Prompt!Read, Turn, LineOf
<1>2. r \in Readers /\ r.pc = "started" /\ r.resultBuf = << >>
  BY <1>1 DEF Readers
<1>3. /\ pc' = [pc EXCEPT ![c] = "waiting"] /\ start' = [start EXCEPT ![c] = taken]
      /\ reader' = [reader EXCEPT ![c] = r]
      /\ UNCHANGED <<platform, mode, bytes, taken, open, result, echoed>>
  BY <1>1 DEF Prompt!Read, PromptTypes
<1> HIDE DEF r
<1>4. /\ pc'[c] = "waiting" /\ start'[c] = taken /\ reader'[c] = r
      /\ \A d \in Prompt!Call : d # c => pc'[d] = pc[d] /\ start'[d] = start[d] /\ reader'[d] = reader[d]
  BY <1>1, <1>3 DEF PromptTypes
<1>5. taken \in Nat /\ taken <= Len(bytes) /\ bytes \in Seq(Prompt!Byte)
  <2>1. taken \in 0..Len(bytes) /\ bytes \in Seq(Prompt!Byte)
    BY <1>1, Zenon DEF PromptTypes
  <2> QED BY <2>1, LengthIsNat
<1>6. PromptTypes'
  BY <1>1, <1>2, <1>3, <1>5 DEF PromptTypes
<1>7. KeepsTaken
  BY <1>3, NothingTaken
<1>8. Hidden'
  <2>1. ASSUME NEW d \in Prompt!Call
        PROVE  (Prompt!Reading(d)' <=> Prompt!Reading(d)) /\ (d # c => reader'[d] = reader[d])
    BY <1>1, <1>2, <1>4 DEF Prompt!Reading
  <2>2. ~ Prompt!Reading(c)
    BY <1>1 DEF Prompt!Reading
  <2>3. Prompt!HiddenMode' = Prompt!HiddenMode
    BY <1>3 DEF Prompt!HiddenMode
  <2> QED BY <1>3, <2>1, <2>2, <2>3 DEF PromptInv, Hidden
<1>9. ASSUME NEW d \in Prompt!Call PROVE Turn(d)'
  <2>1. CASE d = c
    <3>1. ASSUME NEW e \in 1..c - 1 PROVE pc'[e] = "returned" /\ reader'[e].pc = "done"
      BY <1>1, <1>4, EarlierCall
    <3> QED BY <1>2, <1>4, <2>1, <3>1 DEF Turn
  <2>2. CASE d # c
    <3>1. Turn(d)
      BY DEF PromptInv
    <3>2. ASSUME pc[d] # "idle", NEW e \in 1..d - 1 PROVE pc'[e] = "returned" /\ reader'[e].pc = "done"
      <4>1. pc[e] = "returned" /\ reader[e].pc = "done" /\ e \in Prompt!Call
        BY <3>1, <3>2, EarlierCall DEF Turn
      <4> QED BY <1>1, <1>4, <4>1
    <3> QED BY <1>4, <2>2, <3>1, <3>2 DEF Turn
  <2> QED BY <2>1, <2>2
<1>10. ASSUME NEW d \in Prompt!Call PROVE LineOf(d)'
  <2>1. CASE d = c
    <3>1. PICK b, n : b = << >> /\ n = taken
      OBVIOUS
    <3>2. SoFar(b, n)'
      <4>1. Part(n, taken)' = << >>
        <5>1. SubSeq(bytes', n + 1, taken') = << >>
          BY <1>3, <1>5, <3>1, SliceIsEmpty
        <5>2. Part(n, taken)' = Only(SubSeq(bytes', n + 1, taken'), Prompt!Counted')
          BY Zenon DEF Part
        <5> QED BY <5>1, <5>2, OnlyEmpty
      <4>2. Within(n)'
        BY <1>3, <1>5, <3>1 DEF Within
      <4>3. b \in Seq(Plain')
        BY <3>1
      <4> QED BY <3>1, <4>1, <4>2, <4>3 DEF SoFar
    <3>3. SoFar(reader[c].resultBuf, start[c])'
      <4>1. reader'[c].resultBuf = b /\ start'[c] = n
        BY <1>2, <1>4, <3>1
      <4> QED BY <3>2, <4>1 DEF SoFar, Within, Part
    <3> QED BY <1>2, <1>4, <2>1, <3>3 DEF LineOf
  <2>2. CASE d # c
    BY <1>3, <1>4, <1>7, <2>2, LineStays
  <2> QED BY <2>1, <2>2
<1>11. ASSUME NEW d \in Prompt!Call PROVE ResultOf(d)'
  <2>1. ResultOf(d)
    BY DEF PromptInv
  <2>2. result'[d].err = "" => d # c /\ reader'[d] = reader[d] /\ result'[d] = result[d]
    BY <1>1, <1>3, <1>4, <2>1 DEF ResultOf
  <2> QED BY <2>1, <2>2 DEF ResultOf, Prompt!removeiTermDelete, Prompt!IsPrefix
<1> QED BY <1>3, <1>6, <1>8, <1>9, <1>10, <1>11 DEF PromptInv

LEMMA ReturnKeeps ==
  ASSUME PromptInv, NEW c \in Prompt!Call, NEW res \in Results, Prompt!Return(c, res),
         res.err = "" =>
           /\ reader[c].pc = "done" /\ reader[c].result.err = ""
           /\ res.text = Prompt!removeiTermDelete(reader[c].result.text)
  PROVE  PromptInv'
<1>1. /\ PromptTypes /\ pc[c] = "waiting"
      /\ pc' = [pc EXCEPT ![c] = "returned"] /\ result' = [result EXCEPT ![c] = res]
      /\ UNCHANGED <<platform, mode, bytes, taken, open, start, reader, echoed>>
  BY DEF PromptInv, Prompt!Return, Prompt!Waiting
<1>2. /\ pc'[c] = "returned" /\ result'[c] = res
      /\ \A d \in Prompt!Call : d # c => pc'[d] = pc[d] /\ result'[d] = result[d]
  BY <1>1 DEF PromptTypes
<1>3. PromptTypes'
  BY <1>1 DEF PromptTypes
<1>4. Hidden'
  BY <1>1 DEF PromptInv, Hidden, Prompt!Reading, Prompt!HiddenMode
<1>5. ASSUME NEW d \in Prompt!Call PROVE Turn(d)'
  <2>1. Turn(d)
    BY DEF PromptInv
  <2>2. ASSUME pc[d] # "idle", NEW e \in 1..d - 1 PROVE pc'[e] = "returned" /\ reader'[e].pc = "done"
    <3>1. pc[e] = "returned" /\ reader[e].pc = "done" /\ e \in Prompt!Call
      BY <2>1, <2>2, EarlierCall DEF Turn
    <3> QED BY <1>1, <1>2, <3>1
  <2>3. pc'[d] = "idle" <=> pc[d] = "idle"
    BY <1>1, <1>2
  <2> QED BY <1>1, <2>1, <2>2, <2>3 DEF Turn
<1>6. ASSUME NEW d \in Prompt!Call PROVE LineOf(d)'
  <2>1. KeepsTaken
    BY <1>1, NothingTaken
  <2> QED BY <1>1, <2>1, LineStays
<1>7. ASSUME NEW d \in Prompt!Call PROVE ResultOf(d)'
  <2>1. CASE d = c
    BY ZenonT(30), <1>1, <1>2, <2>1 DEF ResultOf, Prompt!removeiTermDelete, Prompt!IsPrefix
  <2>2. CASE d # c
    BY ZenonT(30), <1>1, <1>2, <2>2 DEF PromptInv, ResultOf, Prompt!removeiTermDelete, Prompt!IsPrefix
  <2> QED BY <2>1, <2>2
<1> QED BY <1>1, <1>3, <1>4, <1>5, <1>6, <1>7 DEF PromptInv

LEMMA DeleteRemoved ==
  ASSUME NEW line \in Seq(Prompt!Byte) PROVE Prompt!removeiTermDelete(line) \in Seq(Prompt!Byte)
<1>1. SubSeq(line, 3, Len(line)) \in Seq(Prompt!Byte)
  OBVIOUS
<1> QED BY <1>1, Zenon DEF Prompt!removeiTermDelete

LEMMA SelectKeeps ==
  ASSUME PromptInv, NEW c \in Prompt!Call, Prompt!Interrupted(c) \/ Prompt!Done(c) PROVE PromptInv'
<1>1. CASE Prompt!Interrupted(c)
  <2>1. PICK res \in Results : res = Prompt!ErrInterrupted /\ res.err # ""
    BY Interruption
  <2>2. Prompt!Return(c, res)
    BY <1>1, <2>1 DEF Prompt!Interrupted
  <2> QED BY <2>1, <2>2, ReturnKeeps
<1>2. CASE Prompt!Done(c)
  <2> DEFINE found == reader[c].result
             line == Prompt!removeiTermDelete(found.text)
             res == IF found.err = "" THEN Prompt!Text(line) ELSE found
  <2>1. found \in Results /\ reader[c].pc = "done" /\ Prompt!Return(c, res)
    BY <1>2 DEF Prompt!Done, PromptInv, PromptTypes, Readers
  <2>2. found.err = "" => line \in Seq(Prompt!Byte)
    <3>1. found.err = "" => found.text \in Seq(Prompt!Byte)
      BY <2>1 DEF Results
    <3> QED BY <3>1, DeleteRemoved
  <2> HIDE DEF found, line
  <2>3. res \in Results /\ (res.err = "" => found.err = "" /\ res.text = line)
    <3>1. CASE found.err = ""
      BY <2>2, <3>1 DEF Prompt!Text, Results
    <3>2. CASE found.err # ""
      BY <2>1, <3>2
    <3> QED BY <3>1, <3>2
  <2> HIDE DEF res
  <2>4. res.err = "" =>
          /\ reader[c].pc = "done" /\ reader[c].result.err = ""
          /\ res.text = Prompt!removeiTermDelete(reader[c].result.text)
    BY <2>1, <2>3 DEF found, line
  <2> QED BY <2>1, <2>3, <2>4, ReturnKeeps
<1> QED BY <1>1, <1>2

LEMMA UserStep ==
  ASSUME PromptInv, KeepsTaken, open' \in BOOLEAN, ~ echoed',
         UNCHANGED <<mode, taken, pc, start, reader, result>>
  PROVE  PromptInv'
<1>1. PromptTypes'
  <2>1. bytes' \in Seq(Prompt!Byte) /\ taken' \in 0..Len(bytes') /\ platform' = platform
    <3>1. /\ bytes' \in Seq(Prompt!Byte) /\ platform' = platform
          /\ taken' \in Nat /\ taken' <= Len(bytes')
      BY Zenon DEF KeepsTaken
    <3>2. Len(bytes') \in Nat
      BY <3>1, LengthIsNat
    <3> QED BY <3>1, <3>2, UpTo, Zenon
  <2> QED BY <2>1 DEF PromptInv, PromptTypes
<1>2. Hidden'
  BY DEF PromptInv, Hidden, Prompt!Reading, Prompt!HiddenMode, KeepsTaken
<1>3. ASSUME NEW d \in Prompt!Call PROVE Turn(d)' /\ ResultOf(d)'
  BY DEF PromptInv, Turn, ResultOf, Prompt!removeiTermDelete, Prompt!IsPrefix
<1>4. ASSUME NEW d \in Prompt!Call PROVE LineOf(d)'
  BY LineStays
<1> QED BY <1>1, <1>2, <1>3, <1>4 DEF PromptInv

LEMMA TypeKeeps ==
  ASSUME PromptInv, NEW key \in Prompt!Key, Prompt!Type(key) PROVE PromptInv'
<1>1. bytes \in Seq(Prompt!Byte) /\ taken \in 0..Len(bytes) /\ open \in BOOLEAN /\ Hidden /\ ~ echoed
  BY Zenon DEF PromptInv, PromptTypes
<1>2. taken \in Nat /\ taken <= Len(bytes) /\ Len(bytes) \in Nat /\ taken <= taken
  BY <1>1, LengthIsNat
<1>3. /\ open /\ UNCHANGED <<platform, mode, taken, open, pc, start, reader, result>>
      /\ bytes' = SubSeq(bytes, 1, taken) \/ bytes' = bytes \o Prompt!BytesOf(key)
      /\ echoed' = (echoed \/ (mode = "normal" /\ \E c \in Prompt!Call : Prompt!Waiting(c) /\ Prompt!Reading(c)))
  BY Zenon DEF Prompt!Type
<1>4. /\ bytes' \in Seq(Prompt!Byte) /\ taken <= Len(bytes')
      /\ \A i \in 1..taken : bytes'[i] = bytes[i]
  <2>1. CASE bytes' = SubSeq(bytes, 1, taken)
    BY <1>1, <1>2, <2>1
  <2>2. CASE bytes' = bytes \o Prompt!BytesOf(key)
    <3> DEFINE new == Prompt!BytesOf(key)
    <3>1. new \in Seq(Prompt!Byte)
      BY DEF Prompt!BytesOf, Prompt!Byte, Prompt!Key
    <3> HIDE DEF new
    <3>2. Len(new) \in Nat /\ bytes' = bytes \o new
      BY <2>2, <3>1 DEF new
    <3> QED BY <1>1, <1>2, <3>1, <3>2
  <2> QED BY <1>3, <2>1, <2>2
<1>5. KeepsTaken
  BY <1>2, <1>3, <1>4 DEF KeepsTaken
<1>6. ~ echoed'
  BY <1>1, <1>3 DEF Hidden, Prompt!HiddenMode
<1> QED BY <1>1, <1>3, <1>5, <1>6, UserStep

LEMMA PromptPreserved ==
  ASSUME ~ AfterInterrupt, PromptInv, [Prompt!Next]_(Prompt!vars) PROVE PromptInv'
<1>1. ASSUME UNCHANGED <<platform, mode, bytes, taken, pc, start, reader, result, echoed>>,
             open' \in BOOLEAN, open' = open \/ ~ open'
      PROVE  PromptInv'
  <2>1. KeepsTaken
    BY <1>1, NothingTaken
  <2>2. ~ echoed'
    BY <1>1 DEF PromptInv
  <2> QED BY <1>1, <2>1, <2>2, UserStep
<1>2. open \in BOOLEAN
  BY DEF PromptInv, PromptTypes
<1>3. CASE UNCHANGED Prompt!vars
  BY <1>1, <1>2, <1>3 DEF Prompt!vars
<1>4. CASE Prompt!HangUp
  BY <1>1, <1>4 DEF Prompt!HangUp
<1>5. ASSUME NEW c \in Prompt!Call, Prompt!Interrupt(c) PROVE PromptInv'
  BY <1>1, <1>2, <1>5 DEF Prompt!Interrupt
<1>6. ASSUME NEW c \in Prompt!Call,
             \/ Prompt!Read(c) \/ Prompt!CannotHide(c) \/ Prompt!makeRaw(c) \/ Prompt!readline(c)
             \/ Prompt!ReadError(c) \/ Prompt!EndOfFile(c) \/ Prompt!Interrupted(c) \/ Prompt!Done(c)
      PROVE  PromptInv'
  BY <1>6, ReadKeeps, CannotHideKeeps, HidesKeeps, readlineKeeps, EndsKeep, SelectKeeps
<1>7. ASSUME NEW key \in Prompt!Key, Prompt!Type(key) PROVE PromptInv'
  BY <1>7, TypeKeeps
<1> QED BY <1>3, <1>4, <1>5, <1>6, <1>7 DEF Prompt!Next

-----------------------------------------------------------------------------
(* StringGenerator: lists in its instance are lists.                       *)
LEMMA StringsOnly == \A s, S : Strings!Only(s, S) = Only(s, S)
<1>1. ASSUME NEW s, NEW S PROVE Strings!Only(s, S) = Only(s, S)
  <2> DEFINE parts == [i \in DOMAIN s |-> IF s[i] \in S THEN <<s[i]>> ELSE << >>]
  <2>1. Strings!Only(s, S) = Strings!FlattenSeq(parts)
    BY DEF Strings!Only
  <2>2. Only(s, S) = FlattenSeq(parts)
    BY DEF Only
  <2> HIDE DEF parts
  <2>3. Strings!FlattenSeq(parts) = FlattenSeq(parts)
    BY DEF Strings!FlattenSeq, FlattenSeq
  <2> QED BY <2>1, <2>2, <2>3
<1> QED BY <1>1

LEMMA StringsCardinality == \A S : Strings!Cardinality(S) = Cardinality(S)
BY DEF Strings!Cardinality, Cardinality

LEMMA StringsSorted == \A S, code : Strings!SortedBy(S, code) = SortedBy(S, code)
BY DEF Strings!SortedBy, SortedBy, Strings!Cardinality, Cardinality

(* The charset of rules has each of their characters, once.                *)
Rule == Strings!CharsetRule \cup {Strings!OwnRule}
CharsOf(rules) == UNION {rules[i].chars : i \in DOMAIN rules}

(* The characters of a list of rules are a finite set of numbers.          *)
LEMMA CharsFinite ==
  ASSUME NEW rules \in Seq(Rule) PROVE IsFiniteSet(CharsOf(rules)) /\ CharsOf(rules) \subseteq Int
<1> DEFINE n == Len(rules)
           each == [i \in 1..n |-> rules[i].chars]
           sets == {rules[i].chars : i \in DOMAIN rules}
<1>1. ASSUME NEW i \in 1..n PROVE IsFiniteSet(rules[i].chars) /\ rules[i].chars \subseteq Int
  <2>1. rules[i] \in Rule
    OBVIOUS
  <2>2. rules[i].chars \in Charset \cup {{}}
    BY <2>1 DEF Rule, Strings!CharsetRule, Strings!OwnRule
  <2> QED BY <2>2, FS_EmptySet, CallsAssumption
<1>2. n \in Nat /\ DOMAIN rules = 1..n
  OBVIOUS
<1>3. each \in Surjection(1..n, sets)
  BY <1>2 DEF Surjection
<1>4. IsFiniteSet(1..n)
  BY <1>2, FS_Interval
<1>5. IsFiniteSet(sets)
  <2> HIDE DEF each, sets, n
  <2> QED BY <1>3, <1>4, FS_Surjection
<1>6. \A T \in sets : IsFiniteSet(T) /\ T \subseteq Int
  BY <1>1, <1>2
<1> HIDE DEF sets
<1>7. IsFiniteSet(UNION sets) /\ UNION sets \subseteq Int
  BY <1>5, <1>6, FS_UNION
<1> QED BY <1>7 DEF CharsOf, sets

Distinct(charset) ==
  \A i, j \in 1..Len(charset) : charset[i] = charset[j] => i = j

(* getChars lists the characters of the rules, each of them once.          *)
LEMMA CharsetIs ==
  ASSUME NEW rules \in Seq(Rule)
  PROVE  /\ Strings!getChars(rules) \in Seq(CharsOf(rules))
         /\ Strings!ToSet(Strings!getChars(rules)) = CharsOf(rules)
         /\ Distinct(Strings!getChars(rules))
<1> DEFINE chars == CharsOf(rules)
           code == [r \in chars |-> r]
           s == SortedBy(chars, code)
<1>1. Strings!getChars(rules) = s
  BY StringsSorted DEF Strings!getChars, Strings!deduplicateRunes, CharsOf
<1>2. Coded(chars, code)
  BY CharsFinite DEF Coded
<1> HIDE DEF code
<1>3. /\ s \in Seq(chars) /\ Len(s) = Cardinality(chars)
      /\ \A x \in chars : \E i \in 1..Cardinality(chars) : s[i] = x
  BY <1>2, SortedIs
<1>4. \A i, j \in 1..Cardinality(chars) : s[i] = s[j] => i = j
  BY <1>2, SortedOnce
<1> HIDE DEF s, chars
<1>5. Strings!ToSet(s) = chars
  BY <1>3 DEF Strings!ToSet
<1> QED BY <1>1, <1>3, <1>4, <1>5 DEF Distinct, chars

(* What is drawn is made of the charset, in any case of as much as asked.  *)
LEMMA MaxAllowed ==
  ASSUME NEW len \in Nat \ {0}
  PROVE  /\ Strings!maxAllowedRNGValue(len) \in Int
         /\ Strings!maxAllowedRNGValue(len) < maxCharsetLen
         /\ Strings!maxAllowedRNGValue(len) = len * (maxCharsetLen \div len) - 1
         /\ maxCharsetLen \div len \in Nat
         /\ len <= maxCharsetLen => maxCharsetLen \div len >= 1
<1> DEFINE q == maxCharsetLen \div len
           r == maxCharsetLen % len
<1>1. maxCharsetLen \in Nat \ {0}
  BY CallsAssumption
<1>2. q \in Int /\ r \in 0 .. len - 1 /\ maxCharsetLen = len * q + r
  BY <1>1, Divided
<1>3. Strings!maxAllowedRNGValue(len) = q * len - 1
  BY DEF Strings!maxAllowedRNGValue
<1> HIDE DEF q, r
<1>4. q * len = len * q /\ q * len \in Int
  BY <1>2
<1>5. q >= 0
  <2>1. ASSUME q <= -1 PROVE FALSE
    <3>1. len * q <= - len
      BY <1>2, <2>1
    <3> QED BY <1>1, <1>2, <3>1
  <2> QED BY <1>2, <2>1
<1>6. ASSUME len <= maxCharsetLen PROVE q >= 1
  <2>1. ASSUME q = 0 PROVE FALSE
    <3>1. len * q = 0
      BY <2>1
    <3> QED BY <1>1, <1>2, <1>6, <3>1
  <2> QED BY <1>2, <1>5, <2>1
<1> QED BY <1>1, <1>2, <1>3, <1>4, <1>5, <1>6 DEF q

(* What is drawn from a charset is made of its elements.                   *)
LEMMA DrawnType ==
  ASSUME NEW R, NEW runes \in Seq(R), NEW charset \in Seq(R), Len(charset) # 0,
         NEW data \in Seq(Strings!Byte), NEW length \in Nat
  PROVE  Strings!Drawn(runes, data, charset, length) \in Seq(R)
<1> DEFINE len == Len(charset)
           used == Only(data, 0 .. Strings!maxAllowedRNGValue(len))
           more == runes \o [i \in DOMAIN used |-> charset[Strings!Index(used[i], len)]]
<1>1. len \in Nat \ {0}
  OBVIOUS
<1>2. used \in Seq(Strings!Byte)
  BY OnlyType
<1>3. Strings!Drawn(runes, data, charset, length)
        = SubSeq(more, 1, IF Len(more) < length THEN Len(more) ELSE length)
  BY StringsOnly DEF Strings!Drawn
<1> HIDE DEF used
<1>4. ASSUME NEW i \in DOMAIN used PROVE charset[Strings!Index(used[i], len)] \in R
  <2>1. used[i] \in Strings!Byte
    BY <1>2, <1>4
  <2>2. used[i] \in Int
    BY <2>1, CallsAssumption DEF Strings!Byte
  <2>3. used[i] % len \in 0 .. len - 1
    BY <1>1, <2>2, Divided
  <2> HIDE DEF len
  <2>4. Strings!Index(used[i], len) \in 1..len
    BY <1>1, <2>3 DEF Strings!Index
  <2> QED BY <2>4 DEF len
<1> DEFINE drawn == [i \in DOMAIN used |-> charset[Strings!Index(used[i], len)]]
<1>5. drawn \in Seq(R)
  <2>1. DOMAIN used = 1..Len(used) /\ Len(used) \in Nat
    BY <1>2
  <2>2. drawn \in [1..Len(used) -> R]
    BY <1>4, <2>1
  <2> DEFINE n == Len(used)
  <2>3. n \in Nat /\ drawn \in [1..n -> R]
    BY <2>1, <2>2
  <2> HIDE DEF drawn, n
  <2> QED BY <2>3
<1>6. more = runes \o drawn
  OBVIOUS
<1> HIDE DEF drawn, more
<1>7. more \in Seq(R)
  BY <1>5, <1>6
<1> DEFINE e == IF Len(more) < length THEN Len(more) ELSE length
<1>8. e \in 0..Len(more)
  BY <1>7
<1> HIDE DEF e
<1>9. SubSeq(more, 1, e) \in Seq(R)
  BY <1>7, <1>8
<1> QED BY <1>3, <1>9 DEF e

-----------------------------------------------------------------------------
(* Every character is drawn by as many bytes.                              *)
LEMMA SubSeqOfOne == ASSUME NEW x PROVE SubSeq(<<x>>, 1, 1) = <<x>>
<1> DEFINE s == SubSeq(<<x>>, 1, 1)
<1>1. <<x>> \in Seq({x}) /\ Len(<<x>>) = 1 /\ <<x>>[1] = x
  OBVIOUS
<1>2. s \in Seq({x}) /\ Len(s) = 1
  BY <1>1
<1> HIDE DEF s
<1>3. s \in [1..1 -> {x}]
  BY <1>2
<1>4. s = [i \in 1..1 |-> x]
  BY <1>3
<1>5. <<x>> = [i \in 1..1 |-> x]
  OBVIOUS
<1> QED BY <1>4, <1>5 DEF s

(* A byte below the cut draws the character it indexes, another none.      *)
LEMMA OneByte ==
  ASSUME NEW R, NEW charset \in Seq(R), Len(charset) # 0, NEW b \in Strings!Byte
  PROVE  Strings!Drawn(<< >>, <<b>>, charset, 1)
           = IF b <= Strings!maxAllowedRNGValue(Len(charset))
             THEN <<charset[Strings!Index(b, Len(charset))]>> ELSE << >>
<1> DEFINE len == Len(charset)
           max == Strings!maxAllowedRNGValue(len)
           used == Only(<<b>>, 0 .. max)
           drawn == [i \in DOMAIN used |-> charset[Strings!Index(used[i], len)]]
           more == << >> \o drawn
<1>1. Strings!Drawn(<< >>, <<b>>, charset, 1)
        = SubSeq(more, 1, IF Len(more) < 1 THEN Len(more) ELSE 1)
  BY StringsOnly DEF Strings!Drawn
<1>2. len \in Nat \ {0} /\ b \in Nat
  BY CallsAssumption DEF Strings!Byte
<1>3. max \in Int
  BY <1>2, MaxAllowed
<1> HIDE DEF len, max
<1>4. b \in 0 .. max <=> b <= max
  BY <1>2, <1>3
<1>5. used = IF b <= max THEN <<b>> ELSE << >>
  BY <1>4, OnlyOne DEF Kept
<1> HIDE DEF used
<1>6. CASE b <= max
  <2> DEFINE x == charset[Strings!Index(b, len)]
  <2>1. used = <<b>>
    BY <1>5, <1>6
  <2>2. DOMAIN used = 1..1 /\ used[1] = b
    BY <2>1
  <2>3. drawn = [i \in 1..1 |-> x]
    BY <2>2
  <2> HIDE DEF drawn, x
  <2>4. more = <<x>> /\ Len(more) = 1
    BY <2>3
  <2> HIDE DEF more
  <2>5. SubSeq(more, 1, 1) = <<x>>
    BY <2>4, SubSeqOfOne
  <2> QED BY <1>1, <1>6, <2>4, <2>5 DEF x, len, max
<1>7. CASE ~ (b <= max)
  <2>1. DOMAIN used = {}
    BY <1>5, <1>7
  <2>2. drawn = << >>
    BY <2>1
  <2> HIDE DEF drawn
  <2>3. more = << >> /\ Len(more) = 0
    BY <2>2
  <2> HIDE DEF more
  <2>4. SubSeq(more, 1, 0) = << >>
    BY <2>3
  <2> QED BY <1>1, <1>7, <2>3, <2>4 DEF len, max
<1> QED BY <1>6, <1>7

(* Each character of a charset is drawn by as many bytes.                  *)
LEMMA AsLikely ==
  ASSUME NEW R, NEW charset \in Seq(R), Distinct(charset), Len(charset) \in 1..maxCharsetLen,
         NEW i \in 1..Len(charset)
  PROVE  Cardinality(Strings!BytesOf(charset[i], charset)) = maxCharsetLen \div Len(charset)
<1> DEFINE len == Len(charset)
           q == maxCharsetLen \div len
           of == Strings!BytesOf(charset[i], charset)
           byte == [k \in 1..q |-> len * (k - 1) + (i - 1)]
<1>1. len \in Nat \ {0} /\ i \in 1..len /\ maxCharsetLen \in Nat
  BY CallsAssumption
<1>2. /\ Strings!maxAllowedRNGValue(len) = len * q - 1 /\ q \in Nat
      /\ len * q - 1 < maxCharsetLen
  BY <1>1, MaxAllowed
<1>3. ASSUME NEW b \in Strings!Byte
      PROVE  b \in of <=> b < len * q /\ b % len = i - 1
  <2>1. b \in Nat
    BY <1>1, CallsAssumption DEF Strings!Byte
  <2>2. b \in of <=> Strings!Drawn(<< >>, <<b>>, charset, 1) = <<charset[i]>>
    BY DEF Strings!BytesOf
  <2>3. Strings!Index(b, len) \in 1..len /\ Strings!Index(b, len) = (b % len) + 1 /\ b % len \in Int
    <3> HIDE DEF len
    <3>1. b \in Int
      BY <2>1
    <3>2. b % len \in 0 .. len - 1
      BY <1>1, <3>1, Divided
    <3> QED BY <1>1, <3>2 DEF Strings!Index
  <2>4. Strings!Drawn(<< >>, <<b>>, charset, 1)
          = IF b <= len * q - 1 THEN <<charset[Strings!Index(b, len)]>> ELSE << >>
    BY <1>1, <1>2, OneByte
  <2>5. <<charset[Strings!Index(b, len)]>> = <<charset[i]>> <=> Strings!Index(b, len) = i
    <3>1. charset[Strings!Index(b, len)] = charset[i] <=> Strings!Index(b, len) = i
      BY <1>1, <2>3 DEF Distinct
    <3> QED BY <3>1
  <2>6. Strings!Index(b, len) = i <=> b % len = i - 1
    BY <1>1, <2>3
  <2>7. len * q \in Int /\ (b <= len * q - 1 <=> b < len * q)
    BY <1>1, <1>2, <2>1
  <2>8. << >> # <<charset[i]>>
    OBVIOUS
  <2> HIDE DEF of, len, q
  <2> QED BY <2>2, <2>4, <2>5, <2>6, <2>7, <2>8
<1>4. of \subseteq Strings!Byte
  BY DEF Strings!BytesOf
<1> HIDE DEF of, len, q
<1>5. ASSUME NEW k \in 1..q PROVE byte[k] \in of
  <2>1. k - 1 \in Int /\ i - 1 \in 0 .. len - 1
    BY <1>1
  <2>2. byte[k] % len = i - 1
    BY <1>1, <2>1, DividedOnce
  <2>3. len * (k - 1) >= 0 /\ len * (k - 1) \in Int /\ len * q \in Int /\ len * (k - 1) + len <= len * q
    <3>1. k - 1 \in Nat /\ (k - 1) + 1 <= q
      BY <1>2
    <3>2. len * ((k - 1) + 1) <= len * q
      <4>1. q - ((k - 1) + 1) \in Nat /\ q \in Nat
        BY <1>2
      <4>2. len * (q - ((k - 1) + 1)) >= 0
        BY <1>1, <4>1
      <4> QED BY <1>1, <3>1, <4>1, <4>2
    <3> QED BY <1>1, <1>2, <3>1, <3>2
  <2>4. byte[k] \in Int /\ byte[k] >= 0 /\ byte[k] < len * q
    BY <1>1, <2>1, <2>3
  <2>5. byte[k] \in Strings!Byte
    BY <1>1, <1>2, <2>3, <2>4 DEF Strings!Byte
  <2> HIDE DEF byte
  <2> QED BY <1>3, <2>2, <2>4, <2>5
<1>6. byte \in [1..q -> of]
  BY <1>5
<1>7. ASSUME NEW j \in 1..q, NEW k \in 1..q, byte[j] = byte[k] PROVE j = k
  <2>1. len * (j - 1) = len * (k - 1) /\ j \in Int /\ k \in Int
    BY <1>1, <1>2, <1>7
  <2>2. len * (j - k) = 0
    BY <1>1, <2>1
  <2>3. j - k = 0
    <3>1. ASSUME j - k >= 1 PROVE FALSE
      <4>1. len * (j - k) >= len
        BY <1>1, <2>1, <3>1
      <4> QED BY <1>1, <2>2, <4>1
    <3>2. ASSUME j - k <= -1 PROVE FALSE
      <4>1. len * (j - k) <= -len
        BY <1>1, <2>1, <3>2
      <4> QED BY <1>1, <2>2, <4>1
    <3> QED BY <2>1, <3>1, <3>2
  <2> QED BY <2>1, <2>3
<1>8. ASSUME NEW b \in of PROVE \E k \in 1..q : byte[k] = b
  <2> DEFINE k == b \div len
  <2>1. b \in Strings!Byte /\ b \in Nat
    BY <1>4, CallsAssumption DEF Strings!Byte
  <2>2. b < len * q /\ b % len = i - 1
    BY <1>3, <1>8, <2>1
  <2>3. k \in Int /\ b = len * k + (i - 1)
    <3>1. b \in Int
      BY <2>1
    <3> QED BY <1>1, <2>2, <3>1, Divided
  <2> HIDE DEF k
  <2>4. k >= 0
    <3>1. ASSUME k <= -1 PROVE FALSE
      <4>1. len * k <= -len
        BY <1>1, <2>3, <3>1
      <4> QED BY <1>1, <2>1, <2>3, <4>1
    <3> QED BY <2>3, <3>1
  <2>5. k < q
    <3>1. ASSUME k >= q PROVE FALSE
      <4>1. len * (k - q) >= 0
        BY <1>1, <1>2, <2>3, <3>1
      <4>2. len * k >= len * q
        BY <1>1, <1>2, <2>3, <4>1
      <4> QED BY <1>1, <1>2, <2>2, <2>3, <4>2
    <3> QED BY <1>2, <2>3, <3>1
  <2>6. k + 1 \in 1..q /\ (k + 1) - 1 = k
    BY <1>2, <2>3, <2>4, <2>5
  <2>7. byte[k + 1] = len * k + (i - 1)
    BY <2>6
  <2> QED BY <2>3, <2>6, <2>7
<1> HIDE DEF byte
<1>9. byte \in Bijection(1..q, of)
  BY <1>6, <1>7, <1>8 DEF Bijection, Injection, Surjection, IsInjective
<1>10. IsFiniteSet(1..q) /\ Cardinality(1..q) = q
  BY <1>2, FS_Interval
<1>11. Cardinality(of) = Cardinality(1..q)
  BY <1>9, <1>10, FS_Bijection DEF ExistsBijection
<1> QED BY <1>10, <1>11 DEF of, q, len

(* No charset without repetitions has a bias.                              *)
LEMMA Unbiased ==
  ASSUME NEW R, NEW charset \in Seq(R), Distinct(charset)
  PROVE  Strings!NoBias(charset)
<1> SUFFICES ASSUME Len(charset) \in 1..maxCharsetLen
             PROVE  LET chances == {Cardinality(Strings!BytesOf(rune, charset))
                                      : rune \in Strings!ToSet(charset)}
                    IN  Cardinality(chances) = 1 /\ 0 \notin chances
  BY StringsCardinality DEF Strings!NoBias
<1> DEFINE q == maxCharsetLen \div Len(charset)
           chances == {Cardinality(Strings!BytesOf(rune, charset)) : rune \in Strings!ToSet(charset)}
<1>1. \A rune \in Strings!ToSet(charset) : Cardinality(Strings!BytesOf(rune, charset)) = q
  <2>1. ASSUME NEW rune \in Strings!ToSet(charset) PROVE \E i \in 1..Len(charset) : rune = charset[i]
    BY DEF Strings!ToSet
  <2> QED BY <2>1, AsLikely
<1>2. charset[1] \in Strings!ToSet(charset)
  <2>1. 1 \in DOMAIN charset
    BY CallsAssumption
  <2> QED BY <2>1 DEF Strings!ToSet
<1>3. chances = {q}
  BY <1>1, <1>2
<1>4. q >= 1
  <2>1. Len(charset) \in Nat \ {0} /\ Len(charset) <= maxCharsetLen
    BY CallsAssumption
  <2> QED BY <2>1, MaxAllowed
<1> HIDE DEF q, chances
<1>5. Cardinality(chances) = 1
  BY <1>3, FS_Singleton
<1> QED BY <1>3, <1>4, <1>5 DEF chances

-----------------------------------------------------------------------------
(* StringGenerator: generators, with the charset of their rules or none.   *)
Generators == [kind : {"generator"}, Length : Nat, Rules : Seq(Rule), charset : Seq(Int)]

Filled(g) == g.charset = Strings!getChars(g.Rules)

(* validateConfig fills in the charset of the rules, once and for all.     *)
LEMMA WithCharsetIs ==
  ASSUME NEW g \in Generators, g.charset = << >> \/ Filled(g)
  PROVE  /\ Strings!WithCharset(g) \in Generators /\ Filled(Strings!WithCharset(g))
         /\ Strings!WithCharset(g).Length = g.Length /\ Strings!WithCharset(g).Rules = g.Rules
         /\ Filled(g) => Strings!WithCharset(g) = g
         /\ Strings!Invalid(Strings!WithCharset(g)) <=> Strings!Invalid(g)
<1> DEFINE h == Strings!WithCharset(g)
           chars == Strings!getChars(g.Rules)
<1>1. g.Rules \in Seq(Rule)
  BY DEF Generators
<1>2. chars \in Seq(Int)
  <2>1. chars \in Seq(CharsOf(g.Rules)) /\ CharsOf(g.Rules) \subseteq Int
    BY <1>1, CharsetIs, CharsFinite
  <2> HIDE DEF chars
  <2> QED BY <2>1
<1>3. h = [g EXCEPT !.charset = IF g.charset = << >> THEN chars ELSE g.charset]
  BY DEF Strings!WithCharset
<1> HIDE DEF h
<1>4. h = [g EXCEPT !.charset = chars]
  BY <1>3 DEF Filled
<1>5. h \in Generators /\ h.charset = chars /\ h.Length = g.Length /\ h.Rules = g.Rules
  <2> HIDE DEF chars
  <2> QED BY <1>2, <1>4 DEF Generators
<1>6. Filled(h)
  BY <1>5 DEF Filled
<1>7. Filled(g) => h = g
  BY <1>4 DEF Filled, Generators
<1>8. Strings!WithCharset(h) = h
  <2>1. Strings!WithCharset(h) = [h EXCEPT !.charset = IF h.charset = << >> THEN chars ELSE h.charset]
    BY <1>5 DEF Strings!WithCharset
  <2>2. Strings!WithCharset(h) = [h EXCEPT !.charset = chars]
    BY <1>5, <2>1
  <2> HIDE DEF chars
  <2> QED BY <1>5, <2>2 DEF Generators
<1>9. Strings!Invalid(h) <=> Strings!Invalid(g)
  BY <1>5, <1>8 DEF Strings!Invalid, h
<1> QED BY <1>5, <1>6, <1>7, <1>9 DEF h

(* The charset of a valid generator: not empty, and all of it printable.   *)
LEMMA ValidCharset ==
  ASSUME NEW g \in Generators, Filled(g), ~ Strings!Invalid(g)
  PROVE  /\ g.charset \in Seq(CharsOf(g.Rules)) /\ Len(g.charset) # 0
         /\ CharsOf(g.Rules) \cap NonPrintable = {}
<1>1. g.Rules \in Seq(Rule)
  BY DEF Generators
<1>2. /\ g.charset \in Seq(CharsOf(g.Rules))
      /\ Strings!ToSet(g.charset) = CharsOf(g.Rules)
  BY <1>1, CharsetIs DEF Filled
<1>3. Strings!WithCharset(g) = g
  BY WithCharsetIs
<1>4. g.charset # << >> /\ Strings!ToSet(g.charset) \cap NonPrintable = {}
  BY <1>3 DEF Strings!Invalid
<1>5. Len(g.charset) # 0
  BY <1>2, <1>4
<1> QED BY <1>2, <1>4, <1>5

(* Rules that are parsed, and written as JSON and parsed again.            *)
LEMMA RulesParsed ==
  ASSUME NEW raws \in Seq(Strings!RawRule), Strings!parseRules(raws).kind # "error"
  PROVE  Strings!parseRules(raws).rules \in Seq(Strings!CharsetRule)
<1>1. \A i \in DOMAIN raws : ~ Strings!RuleFails(raws[i])
  BY DEF Strings!parseRules, Strings!Error
<1>2. Strings!parseRules(raws).rules = [i \in DOMAIN raws |-> raws[i].blocks[1]]
  BY <1>1 DEF Strings!parseRules
<1>3. ASSUME NEW i \in 1..Len(raws) PROVE raws[i].blocks[1] \in Strings!CharsetRule
  <2>1. raws[i] \in Strings!RawRule
    OBVIOUS
  <2>2. raws[i].blocks # << >> /\ raws[i].type = "charset" /\ raws[i].utf8
    BY <1>1 DEF Strings!RuleFails
  <2>3. raws[i].blocks \in Strings!SeqOf(Strings!CharsetRule, 1)
    <3>1. ASSUME NEW r, raws[i] = [type |-> "charset", blocks |-> <<r>>, utf8 |-> FALSE] PROVE FALSE
      <4>1. raws[i].utf8 = FALSE
        BY <3>1
      <4> QED BY <2>2, <4>1
    <3>2. ASSUME raws[i] = [type |-> "own", blocks |-> <<Strings!OwnRule>>, utf8 |-> TRUE] PROVE FALSE
      <4>1. raws[i].type = "own"
        BY <3>2
      <4> QED BY <2>2, <4>1
    <3>3. raws[i] \in [type : {"charset"}, blocks : Strings!SeqOf(Strings!CharsetRule, 1), utf8 : {TRUE}]
      BY <2>1, <3>1, <3>2, Zenon DEF Strings!RawRule
    <3> QED BY <3>3
  <2>4. PICK m \in 0..1 : raws[i].blocks \in [1..m -> Strings!CharsetRule]
    BY <2>3 DEF Strings!SeqOf
  <2>5. CASE m = 0
    <3>1. raws[i].blocks = << >>
      BY <2>4, <2>5
    <3> QED BY <2>2, <3>1
  <2>6. CASE m = 1
    BY <2>4, <2>6
  <2> QED BY <2>4, <2>5, <2>6
<1>4. [i \in DOMAIN raws |-> raws[i].blocks[1]] \in Seq(Strings!CharsetRule)
  <2>1. DOMAIN raws = 1..Len(raws) /\ Len(raws) \in Nat
    OBVIOUS
  <2>2. [i \in DOMAIN raws |-> raws[i].blocks[1]] \in [1..Len(raws) -> Strings!CharsetRule]
    BY <1>3, <2>1
  <2> QED BY <2>1, <2>2
<1> QED BY <1>2, <1>4

(* Rules written as JSON are parsed as they were.                          *)
LEMMA RulesSurvive ==
  ASSUME NEW rules \in Seq(Strings!CharsetRule)
  PROVE  Strings!parseRules(Strings!MarshalRules(rules)).rules = rules
<1> DEFINE raws == Strings!MarshalRules(rules)
<1>1. DOMAIN raws = DOMAIN rules
  BY DEF Strings!MarshalRules
<1>2. ASSUME NEW i \in DOMAIN rules PROVE raws[i].blocks[1] = rules[i] /\ ~ Strings!RuleFails(raws[i])
  <2>1. rules[i] \in Strings!CharsetRule
    OBVIOUS
  <2>2. raws[i] = [type |-> rules[i].type, blocks |-> <<rules[i]>>, utf8 |-> TRUE]
    BY DEF Strings!MarshalRules
  <2>3. rules[i].type = "charset"
    BY <2>1 DEF Strings!CharsetRule
  <2>4. <<rules[i]>> # << >> /\ <<rules[i]>>[1] = rules[i]
    OBVIOUS
  <2> HIDE DEF raws
  <2> QED BY <2>2, <2>3, <2>4 DEF Strings!RuleFails
<1> HIDE DEF raws
<1>3. Strings!parseRules(raws).rules = [i \in DOMAIN raws |-> raws[i].blocks[1]]
  BY <1>1, <1>2 DEF Strings!parseRules
<1>4. [i \in DOMAIN raws |-> raws[i].blocks[1]] = [i \in DOMAIN rules |-> rules[i]]
  BY <1>1, <1>2
<1>5. [i \in DOMAIN rules |-> rules[i]] = rules
  OBVIOUS
<1> QED BY <1>3, <1>4, <1>5 DEF raws

-----------------------------------------------------------------------------
(* StringGenerator: the invariant.  What a generator was made from, what   *)
(* it is, and what is known of a call at each of its places.               *)
SourceOK ==
  \/ source.how = "policy" /\ source.rules \in Seq(Strings!RawRule) /\ source.length \in Nat
  \/ source.how = "program" /\ source.rules \in Seq(Rule) /\ source.length \in Nat
  \/ source.how = "base62"

GeneratorOK ==
  \/ generator = Strings!NotMade
  \/ generator.kind = "error"
  \/ /\ generator \in Generators /\ source.how # "base62"
     /\ generator.charset = << >> \/ Filled(generator)
     /\ source.how = "policy" =>
          /\ Filled(generator) /\ ~ Strings!Invalid(generator)
          /\ generator.Rules \in Seq(Strings!CharsetRule)

Reasons == {"invalid", "timed out", "charset too long", "reader"}

Outcome ==
  {Strings!NotMade} \cup [kind : {"error"}, what : Reasons]
  \cup [kind : {"rules", "base62"}, runes : Seq(Int)]

CallState ==
  [pc : {"idle", "loop", "drawing", "base62", "returned"}, length : Nat, runes : Seq(Int),
   expired : BOOLEAN, result : Outcome]

Passed(runes) ==
  /\ generator \in Generators /\ Len(runes) = generator.Length
  /\ \A i \in DOMAIN generator.Rules : Strings!Pass(generator.Rules[i], runes)
  /\ Strings!ToSet(runes) \subseteq CharsOf(generator.Rules) \ NonPrintable

Ready(length) ==
  /\ generator \in Generators /\ Filled(generator) /\ ~ Strings!Invalid(generator)
  /\ length = generator.Length

CallOK(c) ==
  /\ call[c] \in CallState
  /\ call[c].pc # "returned" => call[c].result = Strings!NotMade
  /\ call[c].pc = "idle" => call[c].runes = << >>
  /\ call[c].pc \in {"loop", "drawing"} => Ready(call[c].length)
  /\ call[c].pc = "drawing" => call[c].runes \in Seq(CharsOf(generator.Rules))
  /\ call[c].pc = "base62" => call[c].runes \in Seq(1..Base62)
  /\ call[c].result.kind = "rules" => Passed(call[c].result.runes)
  /\ call[c].result.kind = "base62" =>
       call[c].result.runes \in Seq(1..Base62) /\ Len(call[c].result.runes) \in {0, call[c].length}

StringsInv ==
  /\ SourceOK /\ GeneratorOK
  /\ call \in [Caller -> CallState] /\ \A c \in Caller : CallOK(c)

(* Lists of bounded length are lists.                                      *)
LEMMA SeqOfIsSeq ==
  ASSUME NEW S, NEW n \in Nat, NEW s \in Strings!SeqOf(S, n) PROVE s \in Seq(S)
<1>1. PICK m \in 0..n : s \in [1..m -> S]
  BY DEF Strings!SeqOf
<1> QED BY <1>1

(* Nothing is made and nobody has called.                                  *)
LEMMA StringsInit == Strings!Init => StringsInv
<1> SUFFICES ASSUME Strings!Init PROVE StringsInv
  OBVIOUS
<1>1. SourceOK
  <2>1. \/ source \in [how : {"policy"}, decodes : BOOLEAN, length : 0..MaxLength,
                       rules : Strings!SeqOf(Strings!RawRule, 2)]
        \/ source \in [how : {"program"}, length : 0..MaxLength,
                       rules : Strings!SeqOf(Rule, 2)]
        \/ source \in [how : {"base62"}]
    BY Zenon DEF Strings!Init, Rule
  <2>2. 0..MaxLength \subseteq Nat
    BY CallsAssumption
  <2>3. ASSUME source \in [how : {"policy"}, decodes : BOOLEAN, length : 0..MaxLength,
                           rules : Strings!SeqOf(Strings!RawRule, 2)]
        PROVE  source.how = "policy" /\ source.rules \in Seq(Strings!RawRule) /\ source.length \in Nat
    <3>1. source.how = "policy" /\ source.rules \in Strings!SeqOf(Strings!RawRule, 2) /\ source.length \in Nat
      BY <2>2, <2>3
    <3> QED BY <3>1, SeqOfIsSeq
  <2>4. ASSUME source \in [how : {"program"}, length : 0..MaxLength, rules : Strings!SeqOf(Rule, 2)]
        PROVE  source.how = "program" /\ source.rules \in Seq(Rule) /\ source.length \in Nat
    <3>1. source.how = "program" /\ source.rules \in Strings!SeqOf(Rule, 2) /\ source.length \in Nat
      BY <2>2, <2>4
    <3> QED BY <3>1, SeqOfIsSeq
  <2> QED BY <2>1, <2>3, <2>4 DEF SourceOK
<1>2. GeneratorOK
  BY DEF Strings!Init, GeneratorOK
<1>3. Strings!Idle \in CallState
  BY DEF Strings!Idle, CallState, Outcome
<1>4. call = [c \in Caller |-> Strings!Idle]
  BY DEF Strings!Init
<1>5. ASSUME NEW c \in Caller PROVE CallOK(c)
  <2>1. call[c] = Strings!Idle
    BY <1>4
  <2>2. /\ Strings!Idle.pc = "idle" /\ Strings!Idle.result = Strings!NotMade
        /\ Strings!Idle.runes = << >>
        /\ Strings!NotMade.kind = "not made"
    BY DEF Strings!Idle, Strings!NotMade
  <2> QED BY <1>3, <2>1, <2>2 DEF CallOK
<1> QED BY <1>1, <1>2, <1>3, <1>4, <1>5 DEF StringsInv

(* A generator that was made only gets its charset; a call goes on being   *)
(* what it was beside another.                                             *)
GoesOn ==
  /\ source' = source
  /\ generator' \in {generator, Strings!WithCharset(generator)} \/ generator = Strings!NotMade

(* The fields of a generator stay, and so does a charset it has.           *)
LEMMA GeneratorGoesOn ==
  ASSUME StringsInv, GoesOn, generator \in Generators
  PROVE  /\ generator' \in Generators
         /\ generator'.Length = generator.Length /\ generator'.Rules = generator.Rules
         /\ Filled(generator) => generator' = generator
<1>1. generator.kind = "generator"
  BY DEF Generators
<1>2. generator # Strings!NotMade /\ generator.kind # "error"
  <2>1. Strings!NotMade.kind = "not made"
    BY DEF Strings!NotMade
  <2> QED BY <1>1, <2>1
<1>3. generator.charset = << >> \/ Filled(generator)
  BY <1>2 DEF StringsInv, GeneratorOK
<1>4. generator' \in {generator, Strings!WithCharset(generator)}
  BY <1>2 DEF GoesOn
<1> QED BY <1>3, <1>4, WithCharsetIs

(* A generator that a call has validated stays as it is.                   *)
LEMMA ReadyStays ==
  ASSUME StringsInv, GoesOn, NEW length, Ready(length) PROVE Ready(length)' /\ generator' = generator
<1>1. generator \in Generators /\ Filled(generator)
  BY DEF Ready
<1>2. generator' = generator
  BY <1>1, GeneratorGoesOn
<1> QED BY <1>2 DEF Ready, Filled

(* What is known of a call outlives another call's step.                   *)
LEMMA OthersStay ==
  ASSUME StringsInv, GoesOn, NEW d \in Caller, call'[d] = call[d] PROVE CallOK(d)'
<1>1. CallOK(d)
  BY DEF StringsInv
<1>2. ASSUME call[d].pc \in {"loop", "drawing"} PROVE Ready(call[d].length)' /\ generator' = generator
  <2>1. Ready(call[d].length)
    BY <1>1, <1>2 DEF CallOK
  <2> DEFINE length == call[d].length
  <2>2. call'[d].length = length
    OBVIOUS
  <2> HIDE DEF length
  <2>3. Ready(length)
    BY <2>1 DEF length
  <2>4. generator' = generator
    BY <2>3, ReadyStays
  <2> QED BY <2>1, <2>2, <2>4 DEF Ready, Filled
<1>3. ASSUME call[d].result.kind = "rules" PROVE Passed(call[d].result.runes)'
  <2>1. Passed(call[d].result.runes)
    BY <1>1, <1>3 DEF CallOK
  <2>2. generator \in Generators
    BY <2>1 DEF Passed
  <2>3. generator' \in Generators /\ generator'.Length = generator.Length
        /\ generator'.Rules = generator.Rules
    BY <2>2, GeneratorGoesOn
  <2> QED BY <2>1, <2>3 DEF Passed
<1> QED BY <1>1, <1>2, <1>3 DEF CallOK

(* Lists over a smaller set are lists over a larger one.                   *)
LEMMA SeqInto ==
  ASSUME NEW A, NEW B, A \subseteq B, NEW s \in Seq(A) PROVE s \in Seq(B)
OBVIOUS

(* The elements of a list over a set are in the set.                       *)
LEMMA ItsElements ==
  ASSUME NEW A, NEW s \in Seq(A) PROVE Strings!ToSet(s) \subseteq A
BY DEF Strings!ToSet

(* Computing the charset keeps a generator what it was made as.            *)
LEMMA GeneratorStays ==
  ASSUME StringsInv, GoesOn, generator' = generator \/ generator \in Generators
  PROVE  GeneratorOK'
<1>1. CASE generator' = generator
  BY <1>1 DEF StringsInv, GoesOn, GeneratorOK, Filled
<1>2. CASE generator \in Generators
  <2>1. generator # Strings!NotMade /\ generator.kind # "error"
    <3>1. Strings!NotMade.kind = "not made" /\ generator.kind = "generator"
      BY <1>2 DEF Strings!NotMade, Generators
    <3> QED BY <3>1
  <2>2. /\ source.how # "base62" /\ (generator.charset = << >> \/ Filled(generator))
        /\ source.how = "policy" =>
             /\ Filled(generator) /\ ~ Strings!Invalid(generator)
             /\ generator.Rules \in Seq(Strings!CharsetRule)
    BY <2>1 DEF StringsInv, GeneratorOK
  <2>3. generator' \in {generator, Strings!WithCharset(generator)} /\ source' = source
    BY <2>1 DEF GoesOn
  <2>4. CASE generator' = Strings!WithCharset(generator)
    <3> DEFINE g == Strings!WithCharset(generator)
    <3>1. g \in Generators /\ Filled(g) /\ (Filled(generator) => g = generator)
      BY <1>2, <2>2, WithCharsetIs
    <3> HIDE DEF g
    <3>2. generator' = g
      BY <2>4 DEF g
    <3> QED BY <2>2, <2>3, <3>1, <3>2 DEF GeneratorOK, Filled
  <2> QED BY <1>1, <2>3, <2>4
<1> QED BY <1>1, <1>2

(* A step of one call.                                                     *)
LEMMA OneCallSteps ==
  ASSUME StringsInv, GoesOn, GeneratorOK', NEW c \in Caller, NEW new \in CallState,
         call' = [call EXCEPT ![c] = new], CallOK(c)'
  PROVE  StringsInv'
<1>1. SourceOK'
  BY DEF StringsInv, SourceOK, GoesOn
<1>2. call' \in [Caller -> CallState]
  BY DEF StringsInv
<1>3. ASSUME NEW d \in Caller, d # c PROVE CallOK(d)'
  <2>1. call'[d] = call[d]
    BY <1>3 DEF StringsInv
  <2> QED BY <2>1, OthersStay
<1> QED BY <1>1, <1>2, <1>3 DEF StringsInv

(* A call may return what meets the invariant.                             *)
LEMMA Finishes ==
  ASSUME StringsInv, GoesOn, GeneratorOK', NEW c \in Caller, NEW res \in Outcome,
         Strings!Finish(c, res),
         res.kind = "rules" => Passed(res.runes) /\ generator' = generator,
         res.kind = "base62" => res.runes \in Seq(1..Base62) /\ Len(res.runes) \in {0, call[c].length}
  PROVE  StringsInv'
<1> DEFINE new == [call[c] EXCEPT !.pc = "returned", !.result = res]
<1>1. call \in [Caller -> CallState] /\ call[c] \in CallState
  BY DEF StringsInv
<1>2. call' = [call EXCEPT ![c] = new]
  BY <1>1 DEF Strings!Finish
<1>3. /\ new \in CallState
      /\ new.pc = "returned" /\ new.result = res /\ new.length = call[c].length
  BY <1>1 DEF CallState
<1> HIDE DEF new
<1>4. call'[c] = new
  BY <1>1, <1>2
<1>5. CallOK(c)'
  BY <1>3, <1>4 DEF CallOK, Passed
<1> QED BY <1>2, <1>3, <1>5, OneCallSteps

(* An error is a result, and none of the others.                           *)
LEMMA Failures ==
  ASSUME NEW what \in Reasons
  PROVE  /\ Strings!Error(what) \in Outcome /\ Strings!Error(what).kind = "error"
         /\ Strings!Error(what) # Strings!NotMade
<1>1. Strings!Error(what) \in Outcome /\ Strings!Error(what).kind = "error"
  BY DEF Strings!Error, Outcome
<1>2. Strings!NotMade.kind = "not made"
  BY DEF Strings!NotMade
<1> QED BY <1>1, <1>2

(* A call may return an error.                                             *)
LEMMA Fails ==
  ASSUME StringsInv, GoesOn, GeneratorOK', NEW c \in Caller, NEW what \in Reasons,
         Strings!Finish(c, Strings!Error(what))
  PROVE  StringsInv'
<1>1. Strings!Error(what) \in Outcome /\ Strings!Error(what).kind = "error"
  BY Failures
<1> QED BY <1>1, Finishes

(* ParsePolicy and a generator that a program fills in.                    *)
LEMMA MakeKeeps ==
  ASSUME StringsInv, Strings!Make PROVE StringsInv'
<1>1. generator = Strings!NotMade /\ source.how # "base62" /\ source' = source /\ call' = call
  BY DEF Strings!Make
<1>2. GoesOn
  BY <1>1 DEF GoesOn
<1>3. CASE source.how = "policy"
  <2> DEFINE parsed == Strings!parseRules(source.rules)
             g == Strings!Made(source.length, parsed.rules)
  <2>1. source.rules \in Seq(Strings!RawRule) /\ source.length \in Nat
    BY <1>3 DEF StringsInv, SourceOK
  <2>2. generator' = Strings!ParsePolicy(source)
    BY <1>3 DEF Strings!Make
  <2>3. \/ generator'.kind = "error"
        \/ parsed.kind # "error" /\ ~ Strings!Invalid(g) /\ generator' = Strings!WithCharset(g)
    BY <2>2 DEF Strings!ParsePolicy, Strings!Error
  <2>4. ASSUME parsed.kind # "error", ~ Strings!Invalid(g), generator' = Strings!WithCharset(g)
        PROVE  GeneratorOK'
    <3>1. parsed.rules \in Seq(Strings!CharsetRule)
      BY <2>1, <2>4, RulesParsed
    <3>2. parsed.rules \in Seq(Rule)
      <4>1. Strings!CharsetRule \subseteq Rule
        BY DEF Rule
      <4> HIDE DEF parsed
      <4> QED BY <3>1, <4>1
    <3> HIDE DEF parsed
    <3>3. g \in Generators /\ g.charset = << >> /\ g.Rules = parsed.rules
      BY <2>1, <3>2 DEF Strings!Made, Generators
    <3> HIDE DEF g
    <3> DEFINE h == Strings!WithCharset(g)
    <3>4. h \in Generators /\ Filled(h) /\ h.Rules = parsed.rules /\ ~ Strings!Invalid(h)
      BY <2>4, <3>3, WithCharsetIs
    <3>5. generator' = h
      BY <2>4
    <3> HIDE DEF h
    <3> QED BY <1>1, <3>1, <3>4, <3>5 DEF GeneratorOK, Filled
  <2>5. ASSUME generator'.kind = "error" PROVE GeneratorOK'
    BY <2>5 DEF GeneratorOK
  <2>6. GeneratorOK'
    BY <2>3, <2>4, <2>5
  <2>7. \A d \in Caller : CallOK(d)'
    BY <1>1, <1>2, OthersStay
  <2> QED BY <1>1, <2>6, <2>7 DEF StringsInv, SourceOK
<1>4. CASE source.how = "program"
  <2>1. source.rules \in Seq(Rule) /\ source.length \in Nat
    BY <1>4 DEF StringsInv, SourceOK
  <2>2. generator' = Strings!Made(source.length, source.rules)
    BY <1>4 DEF Strings!Make
  <2>3. generator' \in Generators /\ generator'.charset = << >>
    BY <2>1, <2>2 DEF Strings!Made, Generators
  <2>4. GeneratorOK'
    BY <1>1, <1>4, <2>3 DEF GeneratorOK
  <2>5. \A d \in Caller : CallOK(d)'
    BY <1>1, <1>2, OthersStay
  <2> QED BY <1>1, <2>4, <2>5 DEF StringsInv, SourceOK
<1> QED BY <1>1, <1>3, <1>4 DEF StringsInv, SourceOK

(* The start of Generate, which computes the charset.                      *)
LEMMA GenerateKeeps ==
  ASSUME StringsInv, NEW c \in Caller, Strings!Generate(c) PROVE StringsInv'
<1> DEFINE h == Strings!WithCharset(generator)
<1>1. call[c].pc = "idle" /\ generator.kind = "generator" /\ source' = source /\ generator' = h
  BY DEF Strings!Generate
<1>2. generator \in Generators /\ (generator.charset = << >> \/ Filled(generator))
  <2>1. Strings!NotMade.kind = "not made"
    BY DEF Strings!NotMade
  <2> QED BY <1>1, <2>1 DEF StringsInv, GeneratorOK
<1>3. GoesOn
  BY <1>1 DEF GoesOn
<1>4. GeneratorOK'
  BY <1>2, <1>3, GeneratorStays
<1>5. CASE Strings!Invalid(generator)
  <2>1. Strings!Finish(c, Strings!Error("invalid"))
    BY <1>5 DEF Strings!Generate
  <2>2. "invalid" \in Reasons
    BY DEF Reasons
  <2> QED BY <1>3, <1>4, <2>1, <2>2, Fails
<1>6. CASE ~ Strings!Invalid(generator)
  <2> DEFINE new == [call[c] EXCEPT !.pc = "loop", !.length = generator.Length]
  <2>1. call \in [Caller -> CallState] /\ call[c] \in CallState /\ CallOK(c)
    BY DEF StringsInv
  <2>2. call' = [call EXCEPT ![c] = new]
    BY <1>6, <2>1 DEF Strings!Generate
  <2>3. generator.Length \in Nat
    BY <1>2 DEF Generators
  <2>4. /\ new \in CallState /\ new.pc = "loop" /\ new.length = generator.Length
        /\ new.result = Strings!NotMade
    BY <1>1, <2>1, <2>3 DEF CallState, CallOK
  <2> HIDE DEF new
  <2>5. h \in Generators /\ Filled(h) /\ ~ Strings!Invalid(h) /\ h.Length = generator.Length
    BY <1>2, <1>6, WithCharsetIs
  <2> HIDE DEF h
  <2>6. call'[c] = new
    BY <2>1, <2>2
  <2>7. Strings!NotMade.kind = "not made"
    BY DEF Strings!NotMade
  <2>8. CallOK(c)'
    BY <1>1, <2>4, <2>5, <2>6, <2>7 DEF CallOK, Ready, Filled
  <2> QED BY <1>3, <1>4, <2>2, <2>4, <2>8, OneCallSteps
<1> QED BY <1>5, <1>6

(* The calls that leave the generator alone.                               *)
LEMMA Steady == ASSUME StringsInv, UNCHANGED <<source, generator>> PROVE GoesOn /\ GeneratorOK'
<1>1. GoesOn
  BY DEF GoesOn
<1> QED BY <1>1, GeneratorStays

(* The check of the context between two candidates.                        *)
LEMMA LoopKeeps ==
  ASSUME StringsInv, NEW c \in Caller, Strings!Loop(c) PROVE StringsInv'
<1>1. call[c].pc = "loop" /\ UNCHANGED <<source, generator>>
  BY DEF Strings!Loop
<1>2. GoesOn /\ GeneratorOK'
  BY <1>1, Steady
<1>3. CASE \E what \in Reasons : Strings!Finish(c, Strings!Error(what))
  BY <1>2, <1>3, Fails
<1>4. CASE call' = [call EXCEPT ![c].pc = "drawing", ![c].runes = << >>]
  <2> DEFINE new == [call[c] EXCEPT !.pc = "drawing", !.runes = << >>]
  <2>1. call \in [Caller -> CallState] /\ call[c] \in CallState /\ CallOK(c)
    BY DEF StringsInv
  <2>2. call' = [call EXCEPT ![c] = new]
    BY <1>4, <2>1
  <2>9. << >> \in Seq(Int)
    OBVIOUS
  <2>3. /\ new \in CallState /\ new.pc = "drawing" /\ new.length = call[c].length
        /\ new.result = Strings!NotMade /\ new.runes = << >>
    BY <1>1, <2>1, <2>9 DEF CallState, CallOK
  <2> HIDE DEF new
  <2>4. Ready(call[c].length)
    BY <1>1, <2>1 DEF CallOK
  <2>5. call'[c] = new
    BY <2>1, <2>2
  <2>6. Strings!NotMade.kind = "not made"
    BY DEF Strings!NotMade
  <2>7. << >> \in Seq(CharsOf(generator.Rules))
    OBVIOUS
  <2>8. CallOK(c)'
    BY <1>1, <2>3, <2>4, <2>5, <2>6, <2>7 DEF CallOK, Ready, Filled, CharsOf
  <2> QED BY <1>2, <2>2, <2>3, <2>8, OneCallSteps
<1> QED BY <1>3, <1>4 DEF Strings!Loop, Reasons

(* Some bytes are read, and a full candidate is judged.                    *)
LEMMA DrawKeeps ==
  ASSUME StringsInv, NEW c \in Caller, NEW data \in Seq(Strings!Byte), Strings!Draw(c, data)
  PROVE  StringsInv'
<1> DEFINE runes == Strings!Drawn(call[c].runes, data, generator.charset, call[c].length)
           R == CharsOf(generator.Rules)
<1>1. call[c].pc = "drawing" /\ UNCHANGED <<source, generator>>
  BY DEF Strings!Draw
<1>2. GoesOn /\ GeneratorOK'
  BY <1>1, Steady
<1>3. call \in [Caller -> CallState] /\ call[c] \in CallState /\ CallOK(c)
  BY DEF StringsInv
<1>4. /\ generator \in Generators /\ Filled(generator) /\ ~ Strings!Invalid(generator)
      /\ call[c].length = generator.Length /\ call[c].length \in Nat
      /\ call[c].runes \in Seq(R)
  BY <1>1, <1>3 DEF CallOK, Ready, CallState
<1>5. generator.charset \in Seq(R) /\ Len(generator.charset) # 0 /\ R \cap NonPrintable = {}
  BY <1>4, ValidCharset
<1>6. R \subseteq Int
  <2>1. generator.Rules \in Seq(Rule)
    BY <1>4 DEF Generators
  <2> QED BY <2>1, CharsFinite
<1> HIDE DEF R
<1>7. runes \in Seq(R)
  BY <1>4, <1>5, DrawnType
<1>8. runes \in Seq(Int)
  <2> HIDE DEF runes
  <2> QED BY <1>6, <1>7, SeqInto
<1>9. CASE /\ Strings!Finish(c, Strings!String("rules", runes)) /\ Len(runes) = call[c].length
           /\ \A i \in DOMAIN generator.Rules : Strings!Pass(generator.Rules[i], runes)
  <2> DEFINE res == Strings!String("rules", runes)
  <2> HIDE DEF runes
  <2>1. res \in Outcome /\ res.kind = "rules" /\ res.runes = runes
    BY <1>8 DEF Strings!String, Outcome
  <2>2. Strings!ToSet(runes) \subseteq R
    BY <1>7, ItsElements
  <2>3. Passed(runes)
    BY <1>4, <1>5, <1>9, <2>2 DEF Passed, R
  <2> HIDE DEF res
  <2>4. Strings!Finish(c, res)
    BY <1>9 DEF res
  <2> QED BY <1>1, <1>2, <2>1, <2>3, <2>4, Finishes
<1>10. CASE \E place \in {"loop", "drawing"}, kept \in {<< >>, runes} :
              call' = [call EXCEPT ![c].pc = place, ![c].runes = kept]
  <2> HIDE DEF runes
  <2>1. PICK place \in {"loop", "drawing"}, kept \in {<< >>, runes} :
           call' = [call EXCEPT ![c].pc = place, ![c].runes = kept]
    BY <1>10
  <2> DEFINE new == [call[c] EXCEPT !.pc = place, !.runes = kept]
  <2>2. call' = [call EXCEPT ![c] = new]
    BY <1>3, <2>1
  <2>3. kept \in Seq(Int) /\ kept \in Seq(R)
    <3>1. << >> \in Seq(Int) /\ << >> \in Seq(R)
      OBVIOUS
    <3>2. kept = << >> \/ kept = runes
      OBVIOUS
    <3> QED BY <1>7, <1>8, <3>1, <3>2
  <2>4. /\ new \in CallState /\ new.pc = place /\ new.length = call[c].length
        /\ new.result = Strings!NotMade /\ new.runes = kept
    BY <1>1, <1>3, <2>3 DEF CallState, CallOK
  <2> HIDE DEF new
  <2>5. call'[c] = new
    BY <1>3, <2>2
  <2>6. Strings!NotMade.kind = "not made"
    BY DEF Strings!NotMade
  <2>7. CallOK(c)'
    BY <1>1, <1>4, <2>3, <2>4, <2>5, <2>6 DEF CallOK, Ready, Filled, CharsOf, R
  <2> QED BY <1>2, <2>2, <2>4, <2>7, OneCallSteps
<1>11. CASE Len(runes) = call[c].length
  <2>1. \/ /\ Strings!Finish(c, Strings!String("rules", runes))
           /\ \A i \in DOMAIN generator.Rules : Strings!Pass(generator.Rules[i], runes)
        \/ call' = [call EXCEPT ![c].pc = "loop", ![c].runes = << >>]
    BY <1>11 DEF Strings!Draw
  <2> QED BY <1>9, <1>10, <1>11, <2>1
<1>12. CASE Len(runes) # call[c].length
  <2>1. call' = [call EXCEPT ![c].pc = "drawing", ![c].runes = runes]
    <3>1. call' = [call EXCEPT ![c].pc = call[c].pc, ![c].runes = runes]
      BY <1>3, <1>12 DEF Strings!Draw
    <3> QED BY <1>1, <3>1
  <2> QED BY <1>10, <2>1
<1> QED BY <1>11, <1>12

(* The start of base62.Random.                                             *)
LEMMA RandomKeeps ==
  ASSUME StringsInv, NEW c \in Caller, NEW length \in 0..MaxLength, Strings!Random(c, length)
  PROVE  StringsInv'
<1>1. call[c].pc = "idle" /\ source.how = "base62" /\ UNCHANGED <<source, generator>>
  BY DEF Strings!Random
<1>2. GoesOn /\ GeneratorOK'
  BY <1>1, Steady
<1>3. call \in [Caller -> CallState] /\ call[c] \in CallState /\ CallOK(c)
  BY DEF StringsInv
<1>4. CASE length = 0
  <2> DEFINE res == Strings!String("base62", << >>)
  <2>1. /\ res \in Outcome /\ res.kind = "base62" /\ res.runes = << >> /\ Len(res.runes) = 0
        /\ res.runes \in Seq(1..Base62)
    BY DEF Strings!String, Outcome
  <2> HIDE DEF res
  <2>2. Strings!Finish(c, res)
    BY <1>4 DEF Strings!Random, res
  <2> QED BY <1>2, <2>1, <2>2, Finishes
<1>5. CASE length # 0
  <2> DEFINE new == [call[c] EXCEPT !.pc = "base62", !.length = length]
  <2>1. call' = [call EXCEPT ![c] = new]
    BY <1>3, <1>5 DEF Strings!Random
  <2>2. length \in Nat
    BY CallsAssumption
  <2>3. /\ new \in CallState /\ new.pc = "base62" /\ new.result = Strings!NotMade
        /\ new.runes = call[c].runes
    BY <1>1, <1>3, <2>2 DEF CallState, CallOK
  <2> HIDE DEF new
  <2>4. call'[c] = new
    BY <1>3, <2>1
  <2>5. Strings!NotMade.kind = "not made"
    BY DEF Strings!NotMade
  <2>6. call[c].runes = << >>
    BY <1>1, <1>3 DEF CallOK
  <2>7. << >> \in Seq(1..Base62)
    OBVIOUS
  <2>8. CallOK(c)'
    BY <2>3, <2>4, <2>5, <2>6, <2>7 DEF CallOK
  <2> QED BY <1>2, <2>1, <2>3, <2>8, OneCallSteps
<1> QED BY <1>4, <1>5

(* A batch of bytes for base62.                                            *)
LEMMA BatchKeeps ==
  ASSUME StringsInv, NEW c \in Caller, NEW data \in Seq(Strings!Byte), Strings!Batch(c, data)
  PROVE  StringsInv'
<1> DEFINE runes == Strings!Drawn(call[c].runes, data, Strings!Base62Charset, call[c].length)
<1>1. call[c].pc = "base62" /\ UNCHANGED <<source, generator>>
  BY DEF Strings!Batch
<1>2. GoesOn /\ GeneratorOK'
  BY <1>1, Steady
<1>3. call \in [Caller -> CallState] /\ call[c] \in CallState /\ CallOK(c)
  BY DEF StringsInv
<1>4. call[c].length \in Nat /\ call[c].runes \in Seq(1..Base62)
  BY <1>1, <1>3 DEF CallOK, CallState
<1>5. Strings!Base62Charset \in Seq(1..Base62) /\ Len(Strings!Base62Charset) # 0
  BY CallsAssumption DEF Strings!Base62Charset
<1>6. runes \in Seq(1..Base62)
  BY <1>4, <1>5, DrawnType
<1>7. runes \in Seq(Int)
  <2> HIDE DEF runes
  <2> QED BY <1>6, CallsAssumption
<1>8. CASE Len(runes) = call[c].length
  <2> DEFINE res == Strings!String("base62", runes)
  <2>1. Strings!Finish(c, res)
    BY <1>8 DEF Strings!Batch
  <2> HIDE DEF runes
  <2>2. res \in Outcome /\ res.kind = "base62" /\ res.runes = runes
    BY <1>7 DEF Strings!String, Outcome
  <2> HIDE DEF res
  <2> QED BY <1>2, <1>6, <1>8, <2>1, <2>2, Finishes
<1>9. CASE Len(runes) # call[c].length
  <2> DEFINE new == [call[c] EXCEPT !.runes = runes]
  <2>1. call' = [call EXCEPT ![c] = new]
    BY <1>3, <1>9 DEF Strings!Batch
  <2> HIDE DEF runes
  <2>2. /\ new \in CallState /\ new.pc = "base62" /\ new.result = Strings!NotMade
        /\ new.runes = runes
    BY <1>1, <1>3, <1>7 DEF CallState, CallOK
  <2> HIDE DEF new
  <2>3. call'[c] = new
    BY <1>3, <2>1
  <2>4. Strings!NotMade.kind = "not made"
    BY DEF Strings!NotMade
  <2>5. CallOK(c)'
    BY <1>6, <2>2, <2>3, <2>4 DEF CallOK
  <2> QED BY <1>2, <2>1, <2>2, <2>5, OneCallSteps
<1> QED BY <1>8, <1>9

(* The context of a call ends.                                             *)
LEMMA ExpireKeeps ==
  ASSUME StringsInv, NEW c \in Caller, Strings!Expire(c) PROVE StringsInv'
<1> DEFINE new == [call[c] EXCEPT !.expired = TRUE]
<1>1. call[c].pc \in {"loop", "drawing"} /\ UNCHANGED <<source, generator>>
  BY DEF Strings!Expire
<1>2. GoesOn /\ GeneratorOK'
  BY <1>1, Steady
<1>3. call \in [Caller -> CallState] /\ call[c] \in CallState /\ CallOK(c)
  BY DEF StringsInv
<1>4. call' = [call EXCEPT ![c] = new]
  BY <1>3 DEF Strings!Expire
<1>5. /\ new \in CallState /\ new.pc = call[c].pc /\ new.result = call[c].result
      /\ new.runes = call[c].runes /\ new.length = call[c].length
  BY <1>3 DEF CallState
<1> HIDE DEF new
<1>6. call'[c] = new
  BY <1>3, <1>4
<1>7. CallOK(c)'
  BY <1>1, <1>3, <1>5, <1>6 DEF CallOK, Ready, Passed, Filled, CharsOf
<1> QED BY <1>2, <1>4, <1>5, <1>7, OneCallSteps

(* Every step of a generator and its callers keeps the invariant.          *)
LEMMA StringsPreserved ==
  ASSUME StringsInv, [Strings!Next]_(Strings!vars) PROVE StringsInv'
<1> DEFINE most == (3 * MaxLength) \div 2
<1>1. CASE UNCHANGED Strings!vars
  <2>1. source' = source /\ generator' = generator /\ call' = call
    BY <1>1 DEF Strings!vars
  <2>2. SourceOK' /\ GeneratorOK'
    BY <2>1 DEF StringsInv, SourceOK, GeneratorOK, Ready, Passed, Filled, CharsOf
  <2>3. ASSUME NEW c \in Caller PROVE CallOK(c)'
    <3>1. CallOK(c)
      BY DEF StringsInv
    <3> QED BY <2>1, <3>1 DEF CallOK, Ready, Passed, Filled, CharsOf
  <2> QED BY <2>1, <2>2, <2>3 DEF StringsInv
<1>2. CASE Strings!Make
  BY <1>2, MakeKeeps
<1>3. ASSUME NEW c \in Caller,
             Strings!Generate(c) \/ Strings!Loop(c) \/ Strings!ReadError(c) \/ Strings!Expire(c)
      PROVE  StringsInv'
  <2>1. CASE Strings!ReadError(c)
    <3>1. UNCHANGED <<source, generator>> /\ Strings!Finish(c, Strings!Error("reader"))
      BY <2>1 DEF Strings!ReadError
    <3>2. "reader" \in Reasons
      BY DEF Reasons
    <3> QED BY <3>1, <3>2, Steady, Fails
  <2> QED BY <1>3, <2>1, GenerateKeeps, LoopKeeps, ExpireKeeps
<1>4. ASSUME NEW c \in Caller, NEW length \in 0..MaxLength, Strings!Random(c, length) PROVE StringsInv'
  BY <1>4, RandomKeeps
<1>5. ASSUME NEW c \in Caller, NEW data \in Strings!SeqOf(Strings!Byte, most),
             Strings!Draw(c, data) \/ Strings!Batch(c, data)
      PROVE  StringsInv'
  <2>1. most \in Nat
    BY CallsAssumption
  <2>2. data \in Seq(Strings!Byte)
    <3> HIDE DEF most
    <3> QED BY <2>1, SeqOfIsSeq
  <2> QED BY <1>5, <2>2, DrawKeeps, BatchKeeps
<1> QED BY <1>1, <1>2, <1>3, <1>4, <1>5 DEF Strings!Next

(* The invariant implies what GeneratedSound says.                         *)
LEMMA StringsSound == StringsInv => GeneratedSound
<1> SUFFICES ASSUME StringsInv PROVE Strings!GeneratedSound
  BY DEF GeneratedSound
<1>1. Strings!NoBias(Strings!Base62Charset)
  <2>1. Strings!Base62Charset \in Seq(1..Base62) /\ Distinct(Strings!Base62Charset)
    BY CallsAssumption DEF Strings!Base62Charset, Distinct
  <2> QED BY <2>1, Unbiased
<1>2. ASSUME generator.kind = "generator"
      PROVE  /\ generator.charset \in {<< >>, Strings!getChars(generator.Rules)}
             /\ Strings!NoBias(generator.charset)
             /\ source.how = "policy" =>
                  /\ ~ Strings!Invalid(generator) /\ generator.charset # << >>
                  /\ Strings!parseRules(Strings!MarshalRules(generator.Rules)).rules = generator.Rules
  <2>1. Strings!NotMade.kind = "not made"
    BY DEF Strings!NotMade
  <2>2. /\ generator \in Generators /\ (generator.charset = << >> \/ Filled(generator))
        /\ source.how = "policy" =>
             /\ Filled(generator) /\ ~ Strings!Invalid(generator)
             /\ generator.Rules \in Seq(Strings!CharsetRule)
    BY <1>2, <2>1 DEF StringsInv, GeneratorOK
  <2>3. generator.Rules \in Seq(Rule)
    BY <2>2 DEF Generators
  <2>4. CASE generator.charset = << >>
    <3>1. << >> \in Seq(Int) /\ Distinct(<< >>)
      BY DEF Distinct
    <3>2. Strings!NoBias(<< >>)
      BY <3>1, Unbiased
    <3>3. source.how # "policy"
      <4>1. ASSUME source.how = "policy" PROVE FALSE
        <5>1. generator.charset # << >>
          BY <2>2, <4>1, ValidCharset
        <5> QED BY <2>4, <5>1
      <4> QED BY <4>1
    <3> QED BY <2>4, <3>2, <3>3
  <2>5. CASE Filled(generator)
    <3>1. /\ generator.charset \in Seq(CharsOf(generator.Rules)) /\ Distinct(generator.charset)
      BY <2>3, <2>5, CharsetIs DEF Filled
    <3>2. Strings!NoBias(generator.charset)
      BY <3>1, Unbiased
    <3>3. source.how = "policy" => generator.charset # << >>
      BY <2>2, ValidCharset
    <3>4. source.how = "policy" =>
            Strings!parseRules(Strings!MarshalRules(generator.Rules)).rules = generator.Rules
      BY <2>2, RulesSurvive
    <3>5. generator.charset = Strings!getChars(generator.Rules)
      BY <2>5 DEF Filled
    <3> QED BY <2>2, <3>2, <3>3, <3>4, <3>5
  <2> QED BY <2>2, <2>4, <2>5
<1>3. ASSUME NEW c \in Caller, call[c].result.kind = "rules"
      PROVE  /\ Len(call[c].result.runes) = generator.Length
             /\ \A i \in DOMAIN generator.Rules :
                  Strings!Pass(generator.Rules[i], call[c].result.runes)
             /\ Strings!ToSet(call[c].result.runes)
                  \subseteq (UNION {r.chars : r \in Strings!ToSet(generator.Rules)}) \ NonPrintable
  <2>1. Passed(call[c].result.runes)
    BY <1>3 DEF StringsInv, CallOK
  <2>2. UNION {r.chars : r \in Strings!ToSet(generator.Rules)} = CharsOf(generator.Rules)
    BY DEF CharsOf, Strings!ToSet
  <2> QED BY <2>1, <2>2 DEF Passed
<1>4. ASSUME NEW c \in Caller, call[c].result.kind = "base62"
      PROVE  /\ Len(call[c].result.runes) \in {0, call[c].length}
             /\ Strings!ToSet(call[c].result.runes) \subseteq 1..Base62
  <2>1. call[c].result.runes \in Seq(1..Base62) /\ Len(call[c].result.runes) \in {0, call[c].length}
    BY <1>4 DEF StringsInv, CallOK
  <2> DEFINE runes == call[c].result.runes
  <2>2. runes \in Seq(1..Base62)
    BY <2>1
  <2> HIDE DEF runes
  <2>3. Strings!ToSet(runes) \subseteq 1..Base62
    BY <2>2, ItsElements
  <2> QED BY <2>1, <2>3 DEF runes
<1> QED BY <1>1, <1>2, <1>3, <1>4 DEF Strings!GeneratedSound

-----------------------------------------------------------------------------
(* MCCalls: a behaviour of it is one of each.                              *)
LEMMA Projections == MCSpec => Spec /\ Keys!Spec /\ Strings!Spec /\ Prompt!Spec
<1>1. MCInit => Init /\ Keys!Init /\ Strings!Init /\ Prompt!Init
  BY DEF MCInit
<1> USE DEF MCNext, allVars, OfPermit, OfKeys, keysVars, stringsVars, promptVars,
            vars, Keys!vars, Keys!history, Strings!vars, Prompt!vars
<1>2. [MCNext]_allVars => [Next]_vars
  OBVIOUS
<1>3. [MCNext]_allVars => [Keys!Next]_(Keys!vars)
  OBVIOUS
<1>4. [MCNext]_allVars => [Strings!Next]_(Strings!vars)
  OBVIOUS
<1>5. [MCNext]_allVars => [Prompt!Next]_(Prompt!vars)
  OBVIOUS
<1> QED BY <1>1, <1>2, <1>3, <1>4, <1>5, PTL
        DEF MCSpec, Spec, Keys!Spec, Strings!Spec, Prompt!Spec

(* Types.                                                                  *)
THEOREM Typed == MCSpec => []TypesOK
BY Projections, TypeCorrect, KeysTyped, PTL DEF TypesOK

(* password: unless Read is called beside the goroutine of an interrupted  *)
(* one, no key is echoed while a Read reads, the terminal is set back      *)
(* whichever way the reading ends, and Read returns the whole line typed   *)
(* for it, and nothing of another's (Read, read, readline).                *)
THEOREM ReadUnseenAndWhole == ASSUME ~ AfterInterrupt PROVE MCSpec => []PasswordSound
<1>1. Prompt!Spec => []PromptInv
  BY PromptInit, PromptPreserved, PTL DEF Prompt!Spec
<1>2. PromptInv => PasswordSound
  <2> SUFFICES ASSUME PromptInv PROVE Prompt!PasswordSound
    BY DEF PasswordSound
  <2>1. (\A c \in Prompt!Call : ~ Prompt!Reading(c)) => mode = "normal"
    BY DEF PromptInv, Hidden
  <2>2. ASSUME NEW c \in Prompt!Call, result[c].err = ""
        PROVE  result[c].text = Prompt!removeiTermDelete(Prompt!LineFrom(start[c]))
    <3>1. /\ reader[c].pc = "done" /\ reader[c].result.err = ""
          /\ result[c].text = Prompt!removeiTermDelete(reader[c].result.text)
      BY <2>2 DEF PromptInv, ResultOf
    <3>2. Whole(reader[c].result.text, start[c])
      BY <3>1 DEF PromptInv, LineOf
    <3> DEFINE text == reader[c].result.text
               n == start[c]
    <3>3. text = Prompt!LineFrom(n)
      BY <3>2, WholeIsLine
    <3> QED BY <3>1, <3>3
  <2>3. ~ echoed
    BY DEF PromptInv
  <2> QED BY <2>1, <2>2, <2>3 DEF Prompt!PasswordSound, Prompt!NotEchoed
<1> QED BY <1>1, <1>2, Projections, PTL

(* random, base62: what Generate and base62.Random return has the length   *)
(* asked for and only printable characters of the rules (of base62's), and *)
(* passes every rule, whichever caller computes the charset and however    *)
(* often the reader stops half way; every character of a charset is drawn  *)
(* by as many bytes; a parsed generator is valid, and survives being       *)
(* written as JSON (Generate, randomRunes, ParsePolicy, MarshalJSON).      *)
THEOREM GeneratedAsAsked == MCSpec => []GeneratedSound
<1>1. Strings!Spec => []StringsInv
  BY StringsInit, StringsPreserved, PTL DEF Strings!Spec
<1> QED BY <1>1, StringsSound, Projections, PTL
=============================================================================

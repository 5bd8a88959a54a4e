------------------------- MODULE SyncMapNonceProofs -------------------------
(***************************************************************************)
(* Proofs about SyncMapNonce, for any issuers, redeemers, nonces, validity *)
(* and bounds.                                                             *)
(***************************************************************************)
EXTENDS SyncMapNonce, TLAPS

Gets ==
  [pc : {"idle", "store", "load", "lower", "count"}, nonce : Nonce \cup {None},
   then : Int, loaded : Int]
Redeems == [pc : {"idle", "judge"}, nonce : Nonce \cup {None}, timeout : Int]
Tidies ==
  [pc : {"idle", "range", "visit", "finish"}, now : Int, nextRun : Int, outstanding : Int,
   nonce : Nonce \cup {None}, timeout : Int, found : SUBSET Nonce]

Types ==
  /\ clock \in Nat
  /\ get \in [Issuer -> Gets] /\ redeem \in [Redeemer -> Redeems] /\ tidy \in Tidies
  /\ Stored \subseteq Nonce /\ \A n \in Stored : nonces[n] \in Int
  /\ Issued \subseteq Nonce /\ DOMAIN expiryOf = Issued
  /\ \A n \in Issued : redemptions[n] \in Nat /\ expiryOf[n] \in Int

(* Nonces on their way to a client are different, and nobody has them.     *)
Fresh ==
  \A p \in Issuer : get[p].pc # "idle" =>
    /\ get[p].nonce \in Nonce /\ get[p].nonce \notin Issued
    /\ get[p].pc = "store" => get[p].nonce \notin Stored
    /\ \A q \in Issuer : get[q].pc # "idle" /\ get[q].nonce = get[p].nonce => q = p

(* n expires at t: Get has stored it so, and it never does so again.       *)
Past == {"load", "lower", "count"}
Known(n, t) ==
  \/ n \in Issued /\ expiryOf[n] = t
  \/ \E p \in Issuer : get[p].pc \in Past /\ get[p].nonce = n /\ get[p].then = t

StoredKnown == \A n \in Stored : Known(n, nonces[n])

(* Whoever took a nonce out of the map is the only one to judge it.        *)
Taken ==
  \A p \in Redeemer : redeem[p].pc = "judge" =>
    /\ redeem[p].nonce \in Issued \ Stored
    /\ redemptions[redeem[p].nonce] = 0 /\ expiryOf[redeem[p].nonce] = redeem[p].timeout
    /\ \A q \in Redeemer : redeem[q].pc = "judge" /\ redeem[q].nonce = redeem[p].nonce => q = p

Spent == \A n \in Issued : redemptions[n] # 0 => n \notin Stored

(* Tidy does not remove what a Get is about to return, unless it expired.  *)
Kept ==
  \A p \in Issuer : get[p].pc \in Past /\ clock <= get[p].then => get[p].nonce \in Stored

TidyKnows ==
  /\ tidy.pc \in {"range", "visit"} => tidy.now <= clock
  /\ tidy.pc = "visit" => Known(tidy.nonce, tidy.timeout)

IInv ==
  /\ Types /\ Fresh /\ StoredKnown /\ Taken /\ Spent /\ Kept /\ TidyKnows
  /\ HonoursReturnedExpiry

LEMMA InitEstablishes == Init => IInv
<1> SUFFICES ASSUME Init PROVE IInv
  OBVIOUS
<1>1. Stored = {} /\ Issued = {} /\ DOMAIN expiryOf = {}
  BY DEF Init, Stored, Issued
<1>2. /\ IdleGet \in Gets /\ IdleRedeem \in Redeems /\ IdleTidy \in Tidies
      /\ IdleGet.pc = "idle" /\ IdleRedeem.pc = "idle" /\ IdleTidy.pc = "idle"
  BY DEF IdleGet, IdleRedeem, IdleTidy, Gets, Redeems, Tidies
<1>3. /\ \A p \in Issuer : get[p].pc = "idle"
      /\ \A p \in Redeemer : redeem[p].pc = "idle"
      /\ tidy.pc = "idle"
  BY <1>2 DEF Init
<1>4. Types
  BY <1>1, <1>2 DEF Init, Types
<1>5. Fresh /\ StoredKnown /\ Taken /\ Spent /\ Kept /\ TidyKnows /\ HonoursReturnedExpiry
  BY <1>1, <1>3 DEF Fresh, StoredKnown, Taken, Spent, Kept, TidyKnows, HonoursReturnedExpiry, Past
<1> QED BY <1>4, <1>5 DEF IInv

-----------------------------------------------------------------------------
(* Get.                                                                    *)
Started(n) == [pc |-> "store", nonce |-> n, then |-> clock + Validity, loaded |-> 0]

LEMMA StartOfGet ==
  ASSUME NEW n
  PROVE  [IdleGet EXCEPT !.pc = "store", !.nonce = n, !.then = clock + Validity] = Started(n)
<1> DEFINE one == [IdleGet EXCEPT !.pc = "store"]
           two == [one EXCEPT !.nonce = n]
<1>1. one = [pc |-> "store", nonce |-> None, then |-> 0, loaded |-> 0]
  BY DEF IdleGet
<1>2. two = [pc |-> "store", nonce |-> n, then |-> 0, loaded |-> 0]
  <2> HIDE DEF one
  <2> QED BY <1>1
<1>3. [two EXCEPT !.then = clock + Validity] = Started(n)
  <2> HIDE DEF two
  <2> QED BY <1>2 DEF Started
<1> QED BY <1>3, Zenon

LEMMA GetStartPreserves ==
  ASSUME IInv, NEW p \in Issuer, GetStart(p)
  PROVE  IInv'
<1>1. PICK n \in Nonce \ Seen : get' = [get EXCEPT ![p] = Started(n)]
  BY StartOfGet, Zenon DEF GetStart
<1>2. /\ Started(n) \in Gets /\ Started(n).pc = "store" /\ Started(n).nonce = n
  BY TimeAssumption, <1>1 DEF Started, Gets, IInv, Types
<1>3. /\ get[p].pc = "idle" /\ n \notin Stored /\ n \notin Issued
      /\ \A q \in Issuer : get[q].pc # "idle" => get[q].nonce # n
      /\ UNCHANGED <<clock, nonces, redeem, tidy, expiryOf, redemptions>>
  BY <1>1 DEF GetStart, Seen, InFlight, shared, history
<1>4. Stored' = Stored /\ Issued' = Issued
  BY <1>3 DEF Stored, Issued
<1>5. get' \in [Issuer -> Gets] /\ get'[p] = Started(n) /\ \A q \in Issuer : q # p => get'[q] = get[q]
  BY <1>1, <1>2 DEF IInv, Types
<1>6. \A m, t : Known(m, t) => Known(m, t)'
  BY <1>3, <1>4, <1>5 DEF Known, Past
<1>7. Types'
  BY <1>3, <1>4, <1>5 DEF IInv, Types
<1>8. Fresh'
  BY <1>1, <1>2, <1>3, <1>4, <1>5 DEF IInv, Fresh
<1>9. StoredKnown' /\ TidyKnows'
  BY <1>3, <1>4, <1>6 DEF IInv, StoredKnown, TidyKnows
<1>10. Kept'
  BY <1>2, <1>3, <1>4, <1>5 DEF IInv, Kept, Past
<1>11. Taken' /\ Spent' /\ HonoursReturnedExpiry'
  BY <1>3, <1>4 DEF IInv, Taken, Spent, HonoursReturnedExpiry
<1> QED BY <1>7, <1>8, <1>9, <1>10, <1>11 DEF IInv

(* What moving on inside a Get changes of it.                              *)
LEMMA GetMoves ==
  ASSUME IInv, NEW p \in Issuer, NEW s \in Past, get' = [get EXCEPT ![p].pc = s]
  PROVE  /\ get' \in [Issuer -> Gets]
         /\ get'[p].pc = s /\ get'[p].nonce = get[p].nonce /\ get'[p].then = get[p].then
         /\ \A q \in Issuer : q # p => get'[q] = get[q]
<1>1. get[p] \in Gets /\ get \in [Issuer -> Gets]
  BY DEF IInv, Types
<1>2. get'[p] = [get[p] EXCEPT !.pc = s] /\ get' = [get EXCEPT ![p] = get'[p]]
  BY <1>1
<1>3. get'[p] \in Gets /\ get'[p].pc = s /\ get'[p].nonce = get[p].nonce /\ get'[p].then = get[p].then
  BY <1>1, <1>2 DEF Gets, Past
<1> QED BY <1>1, <1>2, <1>3

LEMMA GetStorePreserves ==
  ASSUME IInv, NEW p \in Issuer, GetStore(p)
  PROVE  IInv'
<1>0. PICK n, t : n = get[p].nonce /\ t = get[p].then
  OBVIOUS
<1>1. /\ get[p].pc = "store" /\ nonces' = With(nonces, n, t)
      /\ get' = [get EXCEPT ![p].pc = "load"]
      /\ UNCHANGED <<clock, redeem, tidy, expiryOf, redemptions>>
  BY <1>0 DEF GetStore, history
<1>2. /\ n \in Nonce /\ n \notin Issued /\ n \notin Stored /\ t \in Int
      /\ \A q \in Issuer : get[q].pc # "idle" /\ get[q].nonce = n => q = p
  BY <1>0, <1>1 DEF IInv, Fresh, Types, Gets
<1>3. /\ get' \in [Issuer -> Gets] /\ get'[p].pc = "load" /\ get'[p].nonce = n /\ get'[p].then = t
      /\ \A q \in Issuer : q # p => get'[q] = get[q]
  BY <1>0, <1>1, GetMoves DEF Past
<1>4. /\ Stored' = Stored \cup {n} /\ Issued' = Issued
      /\ nonces'[n] = t /\ \A m \in Stored : nonces'[m] = nonces[m]
  <2>1. /\ DOMAIN With(nonces, n, t) = Stored \cup {n} /\ With(nonces, n, t)[n] = t
        /\ \A m \in Stored : m # n => With(nonces, n, t)[m] = nonces[m]
    BY DEF With, Stored
  <2> QED BY <1>1, <1>2, <2>1 DEF Stored, Issued
<1>5. Known(n, t)' /\ \A m, u : Known(m, u) => Known(m, u)'
  <2>1. Known(n, t)'
    BY <1>3 DEF Known, Past
  <2>2. \A q \in Issuer : get[q].pc \in Past => get'[q] = get[q]
    BY <1>1, <1>3 DEF Past
  <2>3. \A m, u : Known(m, u) => Known(m, u)'
    BY <1>1, <1>4, <2>2 DEF Known
  <2> QED BY <2>1, <2>3
<1>6. Types'
  BY <1>1, <1>2, <1>3, <1>4 DEF IInv, Types
<1>7. Fresh'
  BY <1>1, <1>2, <1>3, <1>4 DEF IInv, Fresh
<1>8. StoredKnown' /\ TidyKnows'
  <2>1. ASSUME NEW m \in Stored' PROVE Known(m, nonces[m])'
    <3>1. CASE m = n
      BY <1>4, <1>5, <3>1
    <3>2. CASE m # n
      BY <1>4, <1>5, <3>2 DEF IInv, StoredKnown
    <3> QED BY <3>1, <3>2
  <2>2. TidyKnows'
    BY <1>1, <1>5 DEF IInv, TidyKnows
  <2> QED BY <2>1, <2>2 DEF StoredKnown
<1>9. Kept'
  BY <1>1, <1>3, <1>4 DEF IInv, Kept, Past
<1>10. Taken' /\ Spent' /\ HonoursReturnedExpiry'
  BY <1>1, <1>2, <1>4 DEF IInv, Taken, Spent, HonoursReturnedExpiry
<1> QED BY <1>6, <1>7, <1>8, <1>9, <1>10 DEF IInv

LEMMA GetLoadPreserves ==
  ASSUME IInv, NEW p \in Issuer, GetLoad(p) \/ GetLower(p)
  PROVE  IInv'
<1>1. /\ get[p].pc \in Past /\ \E s \in Past : get' = [get EXCEPT ![p].pc = s]
      /\ UNCHANGED <<clock, nonces, redeem, tidy, expiryOf, redemptions>>
  BY DEF GetLoad, GetLower, Past, shared, history
<1>2. PICK s \in Past : get' = [get EXCEPT ![p].pc = s]
  BY <1>1
<1>3. /\ get' \in [Issuer -> Gets]
      /\ get'[p].pc = s /\ get'[p].nonce = get[p].nonce /\ get'[p].then = get[p].then
      /\ \A q \in Issuer : q # p => get'[q] = get[q]
  BY <1>2, GetMoves
<1>4. /\ \A q \in Issuer : /\ get'[q].pc \in Past <=> get[q].pc \in Past
                           /\ get'[q].pc = "idle" <=> get[q].pc = "idle"
                           /\ get'[q].pc = "store" <=> get[q].pc = "store"
                           /\ get'[q].nonce = get[q].nonce /\ get'[q].then = get[q].then
      /\ Stored' = Stored /\ Issued' = Issued
  BY <1>1, <1>3 DEF Past, Stored, Issued
<1>5. \A m, u : Known(m, u) => Known(m, u)'
  BY <1>1, <1>4 DEF Known
<1>6. Types'
  BY <1>1, <1>3, <1>4 DEF IInv, Types
<1>7. Fresh' /\ Kept'
  BY <1>1, <1>4 DEF IInv, Fresh, Kept
<1>8. StoredKnown' /\ TidyKnows'
  BY <1>1, <1>4, <1>5 DEF IInv, StoredKnown, TidyKnows
<1>9. Taken' /\ Spent' /\ HonoursReturnedExpiry'
  BY <1>1, <1>4 DEF IInv, Taken, Spent, HonoursReturnedExpiry
<1> QED BY <1>6, <1>7, <1>8, <1>9 DEF IInv

(* What a Get that returns does to what clients and the map know.          *)
LEMMA GetReturnPreserves ==
  ASSUME IInv, NEW p \in Issuer, GetReturn(p)
  PROVE  IInv'
<1>0. PICK n, t : n = get[p].nonce /\ t = get[p].then
  OBVIOUS
<1>1. /\ get[p].pc = "count" /\ expiryOf' = With(expiryOf, n, t)
      /\ redemptions' = With(redemptions, n, 0) /\ get' = [get EXCEPT ![p] = IdleGet]
      /\ UNCHANGED <<clock, nonces, redeem, tidy>>
  BY <1>0 DEF GetReturn
<1>2. /\ n \in Nonce /\ n \notin Issued /\ t \in Int
      /\ \A q \in Issuer : get[q].pc # "idle" /\ get[q].nonce = n => q = p
  BY <1>0, <1>1 DEF IInv, Fresh, Types, Gets
<1>3. IdleGet \in Gets /\ IdleGet.pc = "idle"
  BY DEF IdleGet, Gets
<1>4. /\ get' \in [Issuer -> Gets] /\ get'[p].pc = "idle"
      /\ \A q \in Issuer : q # p => get'[q] = get[q]
  BY <1>1, <1>3 DEF IInv, Types
<1>5. DOMAIN expiryOf = Issued
  BY DEF IInv, Types
<1>6. /\ Stored' = Stored /\ Issued' = Issued \cup {n} /\ DOMAIN expiryOf' = Issued'
      /\ expiryOf'[n] = t /\ redemptions'[n] = 0
      /\ \A m \in Issued : expiryOf'[m] = expiryOf[m] /\ redemptions'[m] = redemptions[m]
  <2>1. /\ DOMAIN With(expiryOf, n, t) = Issued \cup {n} /\ With(expiryOf, n, t)[n] = t
        /\ \A m \in Issued : m # n => With(expiryOf, n, t)[m] = expiryOf[m]
    BY <1>5 DEF With
  <2>2. /\ DOMAIN With(redemptions, n, 0) = Issued \cup {n} /\ With(redemptions, n, 0)[n] = 0
        /\ \A m \in Issued : m # n => With(redemptions, n, 0)[m] = redemptions[m]
    BY DEF With, Issued
  <2> QED BY <1>1, <1>2, <2>1, <2>2 DEF Stored, Issued
<1>7. clock <= t => n \in Stored
  BY <1>0, <1>1 DEF IInv, Kept, Past
<1>8. \A m, u : Known(m, u) => Known(m, u)'
  <2> SUFFICES ASSUME NEW m, NEW u, Known(m, u) PROVE Known(m, u)'
    OBVIOUS
  <2>1. CASE m \in Issued /\ expiryOf[m] = u
    BY <1>6, <2>1 DEF Known
  <2>2. ASSUME NEW q \in Issuer, get[q].pc \in Past, get[q].nonce = m, get[q].then = u
        PROVE  Known(m, u)'
    <3>1. CASE q = p
      BY <1>0, <1>6, <2>2, <3>1 DEF Known
    <3>2. CASE q # p
      BY <1>4, <2>2, <3>2 DEF Known, Past
    <3> QED BY <3>1, <3>2
  <2> QED BY <2>1, <2>2 DEF Known
<1>9. Types'
  BY <1>1, <1>2, <1>4, <1>6 DEF IInv, Types
<1>10. Fresh'
  BY <1>1, <1>2, <1>4, <1>6 DEF IInv, Fresh
<1>11. StoredKnown' /\ TidyKnows'
  BY <1>1, <1>6, <1>8 DEF IInv, StoredKnown, TidyKnows
<1>12. Kept'
  BY <1>1, <1>4, <1>6 DEF IInv, Kept, Past
<1>13. Taken'
  BY <1>1, <1>6 DEF IInv, Taken
<1>14. Spent' /\ HonoursReturnedExpiry'
  BY <1>1, <1>6, <1>7 DEF IInv, Spent, HonoursReturnedExpiry
<1> QED BY <1>9, <1>10, <1>11, <1>12, <1>13, <1>14 DEF IInv

-----------------------------------------------------------------------------
(* Redeem.  Whoever takes a nonce out of the map has it to itself.         *)
LEMMA RedeemTakePreserves ==
  ASSUME IInv, NEW p \in Redeemer, NEW n \in Issued, RedeemTake(p, n)
  PROVE  IInv'
<1>1. /\ redeem[p].pc = "idle" /\ n \in Stored /\ nonces' = Without(nonces, n)
      /\ redeem' = [redeem EXCEPT ![p] = [pc |-> "judge", nonce |-> n, timeout |-> nonces[n]]]
      /\ UNCHANGED <<clock, get, tidy, expiryOf, redemptions>>
  BY DEF RedeemTake, history
<1>2. Stored' = Stored \ {n} /\ Issued' = Issued /\ \A m \in Stored' : nonces'[m] = nonces[m]
  BY <1>1 DEF Without, Stored, Issued
<1>3. /\ redemptions[n] = 0 /\ expiryOf[n] = nonces[n] /\ n \in Nonce /\ nonces[n] \in Int
      /\ \A q \in Issuer : get[q].pc # "idle" => get[q].nonce # n
  <2>1. \A q \in Issuer : get[q].pc # "idle" => get[q].nonce # n
    BY DEF IInv, Fresh
  <2>2. Known(n, nonces[n])
    BY <1>1 DEF IInv, StoredKnown
  <2> QED BY <1>1, <2>1, <2>2 DEF IInv, Types, Spent, Known, Past
<1>4. [pc |-> "judge", nonce |-> n, timeout |-> nonces[n]] \in Redeems
  BY <1>3 DEF Redeems
<1>5. /\ redeem' \in [Redeemer -> Redeems]
      /\ redeem'[p].pc = "judge" /\ redeem'[p].nonce = n /\ redeem'[p].timeout = nonces[n]
      /\ \A q \in Redeemer : q # p => redeem'[q] = redeem[q]
  BY <1>1, <1>4 DEF IInv, Types
<1>6. \A m, u : Known(m, u) => Known(m, u)'
  BY <1>1, <1>2 DEF Known
<1>7. Types'
  BY <1>1, <1>2, <1>5 DEF IInv, Types
<1>8. Fresh' /\ Kept' /\ Spent'
  BY <1>1, <1>2, <1>3 DEF IInv, Fresh, Kept, Spent, Past
<1>9. StoredKnown' /\ TidyKnows'
  BY <1>1, <1>2, <1>6 DEF IInv, StoredKnown, TidyKnows
<1>10. Taken'
  BY <1>1, <1>2, <1>3, <1>5 DEF IInv, Taken
<1>11. HonoursReturnedExpiry'
  <2> SUFFICES ASSUME NEW m \in Issued', redemptions'[m] = 0, clock' <= expiryOf'[m],
                      m \notin Stored'
               PROVE  \E q \in Redeemer : redeem'[q].pc = "judge" /\ redeem'[q].nonce = m
    BY DEF HonoursReturnedExpiry
  <2>1. CASE m = n
    BY <1>5, <2>1
  <2>2. CASE m # n
    <3>1. PICK q \in Redeemer : redeem[q].pc = "judge" /\ redeem[q].nonce = m
      BY <1>1, <1>2, <2>2 DEF IInv, HonoursReturnedExpiry
    <3>2. q # p
      BY <1>1, <3>1
    <3> QED BY <1>5, <3>1, <3>2
  <2> QED BY <2>1, <2>2
<1> QED BY <1>7, <1>8, <1>9, <1>10, <1>11 DEF IInv

LEMMA RedeemJudgePreserves ==
  ASSUME IInv, NEW p \in Redeemer, RedeemJudge(p)
  PROVE  IInv'
<1>1. PICK n \in Issued \ Stored :
        /\ n = redeem[p].nonce /\ redemptions[n] = 0 /\ expiryOf[n] = redeem[p].timeout
        /\ \A q \in Redeemer : redeem[q].pc = "judge" /\ redeem[q].nonce = n => q = p
  BY DEF RedeemJudge, IInv, Taken
<1>2. /\ redemptions' = IF clock > expiryOf[n] THEN redemptions
                        ELSE [redemptions EXCEPT ![n] = @ + 1]
      /\ redeem' = [redeem EXCEPT ![p] = IdleRedeem]
      /\ UNCHANGED <<clock, nonces, get, tidy, expiryOf>>
  BY <1>1 DEF RedeemJudge, shared
<1>3. /\ Stored' = Stored /\ Issued' = Issued
      /\ \A m \in Issued : m # n => redemptions'[m] = redemptions[m]
      /\ clock > expiryOf[n] \/ redemptions'[n] # 0
      /\ redemptions'[n] \in Nat
  BY <1>1, <1>2 DEF Stored, Issued
<1>4. IdleRedeem \in Redeems /\ IdleRedeem.pc = "idle"
  BY DEF IdleRedeem, Redeems
<1>5. /\ redeem' \in [Redeemer -> Redeems] /\ redeem'[p].pc = "idle"
      /\ \A q \in Redeemer : q # p => redeem'[q] = redeem[q]
  BY <1>2, <1>4 DEF IInv, Types
<1>6. \A m, u : Known(m, u) => Known(m, u)'
  BY <1>2, <1>3 DEF Known
<1>7. Types'
  BY <1>2, <1>3, <1>5 DEF IInv, Types
<1>8. Fresh' /\ Kept' /\ Spent'
  BY <1>1, <1>2, <1>3 DEF IInv, Fresh, Kept, Spent, Past
<1>9. StoredKnown' /\ TidyKnows'
  BY <1>2, <1>3, <1>6 DEF IInv, StoredKnown, TidyKnows
<1>10. Taken'
  BY <1>1, <1>2, <1>3, <1>5 DEF IInv, Taken
<1>11. HonoursReturnedExpiry'
  <2> SUFFICES ASSUME NEW m \in Issued', redemptions'[m] = 0, clock' <= expiryOf'[m],
                      m \notin Stored'
               PROVE  \E q \in Redeemer : redeem'[q].pc = "judge" /\ redeem'[q].nonce = m
    BY DEF HonoursReturnedExpiry
  <2>1. m # n
    BY <1>2, <1>3 DEF IInv, Types
  <2>2. PICK q \in Redeemer : redeem[q].pc = "judge" /\ redeem[q].nonce = m
    BY <1>2, <1>3, <2>1 DEF IInv, HonoursReturnedExpiry
  <2>3. q # p
    BY <1>1, <2>1, <2>2
  <2> QED BY <1>5, <2>2, <2>3
<1> QED BY <1>7, <1>8, <1>9, <1>10, <1>11 DEF IInv

-----------------------------------------------------------------------------
(* Tidy.  What it removes had expired when it began, and knows when.       *)
LEMMA TidyCallbackPreserves ==
  ASSUME IInv, TidyCallback
  PROVE  IInv'
<1>1. PICK n, t : n = tidy.nonce /\ t = tidy.timeout
  OBVIOUS
<1>2. /\ tidy.pc = "visit" /\ tidy \in Tidies
      /\ UNCHANGED <<clock, get, redeem, expiryOf, redemptions>>
  BY DEF TidyCallback, history, IInv, Types
<1>3. tidy' \in Tidies /\ tidy'.pc = "finish"
  <2> DEFINE next == IF tidy.timeout < tidy.nextRun THEN tidy.timeout ELSE tidy.nextRun
             one == [tidy EXCEPT !.pc = "finish"]
             two == [one EXCEPT !.nextRun = next]
             three == [two EXCEPT !.outstanding = @ + 1]
  <2>1. next \in Int
    BY <1>2 DEF Tidies
  <2>2. one \in Tidies /\ one.pc = "finish"
    BY <1>2 DEF Tidies
  <2>3. two \in Tidies /\ two.pc = "finish"
    <3> HIDE DEF one, next
    <3> QED BY <2>1, <2>2 DEF Tidies
  <2>4. three \in Tidies /\ three.pc = "finish"
    <3> HIDE DEF two
    <3> QED BY <2>3 DEF Tidies
  <2>5. tidy' = two \/ tidy' = three
    BY Zenon DEF TidyCallback
  <2> QED BY <2>3, <2>4, <2>5
<1>4. nonces' = nonces \/ (nonces' = Without(nonces, n) /\ t < clock)
  <2>1. tidy.now <= clock /\ tidy.now \in Int /\ tidy.timeout \in Int /\ clock \in Int
    BY <1>2 DEF IInv, TidyKnows, Types, Tidies
  <2>2. nonces' = nonces \/ (nonces' = Without(nonces, tidy.nonce) /\ tidy.now > tidy.timeout)
    BY DEF TidyCallback
  <2> QED BY <1>1, <2>1, <2>2
<1>5. /\ Stored' = Stored \/ (Stored' = Stored \ {n} /\ t < clock)
      /\ \A m \in Stored' : m \in Stored /\ nonces'[m] = nonces[m]
      /\ Issued' = Issued
  BY <1>2, <1>4 DEF Without, Stored, Issued
<1>6. /\ n \in Issued => expiryOf[n] = t
      /\ \A p \in Issuer : get[p].pc # "idle" /\ get[p].nonce = n => get[p].then = t
  <2>1. Known(n, t)
    BY <1>1, <1>2 DEF IInv, TidyKnows
  <2> QED BY <2>1 DEF IInv, Known, Fresh, Past
<1>7. \A m, u : Known(m, u) => Known(m, u)'
  BY <1>2, <1>5 DEF Known
<1>8. Types'
  BY <1>2, <1>3, <1>5 DEF IInv, Types
<1>9. Fresh' /\ Taken' /\ Spent'
  BY <1>2, <1>5 DEF IInv, Fresh, Taken, Spent
<1>10. StoredKnown' /\ TidyKnows'
  BY <1>3, <1>5, <1>7 DEF IInv, StoredKnown, TidyKnows
<1>11. clock \in Int /\ (\A p \in Issuer : get[p].then \in Int) /\ \A m \in Issued : expiryOf[m] \in Int
  BY DEF IInv, Types, Gets
<1>12. Kept'
  BY <1>2, <1>5, <1>6, <1>11 DEF IInv, Kept, Past
<1>13. HonoursReturnedExpiry'
  BY <1>2, <1>5, <1>6, <1>11 DEF IInv, HonoursReturnedExpiry
<1> QED BY <1>8, <1>9, <1>10, <1>12, <1>13 DEF IInv

(* Tidy between its readings of the clock and of the map, the clock, and   *)
(* steps that change nothing.                                              *)
LEMMA QuietPreserves ==
  ASSUME IInv, TidyStart \/ TidyVisit \/ TidyFinish \/ Tick \/ UNCHANGED vars
  PROVE  IInv'
<1>1. /\ UNCHANGED <<nonces, get, redeem, expiryOf, redemptions>>
      /\ clock \in Nat /\ clock' \in Nat /\ clock <= clock' /\ tidy \in Tidies
  <2>1. clock \in Nat /\ tidy \in Tidies
    BY DEF IInv, Types
  <2>2. CASE TidyStart \/ TidyVisit \/ UNCHANGED vars
    <3>1. UNCHANGED <<nonces, get, redeem, expiryOf, redemptions, clock>>
      BY <2>2, Zenon DEF TidyStart, TidyVisit, vars, shared, history
    <3> QED BY <2>1, <3>1
  <2>3. CASE TidyFinish \/ Tick
    BY <2>1, <2>3 DEF TidyFinish, Tick, shared, history
  <2> QED BY <2>2, <2>3
<1>2. /\ tidy' \in Tidies
      /\ tidy'.pc \in {"range", "visit"} => tidy'.now <= clock'
      /\ tidy'.pc = "visit" => Known(tidy'.nonce, tidy'.timeout)
  <2>1. CASE TidyStart
    <3> DEFINE one == [IdleTidy EXCEPT !.pc = "range"]
               two == [one EXCEPT !.now = clock]
               three == [two EXCEPT !.nextRun = clock + Validity]
               four == [three EXCEPT !.found = {n \in Stored : clock > nonces[n]}]
    <3>1. one \in Tidies /\ one.pc = "range"
      BY DEF IdleTidy, Tidies
    <3>2. two \in Tidies /\ two.pc = "range" /\ two.now = clock
      <4> HIDE DEF one
      <4> QED BY <1>1, <3>1 DEF Tidies
    <3>3. three \in Tidies /\ three.pc = "range" /\ three.now = clock
      <4> HIDE DEF two
      <4> QED BY <1>1, <3>2, TimeAssumption DEF Tidies
    <3>4. four \in Tidies /\ four.pc = "range" /\ four.now = clock
      <4>1. {n \in Stored : clock > nonces[n]} \in SUBSET Nonce
        BY DEF IInv, Types
      <4> HIDE DEF three
      <4> QED BY <3>3, <4>1 DEF Tidies
    <3>5. tidy' = four /\ UNCHANGED clock
      BY <2>1, Zenon DEF TidyStart
    <3> HIDE DEF four
    <3> QED BY <1>1, <3>4, <3>5
  <2>2. CASE TidyVisit
    <3>1. tidy.pc = "range" /\ tidy.now <= clock /\ clock' = clock
      BY <2>2 DEF TidyVisit, IInv, TidyKnows
    <3>2. CASE tidy' = [tidy EXCEPT !.pc = "finish"]
      BY <1>1, <3>2 DEF Tidies
    <3>3. ASSUME NEW n \in Stored,
                 tidy' = [tidy EXCEPT !.pc = "visit", !.nonce = n, !.timeout = nonces[n]]
          PROVE  tidy' \in Tidies /\ tidy'.now <= clock' /\ Known(tidy'.nonce, tidy'.timeout)
      <4> DEFINE one == [tidy EXCEPT !.pc = "visit"]
                 two == [one EXCEPT !.nonce = n]
                 three == [two EXCEPT !.timeout = nonces[n]]
      <4>1. n \in Nonce /\ nonces[n] \in Int /\ Known(n, nonces[n])
        BY DEF IInv, Types, StoredKnown
      <4>2. one \in Tidies /\ one.now = tidy.now
        BY <1>1 DEF Tidies
      <4>3. two \in Tidies /\ two.now = tidy.now /\ two.nonce = n
        <5> HIDE DEF one
        <5> QED BY <4>1, <4>2 DEF Tidies
      <4>4. three \in Tidies /\ three.now = tidy.now /\ three.nonce = n /\ three.timeout = nonces[n]
        <5> HIDE DEF two
        <5> QED BY <4>1, <4>3 DEF Tidies
      <4>5. tidy' = three
        BY <3>3, Zenon
      <4> HIDE DEF three
      <4> QED BY <3>1, <4>1, <4>4, <4>5
    <3>4. \/ tidy' = [tidy EXCEPT !.pc = "finish"]
          \/ \E n \in Stored :
               tidy' = [tidy EXCEPT !.pc = "visit", !.nonce = n, !.timeout = nonces[n]]
      BY <2>2, Zenon DEF TidyVisit
    <3> QED BY <3>2, <3>3, <3>4, Zenon
  <2>3. CASE TidyFinish
    BY <2>3 DEF TidyFinish, IdleTidy, Tidies
  <2>4. CASE Tick \/ UNCHANGED vars
    <3>1. tidy' = tidy
      BY <2>4 DEF Tick, vars
    <3>2. tidy.pc \in {"range", "visit"} => tidy.now \in Int /\ tidy.now <= clock
      BY <1>1 DEF IInv, TidyKnows, Tidies
    <3>3. tidy.pc = "visit" => Known(tidy.nonce, tidy.timeout)
      BY DEF IInv, TidyKnows
    <3> QED BY <1>1, <3>1, <3>2, <3>3
  <2> QED BY <2>1, <2>2, <2>3, <2>4
<1>3. Stored' = Stored /\ Issued' = Issued /\ \A m, u : Known(m, u)' <=> Known(m, u)
  BY <1>1 DEF Stored, Issued, Known
<1>4. Types' /\ TidyKnows'
  BY <1>1, <1>2, <1>3 DEF IInv, Types, TidyKnows
<1>5. Fresh' /\ StoredKnown' /\ Taken' /\ Spent'
  BY <1>1, <1>3 DEF IInv, Fresh, StoredKnown, Taken, Spent
<1>6. (\A p \in Issuer : get[p].then \in Int) /\ \A m \in Issued : expiryOf[m] \in Int
  BY DEF IInv, Types, Gets
<1>7. Kept' /\ HonoursReturnedExpiry'
  BY <1>1, <1>3, <1>6 DEF IInv, Kept, HonoursReturnedExpiry
<1> QED BY <1>4, <1>5, <1>7 DEF IInv

-----------------------------------------------------------------------------
(* Every step preserves IInv, so it holds for ever.                        *)
THEOREM Invariance == Spec => []IInv
<1>1. IInv /\ [Next]_vars => IInv'
  <2> SUFFICES ASSUME IInv, [Next]_vars PROVE IInv'
    OBVIOUS
  <2>1. ASSUME NEW p \in Issuer, GetStep(p) PROVE IInv'
    BY <2>1, GetStartPreserves, GetStorePreserves, GetLoadPreserves, GetReturnPreserves
       DEF GetStep
  <2>2. ASSUME NEW p \in Redeemer, RedeemStep(p) PROVE IInv'
    BY <2>2, RedeemTakePreserves, RedeemJudgePreserves DEF RedeemStep
  <2>3. CASE TidyStep \/ Tick \/ UNCHANGED vars
    BY <2>3, TidyCallbackPreserves, QuietPreserves DEF TidyStep
  <2> QED BY <2>1, <2>2, <2>3 DEF Next
<1> QED BY <1>1, InitEstablishes, PTL DEF Spec

(* A nonce nobody has presented can be redeemed until the time Get gave    *)
(* with it, however Get, Redeem and Tidy interleave without a lock.        *)
THEOREM Honoured == Spec => []HonoursReturnedExpiry
<1>1. IInv => HonoursReturnedExpiry
  BY DEF IInv
<1> QED BY <1>1, Invariance, PTL

-----------------------------------------------------------------------------
(* What a Redeem would accept: Service's live.                             *)
Judged(n) == \E p \in Redeemer : redeem[p].pc = "judge" /\ redeem[p].nonce = n
Live == {n \in Issued : n \in Stored \/ Judged(n)}

(* Steps that keep the nonces returned, stored and judged are invisible.   *)
LEMMA Invisible ==
  ASSUME redemptions' = redemptions, Live' = Live
  PROVE  UNCHANGED Service!vars
BY DEF Service!vars, Live, Judged

(* A step that accepts nothing and adds nothing to Live is a lapse.        *)
LEMMA LapseStep ==
  ASSUME redemptions' = redemptions, Live' \subseteq Live
  PROVE  Service!Next
<1>1. Service!Lapse
  BY DEF Service!Lapse, Live, Judged
<1> QED BY <1>1 DEF Service!Next

(* A Get that returns is the abstract Get: nobody has its nonce.           *)
LEMMA ReturnIsGet ==
  ASSUME IInv, NEW p \in Issuer, GetReturn(p)
  PROVE  Service!Next
<1>1. PICK n \in Nonce : n = get[p].nonce /\ n \notin Issued
  BY DEF GetReturn, IInv, Fresh
<1>2. redemptions' = With(redemptions, n, 0) /\ UNCHANGED <<nonces, redeem>>
  BY <1>1 DEF GetReturn
<1>3. /\ redemptions' = [m \in Issued \cup {n} |-> IF m = n THEN 0 ELSE redemptions[m]]
      /\ Issued' = Issued \cup {n} /\ Stored' = Stored
  BY <1>2 DEF With, Issued, Stored
<1>4. \A m : Judged(m)' <=> Judged(m)
  BY <1>2 DEF Judged
<1>5. Live' \in {Live, Live \cup {n}}
  BY <1>3, <1>4 DEF Live
<1>6. Service!Get(n)
  BY <1>1, <1>3, <1>5 DEF Service!Get, Service!Issued, Issued, Live, Judged
<1> QED BY <1>6 DEF Service!Next

(* A judgement is the abstract Redeem, or a lapse: the nonce is gone.      *)
LEMMA JudgeIsRedeem ==
  ASSUME IInv, NEW p \in Redeemer, RedeemJudge(p)
  PROVE  Service!Next
<1>1. PICK n \in Issued \ Stored :
        /\ n = redeem[p].nonce /\ n \in Nonce
        /\ \A q \in Redeemer : redeem[q].pc = "judge" /\ redeem[q].nonce = n => q = p
  BY DEF RedeemJudge, IInv, Taken, Types
<1>2. /\ redeem[p].pc = "judge" /\ redeem' = [redeem EXCEPT ![p] = IdleRedeem]
      /\ UNCHANGED nonces
  BY DEF RedeemJudge, shared
<1>3. redeem'[p].pc = "idle" /\ \A q \in Redeemer : q # p => redeem'[q] = redeem[q]
  BY <1>2 DEF IInv, Types, IdleRedeem
<1>4. redemptions' = redemptions \/ redemptions' = [redemptions EXCEPT ![n] = @ + 1]
  BY <1>1 DEF RedeemJudge
<1>5. Stored' = Stored /\ Issued' = Issued
  BY <1>2, <1>4 DEF Stored, Issued
<1>6. Judged(n) /\ ~ Judged(n)' /\ \A m : Judged(m)' => Judged(m)
  BY <1>1, <1>2, <1>3 DEF Judged
<1>7. n \in Live /\ Live' \subseteq Live \ {n}
  BY <1>1, <1>5, <1>6 DEF Live
<1>8. CASE redemptions' = redemptions
  BY <1>7, <1>8, LapseStep
<1>9. CASE redemptions' = [redemptions EXCEPT ![n] = @ + 1]
  <2>1. Service!Redeem(n)
    BY <1>7, <1>9 DEF Service!Redeem, Live, Judged
  <2> QED BY <1>1, <2>1 DEF Service!Next
<1> QED BY <1>4, <1>8, <1>9

(* The map-based service keeps the promise of NonceService: LoadAndDelete  *)
(* alone decides between the Redeems and Tidies that race for a nonce.     *)
THEOREM Refinement == Spec => ImplementsService
<1>1. Init => Service!Init
  BY DEF Init, Service!Init, Issued
<1>2. IInv /\ [Next]_vars => [Service!Next]_(Service!vars)
  <2> SUFFICES ASSUME IInv, [Next]_vars
               PROVE  Service!Next \/ UNCHANGED Service!vars
    OBVIOUS
  <2>1. ASSUME NEW p \in Issuer, GetStep(p) PROVE Service!Next \/ UNCHANGED Service!vars
    <3>1. CASE GetStart(p) \/ GetLoad(p) \/ GetLower(p)
      <4>1. UNCHANGED <<nonces, redeem, redemptions>>
        BY <3>1, Zenon DEF GetStart, GetLoad, GetLower, shared, history
      <4> QED BY <4>1, Invisible DEF Live, Judged, Stored, Issued
    <3>2. CASE GetStore(p)
      <4>1. PICK n : n = get[p].nonce /\ n \notin Issued /\ nonces' = With(nonces, n, get[p].then)
        BY <3>2 DEF GetStore, IInv, Fresh
      <4>2. UNCHANGED <<redeem, redemptions>>
        BY <3>2 DEF GetStore, history
      <4>3. Stored' = Stored \cup {n} /\ Issued' = Issued
        BY <4>1, <4>2 DEF With, Stored, Issued
      <4>4. Live' = Live
        BY <4>1, <4>2, <4>3 DEF Live, Judged
      <4> QED BY <4>2, <4>4, Invisible
    <3> QED BY <2>1, <3>1, <3>2, ReturnIsGet DEF GetStep
  <2>2. ASSUME NEW p \in Redeemer, RedeemStep(p) PROVE Service!Next \/ UNCHANGED Service!vars
    <3>1. ASSUME NEW n \in Issued, RedeemTake(p, n) PROVE UNCHANGED Service!vars
      <4>1. /\ redeem[p].pc = "idle" /\ n \in Stored /\ nonces' = Without(nonces, n)
            /\ redeem' = [redeem EXCEPT ![p] = [pc |-> "judge", nonce |-> n, timeout |-> nonces[n]]]
            /\ redemptions' = redemptions
        BY <3>1 DEF RedeemTake, history
      <4>2. /\ redeem'[p].pc = "judge" /\ redeem'[p].nonce = n
            /\ \A q \in Redeemer : q # p => redeem'[q] = redeem[q]
        BY <4>1 DEF IInv, Types
      <4>3. Stored' = Stored \ {n} /\ Issued' = Issued
        BY <4>1 DEF Without, Stored, Issued
      <4>4. Judged(n)' /\ \A m : m # n => (Judged(m)' <=> Judged(m))
        BY <4>1, <4>2 DEF Judged
      <4>5. Live' = Live
        BY <4>1, <4>3, <4>4 DEF Live
      <4> QED BY <4>1, <4>5, Invisible
    <3> QED BY <2>2, <3>1, JudgeIsRedeem DEF RedeemStep
  <2>3. CASE TidyCallback
    <3>1. \/ nonces' = nonces
          \/ nonces' = Without(nonces, tidy.nonce)
      BY <2>3 DEF TidyCallback
    <3>2. UNCHANGED <<redeem, redemptions>>
      BY <2>3 DEF TidyCallback, history
    <3>3. Stored' \subseteq Stored /\ Issued' = Issued
      BY <3>1, <3>2 DEF Without, Stored, Issued
    <3>4. Live' \subseteq Live
      BY <3>2, <3>3 DEF Live, Judged
    <3> QED BY <3>2, <3>4, LapseStep
  <2>4. CASE TidyStart \/ TidyVisit \/ TidyFinish \/ Tick \/ UNCHANGED vars
    <3>1. UNCHANGED <<nonces, redeem, redemptions>>
      BY <2>4, Zenon DEF TidyStart, TidyVisit, TidyFinish, Tick, vars, shared, history
    <3> QED BY <3>1, Invisible DEF Live, Judged, Stored, Issued
  <2> QED BY <2>1, <2>2, <2>3, <2>4 DEF Next, TidyStep
<1> QED BY <1>1, <1>2, Invariance, PTL DEF Spec, ImplementsService, Service!Spec
=============================================================================

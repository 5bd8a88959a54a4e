---------------------------- MODULE SyncMapNonce ----------------------------
(***************************************************************************)
(* nonceutil/sync_map_nonce.go: the nonce service that keeps every nonce   *)
(* in a sync.Map.  There is no lock, so each operation on the map or on an *)
(* atomic, and each reading of the clock, is an action.  The times it      *)
(* compares never leave the process, hence carry Go's monotonic reading:   *)
(* the clock only advances.                                                *)
(***************************************************************************)
EXTENDS NoncePromises, FiniteSets

None == "none"

VARIABLES
  nextExpiry,        \* atomic, unix seconds
  issued,            \* atomic
  get,               \* Issuer -> where its Get is, with its locals
  tidy               \* where the housekeeper's Tidy is, with its locals

shared == <<nonces, nextExpiry, issued>>
history == <<expiryOf, redemptions>>
vars == <<clock, shared, get, redeem, tidy, history>>

Unix(t) == t \div TicksPerSecond
FromUnix(s) == s * TicksPerSecond

InFlight == {get[p].nonce : p \in {q \in Issuer : get[q].pc # "idle"}}
Seen == Stored \cup Issued \cup InFlight

With(f, x, v) == [y \in DOMAIN f \cup {x} |-> IF y = x THEN v ELSE f[y]]
Without(f, x) == [y \in DOMAIN f \ {x} |-> f[y]]

IdleGet == [pc |-> "idle", nonce |-> None, then |-> 0, loaded |-> 0]
IdleRedeem == [pc |-> "idle", nonce |-> None, timeout |-> 0]
IdleTidy == [pc |-> "idle", now |-> 0, nextRun |-> 0, outstanding |-> 0, nonce |-> None, timeout |-> 0,
             found |-> {}]

Init ==
  /\ clock = 0
  /\ nonces = << >> /\ nextExpiry = 0 /\ issued = 0
  /\ get = [p \in Issuer |-> IdleGet]
  /\ redeem = [p \in Redeemer |-> IdleRedeem]
  /\ tidy = IdleTidy
  /\ expiryOf = << >> /\ redemptions = << >>

-----------------------------------------------------------------------------
(* Get: the clock and a random nonce (without one it returns an error and  *)
(* nothing changed), Store, Load of nextExpiry, perhaps a Store to it, and *)
(* Add(1).                                                                 *)
GetStart(p) ==
  /\ get[p].pc = "idle"
  /\ \E n \in Nonce \ Seen :
       get' = [get EXCEPT ![p] = [IdleGet EXCEPT !.pc = "store", !.nonce = n,
                                                 !.then = clock + Validity]]
  /\ UNCHANGED <<clock, shared, redeem, tidy, history>>

GetStore(p) ==
  /\ get[p].pc = "store"
  /\ nonces' = With(nonces, get[p].nonce, get[p].then)
  /\ get' = [get EXCEPT ![p].pc = "load"]
  /\ UNCHANGED <<clock, nextExpiry, issued, redeem, tidy, history>>

GetLoad(p) ==
  /\ get[p].pc = "load"
  /\ get' = [get EXCEPT ![p].pc = IF get[p].then < FromUnix(nextExpiry) THEN "lower" ELSE "count"]
  /\ UNCHANGED <<clock, shared, redeem, tidy, history>>

GetLower(p) ==
  /\ get[p].pc = "lower"
  /\ nextExpiry' = Unix(get[p].then)
  /\ get' = [get EXCEPT ![p].pc = "count"]
  /\ UNCHANGED <<clock, nonces, issued, redeem, tidy, history>>

GetReturn(p) ==
  /\ get[p].pc = "count"
  /\ issued' = issued + 1
  /\ expiryOf' = With(expiryOf, get[p].nonce, get[p].then)
  /\ redemptions' = With(redemptions, get[p].nonce, 0)
  /\ get' = [get EXCEPT ![p] = IdleGet]
  /\ UNCHANGED <<clock, nonces, nextExpiry, redeem, tidy>>

-----------------------------------------------------------------------------
(* A mutant: Load in place of LoadAndDelete.                               *)
RedeemLoad(p, n) ==
  /\ redeem[p].pc = "idle"
  /\ n \in Stored
  /\ redeem' = [redeem EXCEPT ![p] = [pc |-> "judge", nonce |-> n, timeout |-> nonces[n]]]
  /\ UNCHANGED <<clock, shared, get, tidy, history>>

(* Redeem: LoadAndDelete, and only then the clock.                         *)
RedeemTake(p, n) ==
  /\ redeem[p].pc = "idle"
  /\ n \in Stored                               \* else it returns false
  /\ nonces' = Without(nonces, n)
  /\ redeem' = [redeem EXCEPT ![p] = [pc |-> "judge", nonce |-> n, timeout |-> nonces[n]]]
  /\ UNCHANGED <<clock, nextExpiry, issued, get, tidy, history>>

RedeemJudge(p) ==
  /\ redeem[p].pc = "judge"
  /\ redemptions' = IF clock > redeem[p].timeout THEN redemptions
                    ELSE [redemptions EXCEPT ![redeem[p].nonce] = @ + 1]
  /\ redeem' = [redeem EXCEPT ![p] = IdleRedeem]
  /\ UNCHANGED <<clock, shared, get, tidy, expiryOf>>

-----------------------------------------------------------------------------
(* Tidy: the clock, then Range.  The callback returns false for every      *)
(* entry, at which Range stops: one entry is visited, whichever it is.     *)
(* (found is history: what lay there, expired, when it began.)             *)
TidyStart ==
  /\ tidy.pc = "idle"
  /\ tidy' = [IdleTidy EXCEPT !.pc = "range", !.now = clock, !.nextRun = clock + Validity,
                              !.found = {n \in Stored : clock > nonces[n]}]
  /\ UNCHANGED <<clock, shared, get, redeem, history>>

TidyVisit ==
  /\ tidy.pc = "range"
  /\ IF Stored = {}
     THEN tidy' = [tidy EXCEPT !.pc = "finish"]
     ELSE \E n \in Stored : tidy' = [tidy EXCEPT !.pc = "visit", !.nonce = n, !.timeout = nonces[n]]
  /\ UNCHANGED <<clock, shared, get, redeem, history>>

(* A mutant: what would expire before the next Tidy goes now.              *)
TidyCallbackEager ==
  /\ tidy.pc = "visit"
  /\ nonces' = IF tidy.nextRun > tidy.timeout - 1 THEN Without(nonces, tidy.nonce) ELSE nonces
  /\ tidy' = [tidy EXCEPT !.pc = "finish"]
  /\ UNCHANGED <<clock, nextExpiry, issued, get, redeem, history>>

TidyCallback ==
  /\ tidy.pc = "visit"
  /\ LET next == IF tidy.timeout < tidy.nextRun THEN tidy.timeout ELSE tidy.nextRun
     IN  IF tidy.now > tidy.timeout
         THEN /\ nonces' = Without(nonces, tidy.nonce)
              /\ tidy' = [tidy EXCEPT !.pc = "finish", !.nextRun = next]
         ELSE /\ tidy' = [tidy EXCEPT !.pc = "finish", !.nextRun = next, !.outstanding = @ + 1]
              /\ UNCHANGED nonces
  /\ UNCHANGED <<clock, nextExpiry, issued, get, redeem, history>>

TidyFinish ==
  /\ tidy.pc = "finish"
  /\ nextExpiry' = Unix(tidy.nextRun)
  /\ tidy' = IdleTidy
  /\ UNCHANGED <<clock, nonces, issued, get, redeem, history>>

Tick ==
  /\ clock < MaxTime
  /\ clock' = clock + 1
  /\ UNCHANGED <<shared, get, redeem, tidy, history>>

GetStep(p) == GetStart(p) \/ GetStore(p) \/ GetLoad(p) \/ GetLower(p) \/ GetReturn(p)
RedeemStep(p) == (\E n \in Issued : RedeemTake(p, n)) \/ RedeemJudge(p)
TidyStep == TidyStart \/ TidyVisit \/ TidyCallback \/ TidyFinish

Next ==
  \/ \E p \in Issuer : GetStep(p)
  \/ \E p \in Redeemer : RedeemStep(p)
  \/ TidyStep \/ Tick

Spec == Init /\ [][Next]_vars

-----------------------------------------------------------------------------
(* Types; the history knows the same nonces twice.                         *)
TypeOK ==
  /\ clock \in 0..MaxTime
  /\ Stored \subseteq Nonce /\ \A n \in Stored : nonces[n] \in 0..(MaxTime + Validity)
  /\ nextExpiry \in Nat /\ issued \in Nat
  /\ \A p \in Issuer : get[p].pc \in {"idle", "store", "load", "lower", "count"}
  /\ \A p \in Redeemer : redeem[p].pc \in {"idle", "judge"}
  /\ tidy.pc \in {"idle", "range", "visit", "finish"} /\ tidy.outstanding \in {0, 1}
  /\ Issued = DOMAIN expiryOf /\ issued = Cardinality(Issued)

(* The comment at line 109 ("don't quit looping") and the hook's purpose   *)
(* (nonce.go line 46): the nonces that were stored, and had expired, when  *)
(* a Tidy began are gone when it returns.                                  *)
TidyFreesExpired == [][TidyFinish => tidy.found \cap Stored = {}]_vars
=============================================================================

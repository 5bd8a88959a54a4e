---------------------------- MODULE NoncePromises ----------------------------
(***************************************************************************)
(* What nonceutil/sync_map_nonce.go promises, over the part of the state   *)
(* that the promises are about.  SyncMapNonce extends it.                  *)
(***************************************************************************)
EXTENDS Integers

CONSTANTS
  Nonce,             \* values generateNonce may return, never one twice
  Issuer, Redeemer,  \* goroutines that call Get, Redeem
  TicksPerSecond,
  Validity,          \* in ticks
  MaxTime            \* bound: the clock stops at this tick

ASSUME TimeAssumption ==
  TicksPerSecond \in Nat \ {0} /\ Validity \in Nat /\ MaxTime \in Nat

VARIABLES
  clock,
  nonces,            \* the sync.Map: nonce -> expiry
  redeem,            \* Redeemer -> where its Redeem is, with its locals
  expiryOf,          \* history: nonce returned by a Get -> time returned with it
  redemptions        \* history: nonce returned by a Get -> times accepted

Stored == DOMAIN nonces
Issued == DOMAIN redemptions

(* nonce.go line 32: until the time Get returned with it, a nonce nobody   *)
(* has presented is there to be redeemed, whatever Tidy does meanwhile     *)
(* with the clock reading it started from.                                 *)
HonoursReturnedExpiry ==
  \A n \in Issued :
    redemptions[n] = 0 /\ clock <= expiryOf[n] =>
      n \in Stored \/ \E p \in Redeemer : redeem[p].pc = "judge" /\ redeem[p].nonce = n

(* A nonce is accepted at most once, and one that is gone does not return: *)
(* LoadAndDelete decides between racing Redeems and Tidy.                  *)
Service ==
  INSTANCE NonceService WITH
    live <- {n \in Issued : n \in Stored
                            \/ \E p \in Redeemer : redeem[p].pc = "judge" /\ redeem[p].nonce = n}
ImplementsService == Service!Spec
=============================================================================

---------------------------- MODULE NonceService ----------------------------
(***************************************************************************)
(* What a strict nonce service promises its clients (the NonceService      *)
(* interface of nonceutil/nonce.go, with IsStrict() = true): a nonce is    *)
(* accepted at most once, and one that has lapsed never comes back.  How   *)
(* nonces lapse (expiry, restarts, memory tidying) is left open.           *)
(***************************************************************************)
EXTENDS Naturals

CONSTANT Nonce          \* every nonce a service could ever hand out

VARIABLES
  redemptions,          \* [issued nonces -> number of times each was accepted]
  live                  \* the nonces a Redeem of the moment would accept

vars == <<redemptions, live>>

Issued == DOMAIN redemptions

Init == redemptions = << >> /\ live = {}

(* Get returns a nonce never returned before.  A slow Get may return one   *)
(* that has lapsed already.                                                *)
Get(n) ==
  /\ n \notin Issued
  /\ redemptions' = [m \in Issued \cup {n} |->
                       IF m = n THEN 0 ELSE redemptions[m]]
  /\ live' \in {live, live \cup {n}}

(* Redeem accepts a live nonce; the work it does may make others lapse.    *)
Redeem(n) ==
  /\ n \in live
  /\ redemptions' = [redemptions EXCEPT ![n] = @ + 1]
  /\ live' \in SUBSET (live \ {n})

(* Time passes, resources are freed, or the service restarts.              *)
Lapse ==
  /\ live' \in SUBSET live
  /\ UNCHANGED redemptions

Next == (\E n \in Nonce : Get(n) \/ Redeem(n)) \/ Lapse

Spec == Init /\ [][Next]_vars
=============================================================================

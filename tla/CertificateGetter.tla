-------------------------- MODULE CertificateGetter --------------------------
(***************************************************************************)
(* reloadutil/reload.go: Reload reads the certificate file, then the key   *)
(* file, checks that they belong together, and swaps the certificate       *)
(* served, while an operator renews the pair on disk.  A renewal rewrites  *)
(* the files in either order, each in two steps, as a write is not atomic. *)
(***************************************************************************)
EXTENDS Integers, CertificatePromises

CONSTANT MaxRenewal  \* bound: renewals

File == {"cert", "key"}
NoCert == -2         \* cert is nil

VARIABLES
  disk,              \* File -> the renewal it holds, or Torn
  renewal            \* the renewal under way or last completed

vars == <<disk, renewal, cg, reload>>

Idle == [pc |-> "idle", cert |-> Torn, key |-> Torn, since |-> NoCert, whole |-> {}]
Nil == [cert |-> NoCert, key |-> NoCert]

Init ==
  /\ disk = [f \in File |-> 0] /\ renewal = 0
  /\ cg = Nil
  /\ reload = [r \in Reloader |-> Idle]

(* The renewals both files hold: one or none.                              *)
Whole(d) == {n \in {d["cert"]} : n # Torn /\ d["key"] = n}

-----------------------------------------------------------------------------
(* (since and whole are history: what was served when the Reload began,    *)
(* and the renewals both files have held since.)                           *)
ReadCert(r) ==
  /\ reload[r].pc = "idle"
  /\ reload' = [reload EXCEPT ![r] = [pc |-> "key", cert |-> disk["cert"], key |-> Torn,
                                      since |-> cg.cert, whole |-> Whole(disk)]]
  /\ UNCHANGED <<disk, renewal, cg>>

ReadKey(r) ==
  /\ reload[r].pc = "key"
  /\ reload' = [reload EXCEPT ![r].pc = "check", ![r].key = disk["key"]]
  /\ UNCHANGED <<disk, renewal, cg>>

(* ReadFile fails for the key (for the certificate nothing has happened).  *)
Unreadable(r) ==
  /\ reload[r].pc = "key"
  /\ reload' = [reload EXCEPT ![r] = Idle]
  /\ UNCHANGED <<disk, renewal, cg>>

(* A mutant: the certificate and the key are not compared.                 *)
ParsesAlone(cert, key) == cert # Torn /\ key # Torn

(* pem.Decode, DecryptPEMBlock and tls.X509KeyPair succeed only on a       *)
(* certificate and key of one renewal.                                     *)
KeyPair(cert, key) == cert # Torn /\ key # Torn /\ cert = key

(* A mutant: a pair is installed before the error is returned.             *)
RejectInstalls(r) ==
  /\ reload[r].pc = "check" /\ ~ KeyPair(reload[r].cert, reload[r].key)
  /\ cg' = [cert |-> reload[r].cert, key |-> reload[r].key]
  /\ reload' = [reload EXCEPT ![r] = Idle]
  /\ UNCHANGED <<disk, renewal>>

Reject(r) ==
  /\ reload[r].pc = "check" /\ ~ KeyPair(reload[r].cert, reload[r].key)
  /\ reload' = [reload EXCEPT ![r] = Idle]
  /\ UNCHANGED <<disk, renewal, cg>>

(* A mutant: the first certificate is served for ever.                     *)
InstallOnce(r) ==
  /\ reload[r].pc = "check" /\ KeyPair(reload[r].cert, reload[r].key)
  /\ cg' = IF cg = Nil THEN [cert |-> reload[r].cert, key |-> reload[r].key] ELSE cg
  /\ reload' = [reload EXCEPT ![r] = Idle]
  /\ UNCHANGED <<disk, renewal>>

Install(r) ==
  /\ reload[r].pc = "check" /\ KeyPair(reload[r].cert, reload[r].key)
  /\ cg' = [cert |-> reload[r].cert, key |-> reload[r].key]
  /\ reload' = [reload EXCEPT ![r] = Idle]
  /\ UNCHANGED <<disk, renewal>>

-----------------------------------------------------------------------------
(* The operator: the next renewal starts when both files hold the last.    *)
StartRenewal ==
  /\ renewal < MaxRenewal /\ \A f \in File : disk[f] = renewal
  /\ renewal' = renewal + 1
  /\ \E f \in File : disk' = [disk EXCEPT ![f] = Torn]
  /\ UNCHANGED <<cg, reload>>

EndWrite(f) ==
  /\ disk[f] = Torn
  /\ disk' = [disk EXCEPT ![f] = renewal]
  /\ reload' = [r \in Reloader |-> IF reload[r].pc = "idle" THEN reload[r]
                                   ELSE [reload[r] EXCEPT !.whole = @ \cup Whole(disk')]]
  /\ UNCHANGED <<renewal, cg>>

StartOther(f) ==
  /\ disk[f] \notin {Torn, renewal} /\ \A g \in File : disk[g] # Torn
  /\ disk' = [disk EXCEPT ![f] = Torn]
  /\ UNCHANGED <<renewal, cg, reload>>

Step(r) == ReadCert(r) \/ ReadKey(r) \/ Unreadable(r) \/ Reject(r) \/ Install(r)
Operator == StartRenewal \/ \E f \in File : EndWrite(f) \/ StartOther(f)

Next == (\E r \in Reloader : Step(r)) \/ Operator

Spec == Init /\ [][Next]_vars

(* The operator finishes what it began, Reload is called again and again   *)
(* (on SIGHUP), and files that are there can be read.                      *)
FairSpec ==
  /\ Spec
  /\ WF_vars(\E f \in File : EndWrite(f) \/ StartOther(f))
  /\ \A r \in Reloader : WF_vars(Step(r)) /\ SF_vars(ReadKey(r)) /\ SF_vars(Install(r))

-----------------------------------------------------------------------------
(* Types; a Reload that ended, whichever way, holds nothing it read.       *)
TypeOK ==
  /\ renewal \in 0..MaxRenewal
  /\ disk \in [File -> Torn..renewal]
  /\ cg \in [cert : NoCert..renewal, key : NoCert..renewal]
  /\ reload \in [Reloader -> [pc : {"idle", "key", "check"}, cert : Torn..renewal,
                              key : Torn..renewal, since : NoCert..renewal,
                              whole : SUBSET (0..renewal)]]
  /\ \A r \in Reloader : reload[r].pc = "idle" => reload[r] = Idle

(* When the renewals stop, the newest is served in the end, and for good,  *)
(* even if a slow Reload installs an older one meanwhile.                  *)
NewestServed == <>[](cg.cert = renewal)
=============================================================================

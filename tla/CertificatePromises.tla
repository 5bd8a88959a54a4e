------------------------- MODULE CertificatePromises -------------------------
(***************************************************************************)
(* What reloadutil/reload.go promises of the certificate that is served,   *)
(* over the part of the state that the promises are about.                 *)
(* CertificateGetter extends it.                                           *)
(***************************************************************************)
EXTENDS Integers

CONSTANT Reloader    \* goroutines that call Reload, again and again

Torn == -1           \* a file caught in the middle of a write: no PEM in it

VARIABLES
  cg,                \* cert, as the renewal of its certificate and of its key
  reload             \* Reloader -> where its Reload is, with its locals

(* The two files are read one after the other while they are rewritten;    *)
(* still, what a Reload begins to serve lay on disk, certificate and key,  *)
(* at one moment since it began.                                           *)
InstalledWasWhole ==
  [][\A r \in Reloader :
       reload[r].pc # "idle" /\ reload'[r].pc = "idle" /\ cg' # cg
         => cg'.cert \in reload[r].whole /\ cg'.key = cg'.cert]_<<cg, reload>>

(* A Reload never brings back a certificate that had been replaced when it *)
(* began.  (It may replace one that another Reload installed meanwhile.)   *)
NeverOlderThanAtStart ==
  [][\A r \in Reloader :
       reload[r].pc # "idle" /\ reload'[r].pc = "idle" /\ cg' # cg
         => cg'.cert >= reload[r].since]_<<cg, reload>>
=============================================================================

------------------------------- MODULE MCShared -------------------------------
(***************************************************************************)
(* Objects that goroutines or processes share, for TLC: the interned       *)
(* expressions, the gated writer, the cached file, the certificate that is *)
(* reloaded and the path of a Unix socket.  They have nothing to do with   *)
(* each other, so a behaviour is one of any of them; the others stay in    *)
(* their initial states.                                                   *)
(***************************************************************************)
EXTENDS RegexpIntern, ReadPromises, CertificatePromises

CONSTANTS
  MaxWrite, MaxByte,                                 \* of GatedWriter
  MaxTime, MaxVersion,                               \* of CachingFileReader
  MaxRenewal,                                        \* of CertificateGetter
  Listener                                           \* of UnixSocket

VARIABLES
  subject,           \* the object this behaviour is about
  flush, buf, out, offered, accepted, failedFlush,
  clock, disk, latest, cache, lock, delivered,
  files, renewal,
  file, owner, fileMode, config, pc, open, overlapped

Gate == INSTANCE GatedWriter
Cached == INSTANCE CachingFileReader
Certificate == INSTANCE CertificateGetter WITH disk <- files
Socket == INSTANCE UnixSocket

(* Some time passes between a read and the moment its result is stale; no  *)
(* goroutine or listener is what stands for none of them.                  *)
ASSUME SharedAssumption ==
  /\ MaxByte \in Nat /\ MaxWrite \in Nat
  /\ Ttl \in Nat /\ MaxReadTime \in Nat /\ Ttl + MaxReadTime > 0
  /\ MaxTime \in Nat \ {0} /\ MaxVersion \in Nat /\ Cached!Free \notin Reader
  /\ MaxRenewal \in Nat
  /\ Socket!None \notin Listener /\ Socket!Leftover \notin Listener

gateVars == <<flush, buf, out, offered, accepted, failedFlush>>
cachedVars == <<clock, disk, latest, endedAt, cache, lock, reader, delivered>>
certificateVars == <<files, renewal, cg, reload>>
socketVars == <<file, owner, fileMode, config, pc, open, overlapped>>

allVars == <<subject, vars, gateVars, cachedVars, certificateVars, socketVars>>

MCInit ==
  /\ subject \in {"regexp", "writer", "reader", "certificate", "socket"}
  /\ Init /\ Gate!Init /\ Cached!Init /\ Certificate!Init /\ Socket!Init
  /\ subject # "socket" => file = Socket!None /\ \A l \in Listener : ~ config[l].given

OfRegexp(A) ==
  subject = "regexp" /\ A /\ UNCHANGED <<subject, gateVars, cachedVars, certificateVars, socketVars>>
OfCertificate(A) ==
  subject = "certificate" /\ A /\ UNCHANGED <<subject, vars, gateVars, cachedVars, socketVars>>

MCNext ==
  \/ OfRegexp(Next)
  \/ /\ subject = "writer" /\ Gate!Next
     /\ UNCHANGED <<subject, vars, cachedVars, certificateVars, socketVars>>
  \/ /\ subject = "reader" /\ Cached!Next
     /\ UNCHANGED <<subject, vars, gateVars, certificateVars, socketVars>>
  \/ OfCertificate(Certificate!Next)
  \/ /\ subject = "socket" /\ Socket!Next
     /\ UNCHANGED <<subject, vars, gateVars, cachedVars, certificateVars>>

(* The fairness of RegexpIntern's and CertificateGetter's FairSpec.        *)
MCSpec ==
  /\ MCInit /\ [][MCNext]_allVars
  /\ \A o \in Object : WF_allVars(OfRegexp(Collect(o))) /\ WF_allVars(OfRegexp(Cleanup(o)))
  /\ WF_allVars(OfCertificate(\E f \in Certificate!File :
                                Certificate!EndWrite(f) \/ Certificate!StartOther(f)))
  /\ \A r \in Reloader :
       /\ WF_allVars(OfCertificate(Certificate!Step(r)))
       /\ SF_allVars(OfCertificate(Certificate!ReadKey(r)))
       /\ SF_allVars(OfCertificate(Certificate!Install(r)))

-----------------------------------------------------------------------------
(* Types; see the modules.                                                 *)
TypesOK == TypeOK /\ Gate!TypeOK /\ Cached!TypeOK /\ Certificate!TypeOK

(* Written bytes are in the output or still held, once each; in order, as  *)
(* long as no Flush fails.                                                 *)
NothingLostOrDoubled == Gate!NothingLostOrDoubled

(* The newest certificate is served in the end.                            *)
NewestServed == subject = "certificate" => Certificate!NewestServed

(* A listener has its own socket file, as configured, and takes it along.  *)
SocketSound == Socket!SocketSound
=============================================================================

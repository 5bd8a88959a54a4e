------------------------------ MODULE SharedProofs ------------------------------
(***************************************************************************)
(* Proofs about what goroutines or processes share: the interned           *)
(* expressions, the reloaded certificate, the cached file, the gated       *)
(* writer and the Unix socket, each by itself, and then about the sum of   *)
(* them that MCShared checks.                                              *)
(***************************************************************************)
EXTENDS MCShared, SequenceTheorems, TLAPS

-----------------------------------------------------------------------------
(* RegexpIntern.                                                           *)

(* What no step breaks; that answers are shared follows from it.           *)
RegexpInv == TypeOK /\ MapsInverse /\ LiveIsInterned /\ NoEntryLeaks

(* Neither a hit nor a miss of compile breaks the invariant: a miss        *)
(* replaces exactly the entry of the dead expression it found.             *)
LEMMA CompilePreserves ==
  ASSUME RegexpInv, NEW c \in Client, NEW k \in Key, CompileHit(c, k) \/ CompileMiss(c, k)
  PROVE  RegexpInv'
<1> USE ConstantsAssumption DEF RegexpInv
<1>1. CASE CompileHit(c, k)
  <2>1. held' \in [Client -> SUBSET alive]
    BY <1>1 DEF CompileHit, TypeOK
  <2> QED BY <1>1, <2>1 DEF CompileHit, TypeOK, MapsInverse, LiveIsInterned, NoEntryLeaks
<1>2. CASE CompileMiss(c, k)
  <2> DEFINE new  == compiled + 1
             rest == ReverseWithoutStale(k)
  <2>1. /\ compiled' = new /\ compiled \in Nat /\ new \in 1..MaxObjects /\ new \notin 1..compiled
        /\ internedPointers' = With(internedPointers, k, new)
        /\ reverseMap' = With(rest, new, k)
        /\ alive' = alive \cup {new} /\ cleanups' = cleanups
        /\ held' = [held EXCEPT ![c] = @ \cup {new}]
    BY <1>2 DEF CompileMiss, TypeOK
  <2>2. /\ DOMAIN rest \subseteq DOMAIN reverseMap
        /\ \A o \in DOMAIN rest : rest[o] = reverseMap[o] /\ rest[o] # k
        /\ \A o \in DOMAIN reverseMap : o \notin DOMAIN rest => o \notin alive /\ reverseMap[o] = k
    BY <1>2 DEF CompileMiss, ReverseWithoutStale, Without, MapsInverse
  <2> HIDE DEF new, rest
  <2>3. /\ DOMAIN internedPointers' = DOMAIN internedPointers \cup {k}
        /\ internedPointers'[k] = new
        /\ \A j \in DOMAIN internedPointers : j # k => internedPointers'[j] = internedPointers[j]
        /\ internedPointers' = [j \in DOMAIN internedPointers' |-> internedPointers'[j]]
    BY <2>1 DEF With
  <2>4. /\ DOMAIN reverseMap' = DOMAIN rest \cup {new}
        /\ reverseMap'[new] = k
        /\ \A o \in DOMAIN rest : o # new => reverseMap'[o] = rest[o]
        /\ reverseMap' = [o \in DOMAIN reverseMap' |-> reverseMap'[o]]
    BY <2>1 DEF With
  <2>5. new \notin DOMAIN rest /\ new \notin cleanups
    BY <2>1, <2>2 DEF TypeOK
  <2>6. held' \in [Client -> SUBSET alive']
    BY <2>1 DEF TypeOK
  <2>7. 1..compiled \subseteq 1..compiled' /\ new \in 1..compiled' /\ compiled' \in 0..MaxObjects
    BY <2>1 DEF new
  <2>8. TypeOK'
    BY <2>1, <2>2, <2>3, <2>4, <2>5, <2>6, <2>7 DEF TypeOK
  <2>9. MapsInverse'
    BY <2>2, <2>3, <2>4, <2>5 DEF MapsInverse
  <2>10. LiveIsInterned' /\ NoEntryLeaks'
    BY <2>1, <2>2, <2>4 DEF LiveIsInterned, NoEntryLeaks
  <2> QED BY <2>8, <2>9, <2>10
<1> QED BY <1>1, <1>2

(* Nor does dropping or collecting an expression, or its cleanup, which    *)
(* removes an entry only while it is the collected expression's own.       *)
LEMMA CollectorPreserves ==
  ASSUME RegexpInv, NEW o \in Object, Collect(o) \/ Cleanup(o) \/ \E c \in Client : Drop(c,
  o)
  PROVE  RegexpInv'
<1> USE DEF RegexpInv
<1>1. CASE \E c \in Client : Drop(c, o)
  BY <1>1 DEF Drop, TypeOK, MapsInverse, LiveIsInterned, NoEntryLeaks
<1>2. CASE Collect(o)
  <2>1. held \in [Client -> SUBSET (alive \ {o})]
    BY <1>2 DEF Collect, TypeOK
  <2> QED BY <1>2, <2>1 DEF Collect, TypeOK, MapsInverse, LiveIsInterned, NoEntryLeaks
<1>3. CASE Cleanup(o)
  <2>1. CASE o \notin DOMAIN reverseMap
    BY <1>3, <2>1 DEF Cleanup, TypeOK, MapsInverse, LiveIsInterned, NoEntryLeaks
  <2>2. CASE o \in DOMAIN reverseMap
    <3>1. /\ internedPointers' = Without(internedPointers, reverseMap[o])
          /\ reverseMap' = Without(reverseMap, o)
          /\ cleanups' = cleanups \ {o} /\ UNCHANGED <<compiled, alive, held>>
          /\ o \notin alive
      BY <1>3, <2>2 DEF Cleanup, TypeOK
    <3>2. /\ DOMAIN internedPointers' = DOMAIN internedPointers \ {reverseMap[o]}
          /\ \A k \in DOMAIN internedPointers' : internedPointers'[k] = internedPointers[k]
          /\ DOMAIN reverseMap' = DOMAIN reverseMap \ {o}
          /\ \A q \in DOMAIN reverseMap' : reverseMap'[q] = reverseMap[q]
          /\ internedPointers' = [k \in DOMAIN internedPointers' |-> internedPointers'[k]]
          /\ reverseMap' = [q \in DOMAIN reverseMap' |-> reverseMap'[q]]
      BY <3>1 DEF Without
    <3>3. TypeOK'
      BY <3>1, <3>2 DEF TypeOK
    <3>4. MapsInverse'
      BY <2>2, <3>2 DEF MapsInverse
    <3>5. LiveIsInterned' /\ NoEntryLeaks'
      BY <3>1, <3>2 DEF LiveIsInterned, NoEntryLeaks
    <3> QED BY <3>3, <3>4, <3>5
  <2> QED BY <2>1, <2>2
<1> QED BY <1>1, <1>2, <1>3

(* Every step preserves RegexpInv, so it holds for ever.                        *)
THEOREM Invariance == Spec => []RegexpInv
<1>1. Init => RegexpInv
  BY ConstantsAssumption DEF Init, RegexpInv, TypeOK, MapsInverse, LiveIsInterned,
                             NoEntryLeaks
<1>2. RegexpInv /\ [Next]_vars => RegexpInv'
  <2>1. RegexpInv /\ Next => RegexpInv'
    BY CompilePreserves, CollectorPreserves DEF Next
  <2>2. RegexpInv /\ UNCHANGED vars => RegexpInv'
    BY DEF vars, RegexpInv, TypeOK, MapsInverse, LiveIsInterned, NoEntryLeaks
  <2> QED BY <2>1, <2>2
<1> QED BY <1>1, <1>2, PTL DEF Spec

(* Types of the interning state.                                           *)
THEOREM TypeCorrect == Spec => []TypeOK
<1>1. RegexpInv => TypeOK
  BY DEF RegexpInv
<1> QED BY <1>1, Invariance, PTL

(* The package's promise: equal patterns of one syntax, equal expressions. *)
THEOREM Interned == Spec => []SameAnswer
<1>1. RegexpInv => SameAnswer
  BY DEF RegexpInv, TypeOK, MapsInverse, LiveIsInterned, SameAnswer
<1> QED BY <1>1, Invariance, PTL

(* weakMap, posixWeakMap and reverseMap never disagree.                    *)
THEOREM MapsAgree == Spec => []MapsInverse
<1>1. RegexpInv => MapsInverse
  BY DEF RegexpInv
<1> QED BY <1>1, Invariance, PTL

(* No entry outlives its expression without a cleanup ahead.               *)
THEOREM NoLeak == Spec => []NoEntryLeaks
<1>1. RegexpInv => NoEntryLeaks
  BY DEF RegexpInv
<1> QED BY <1>1, Invariance, PTL

-----------------------------------------------------------------------------
(* CertificateGetter.                                                      *)

Reloads ==
  [pc : {"idle", "key", "check"}, cert : Int, key : Int, since : Int, whole : SUBSET Int]

CertificateTypes ==
  /\ renewal \in Nat
  /\ files \in [Certificate!File -> Int]
  /\ \A f \in Certificate!File : files[f] \in Torn..renewal
  /\ cg \in [cert : Int, key : Int]
  /\ reload \in [Reloader -> Reloads]

(* No certificate that was read or is served is newer than the one on      *)
(* disk, nor than the one that is being written there.                     *)
DiskAdvances ==
  /\ cg.cert <= renewal /\ \A r \in Reloader : reload[r].cert <= renewal
  /\ files["cert"] # Torn =>
       cg.cert <= files["cert"] /\ \A r \in Reloader : reload[r].cert <= files["cert"]

(* What a Reload read is not older than what was served when it began.     *)
ReadSince ==
  \A r \in Reloader :
    reload[r].pc # "idle" => reload[r].cert = Torn \/ reload[r].since <= reload[r].cert

(* A certificate c that was read lay there whole since, or it will when    *)
(* its key is written, or its key is gone and never read any more.         *)
Ahead(c) == files["cert"] = c /\ c = renewal
Gone(c) == c < renewal /\ files["key"] # c

WholeSince ==
  \A r \in Reloader : reload[r].pc # "idle" =>
    /\ files["cert"] # Torn /\ files["key"] = files["cert"] => files["cert"] \in reload[r].whole
    /\ reload[r].pc = "key" /\ reload[r].cert # Torn =>
         reload[r].cert \in reload[r].whole \/ Ahead(reload[r].cert) \/ Gone(reload[r].cert)
    /\ reload[r].pc = "check" /\ reload[r].cert # Torn /\ reload[r].key = reload[r].cert =>
         reload[r].cert \in reload[r].whole

CertificateCore == CertificateTypes /\ DiskAdvances /\ ReadSince
CertificateInv == CertificateCore /\ WholeSince

LEMMA CertificateInit == Certificate!Init => CertificateInv
BY DEF Certificate!Init, Certificate!Idle, Certificate!Nil, Certificate!NoCert, Torn, Reloads,
       Certificate!Torn, Certificate!File, CertificateInv, CertificateCore, CertificateTypes,
       DiskAdvances, ReadSince, WholeSince

(* The locals of a Reload that has begun.                                  *)
BegunReload ==
  [pc |-> "key", cert |-> files["cert"], key |-> Torn, since |-> cg.cert,
   whole |-> Certificate!Whole(files)]

LEMMA ReadCertBegins ==
  ASSUME CertificateCore, NEW r \in Reloader, Certificate!ReadCert(r)
  PROVE  /\ reload' = [reload EXCEPT ![r] = BegunReload]
         /\ BegunReload \in Reloads /\ BegunReload.cert = files["cert"]
         /\ BegunReload.since = cg.cert /\ BegunReload.pc = "key"
         /\ BegunReload.whole = Certificate!Whole(files)
<1>1. reload' = [reload EXCEPT ![r] = BegunReload]
  BY DEF Certificate!ReadCert, BegunReload, Torn, Certificate!Torn
<1>2. Certificate!Whole(files) \subseteq Int
  BY DEF CertificateCore, CertificateTypes, Certificate!Whole, Certificate!File
<1>3. files["cert"] \in Int /\ cg.cert \in Int
  BY DEF CertificateCore, CertificateTypes, Certificate!File
<1> QED BY <1>1, <1>2, <1>3 DEF BegunReload, Reloads, Torn

(* The locals after the key was read.                                      *)
LEMMA ReadKeyReads ==
  ASSUME CertificateCore, NEW r \in Reloader, Certificate!ReadKey(r)
  PROVE  /\ reload' \in [Reloader -> Reloads] /\ reload[r].pc = "key"
         /\ \A s \in Reloader :
              /\ reload'[s].cert = reload[s].cert /\ reload'[s].since = reload[s].since
              /\ reload'[s].whole = reload[s].whole
         /\ reload'[r].key = files["key"] /\ reload'[r].pc = "check"
         /\ \A s \in Reloader : s # r => reload'[s] = reload[s]
<1> DEFINE checking == [reload EXCEPT ![r].pc = "check"]
<1> USE DEF CertificateCore, CertificateTypes, Reloads, Certificate!File
<1>1. reload' = [checking EXCEPT ![r].key = files["key"]]
  BY DEF Certificate!ReadKey
<1>2. /\ checking \in [Reloader -> Reloads] /\ checking[r].pc = "check"
      /\ \A s \in Reloader :
           /\ checking[s].cert = reload[s].cert /\ checking[s].since = reload[s].since
           /\ checking[s].whole = reload[s].whole
      /\ reload[r].pc = "key" /\ \A s \in Reloader : s # r => checking[s] = reload[s]
  BY DEF Certificate!ReadKey
<1> HIDE DEF checking
<1> QED BY <1>1, <1>2

LEMMA ReloadPreserves ==
  ASSUME CertificateCore, NEW r \in Reloader, Certificate!Step(r)
  PROVE  CertificateCore'
<1> USE DEF Torn, Certificate!Torn, Certificate!File, CertificateCore, CertificateTypes,
            DiskAdvances, ReadSince
<1>1. CASE Certificate!ReadCert(r)
  <2>1. reload' = [reload EXCEPT ![r] = BegunReload] /\ UNCHANGED <<files, renewal, cg>>
    BY <1>1, ReadCertBegins DEF Certificate!ReadCert
  <2>2. BegunReload \in Reloads
        /\ BegunReload.cert = files["cert"] /\ BegunReload.since = cg.cert /\ BegunReload.pc = "key"
    BY <1>1, ReadCertBegins
  <2>3. CertificateTypes'
    BY <2>1, <2>2
  <2>4. DiskAdvances' /\ ReadSince'
    BY <2>1, <2>2
  <2> QED BY <2>3, <2>4
<1>2. CASE Certificate!ReadKey(r)
  <2>1. UNCHANGED <<files, renewal, cg>>
    BY <1>2 DEF Certificate!ReadKey
  <2>2. /\ reload' \in [Reloader -> Reloads]
        /\ \A s \in Reloader : reload'[s].cert = reload[s].cert /\ reload'[s].since = reload[s].since
        /\ \A s \in Reloader : reload'[s].pc # "idle" => reload[s].pc # "idle"
    BY <1>2, ReadKeyReads
  <2> QED BY <2>1, <2>2
<1>3. CASE Certificate!Unreadable(r) \/ Certificate!Reject(r)
  <2>1. reload' = [reload EXCEPT ![r] = Certificate!Idle] /\ UNCHANGED <<files, renewal, cg>>
    BY <1>3 DEF Certificate!Unreadable, Certificate!Reject
  <2> QED BY <2>1 DEF Certificate!Idle, Certificate!NoCert, Reloads
<1>4. CASE Certificate!Install(r)
  BY <1>4 DEF Certificate!Install, Certificate!KeyPair, Certificate!Idle, Certificate!NoCert, Reloads
<1> QED BY <1>1, <1>2, <1>3, <1>4 DEF Certificate!Step

LEMMA ReloadKeepsWhole ==
  ASSUME CertificateCore, WholeSince, NEW r \in Reloader, Certificate!Step(r)
  PROVE  WholeSince'
<1> USE DEF Torn, Certificate!Torn, WholeSince, Ahead, Gone
<1>1. CASE Certificate!ReadCert(r)
  <2>1. /\ UNCHANGED <<files, renewal>> /\ \A s \in Reloader : s # r => reload'[s] = reload[s]
        /\ reload'[r] = BegunReload
    BY <1>1, ReadCertBegins DEF Certificate!ReadCert, CertificateCore, CertificateTypes
  <2>2. files["cert"] \in Int /\ renewal \in Int /\ files["cert"] <= renewal
    BY DEF CertificateCore, CertificateTypes, Certificate!File
  <2>3. /\ BegunReload.cert = files["cert"] /\ BegunReload.pc = "key"
        /\ BegunReload.whole = Certificate!Whole(files)
    BY <1>1, ReadCertBegins
  <2>4. files["cert"] # Torn /\ files["key"] = files["cert"] => files["cert"] \in Certificate!Whole(files)
    BY DEF Certificate!Whole
  <2> QED BY <2>1, <2>2, <2>3, <2>4
<1>2. CASE Certificate!ReadKey(r)
  <2>1. UNCHANGED <<files, renewal>>
    BY <1>2 DEF Certificate!ReadKey
  <2>2. /\ reload'[r].cert = reload[r].cert /\ reload'[r].whole = reload[r].whole
        /\ reload'[r].key = files["key"] /\ reload'[r].pc = "check" /\ reload[r].pc = "key"
        /\ \A s \in Reloader : s # r => reload'[s] = reload[s]
    BY <1>2, ReadKeyReads
  <2> QED BY <2>1, <2>2
<1>3. CASE Certificate!Unreadable(r) \/ Certificate!Reject(r) \/ Certificate!Install(r)
  <2>1. reload' = [reload EXCEPT ![r] = Certificate!Idle] /\ UNCHANGED <<files, renewal>>
    BY <1>3 DEF Certificate!Unreadable, Certificate!Reject, Certificate!Install
  <2> QED BY <2>1 DEF Certificate!Idle, CertificateCore, CertificateTypes
<1> QED BY <1>1, <1>2, <1>3 DEF Certificate!Step

(* What the history adds when a file is written to its end.                *)
LEMMA EndWriteSees ==
  ASSUME CertificateCore, NEW f \in Certificate!File, Certificate!EndWrite(f)
  PROVE  /\ reload' \in [Reloader -> Reloads]
         /\ \A s \in Reloader :
              /\ reload'[s].pc = reload[s].pc /\ reload'[s].since = reload[s].since
              /\ reload'[s].cert = reload[s].cert /\ reload'[s].key = reload[s].key
              /\ reload[s].whole \subseteq reload'[s].whole
              /\ reload[s].pc # "idle" => Certificate!Whole(files') \subseteq reload'[s].whole
<1>1. reload' = [r \in Reloader |->
                   IF reload[r].pc = "idle" THEN reload[r]
                   ELSE [reload[r] EXCEPT !.whole = @ \cup Certificate!Whole(files')]]
  BY DEF Certificate!EndWrite
<1>2. Certificate!Whole(files') \subseteq Int
  <2>1. files' = [files EXCEPT ![f] = renewal]
    BY DEF Certificate!EndWrite
  <2> QED BY <2>1 DEF Certificate!Whole, CertificateCore, CertificateTypes, Certificate!File
<1> HIDE DEF Certificate!Whole
<1> QED BY <1>1, <1>2 DEF CertificateCore, CertificateTypes, Reloads

LEMMA OperatorPreserves ==
  ASSUME CertificateCore, Certificate!Operator
  PROVE  CertificateCore'
<1> USE DEF Torn, Certificate!Torn, Certificate!File, CertificateCore, CertificateTypes,
            DiskAdvances, ReadSince
<1>1. CASE Certificate!StartRenewal
  <2>1. /\ files["cert"] = renewal /\ files["key"] = renewal /\ renewal' = renewal + 1
        /\ files' \in [Certificate!File -> Int] /\ UNCHANGED <<cg, reload>>
        /\ \A f \in Certificate!File : files'[f] \in {Torn, renewal}
    BY <1>1 DEF Certificate!StartRenewal
  <2>2. CertificateTypes'
    BY <2>1
  <2>3. DiskAdvances' /\ ReadSince'
    BY <2>1 DEF Reloads
  <2> QED BY <2>2, <2>3
<1>2. ASSUME NEW f \in Certificate!File, Certificate!EndWrite(f) PROVE CertificateCore'
  <2>1. files' = [files EXCEPT ![f] = renewal] /\ UNCHANGED <<renewal, cg>>
    BY <1>2 DEF Certificate!EndWrite
  <2>2. /\ reload' \in [Reloader -> Reloads]
        /\ \A s \in Reloader :
             /\ reload'[s].pc = reload[s].pc /\ reload'[s].since = reload[s].since
             /\ reload'[s].cert = reload[s].cert
    BY <1>2, EndWriteSees
  <2>3. renewal \in Int /\ renewal # Torn
    OBVIOUS
  <2>4. CertificateTypes'
    BY <2>1, <2>2, <2>3
  <2>5. DiskAdvances' /\ ReadSince'
    BY <2>1, <2>2, <2>3 DEF Reloads
  <2> QED BY <2>4, <2>5
<1>3. ASSUME NEW f \in Certificate!File, Certificate!StartOther(f) PROVE CertificateCore'
  BY <1>3 DEF Certificate!StartOther
<1> QED BY <1>1, <1>2, <1>3 DEF Certificate!Operator

LEMMA OperatorKeepsWhole ==
  ASSUME CertificateCore, WholeSince, Certificate!Operator
  PROVE  WholeSince'
<1> USE DEF Torn, Certificate!Torn, Certificate!File, CertificateCore, CertificateTypes,
            WholeSince, Ahead, Gone
<1>1. CASE Certificate!StartRenewal
  <2>1. /\ files["cert"] = renewal /\ files["key"] = renewal /\ renewal' = renewal + 1
        /\ files' \in [Certificate!File -> Int]
        /\ files'["cert"] = Torn \/ files'["key"] = Torn
        /\ files'["cert"] \in {Torn, renewal} /\ files'["key"] \in {Torn, renewal}
        /\ UNCHANGED reload
    BY <1>1 DEF Certificate!StartRenewal
  <2>2. ASSUME NEW r \in Reloader, reload[r].pc = "key", reload[r].cert # Torn,
               reload[r].cert \notin reload[r].whole
        PROVE  reload[r].cert < renewal' /\ files'["key"] # reload[r].cert
    <3>1. reload[r].cert \in Int /\ reload[r].cert # renewal
      BY <2>1, <2>2 DEF Reloads
    <3>2. Gone(reload[r].cert)
      BY <2>1, <2>2, <3>1
    <3>3. renewal \in Int /\ reload[r].cert < renewal
      BY <3>2
    <3> QED BY <2>1, <2>2, <3>1, <3>3
  <2>3. ~ (files'["cert"] # Torn /\ files'["key"] = files'["cert"])
    BY <2>1
  <2> QED BY <2>1, <2>2, <2>3
<1>2. ASSUME NEW f \in Certificate!File, Certificate!EndWrite(f) PROVE WholeSince'
  <2>1. /\ files' = [files EXCEPT ![f] = renewal] /\ files[f] = Torn /\ UNCHANGED renewal
        /\ files'[f] = renewal /\ renewal # Torn
    BY <1>2 DEF Certificate!EndWrite
  <2>2. \A s \in Reloader :
          /\ reload'[s].pc = reload[s].pc /\ reload'[s].cert = reload[s].cert
          /\ reload'[s].key = reload[s].key /\ reload[s].whole \subseteq reload'[s].whole
          /\ reload[s].pc # "idle" => Certificate!Whole(files') \subseteq reload'[s].whole
    BY <1>2, EndWriteSees
  <2>3. files'["cert"] # Torn /\ files'["key"] = files'["cert"] =>
          files'["cert"] \in Certificate!Whole(files')
    BY DEF Certificate!Whole
  <2>4. ASSUME NEW r \in Reloader, reload[r].cert # Torn, Ahead(reload[r].cert)
        PROVE  Ahead(reload[r].cert)'
    BY <2>1, <2>2, <2>4
  <2>5. ASSUME NEW r \in Reloader, reload[r].cert # Torn, Gone(reload[r].cert)
        PROVE  Gone(reload[r].cert)'
    BY <2>1, <2>2, <2>5 DEF Reloads
  <2> QED BY <2>2, <2>3, <2>4, <2>5
<1>3. ASSUME NEW f \in Certificate!File, Certificate!StartOther(f) PROVE WholeSince'
  BY <1>3 DEF Certificate!StartOther, Reloads
<1> QED BY <1>1, <1>2, <1>3 DEF Certificate!Operator

LEMMA CertificateStep ==
  CertificateInv /\ [Certificate!Next]_(Certificate!vars) => CertificateInv'
<1> SUFFICES ASSUME CertificateInv, [Certificate!Next]_(Certificate!vars) PROVE CertificateInv'
  OBVIOUS
<1>1. CASE Certificate!Next
  BY <1>1, ReloadPreserves, OperatorPreserves, ReloadKeepsWhole, OperatorKeepsWhole
     DEF Certificate!Next, CertificateInv
<1>2. CASE UNCHANGED Certificate!vars
  BY <1>2 DEF Certificate!vars, CertificateInv, CertificateCore, CertificateTypes,
              DiskAdvances, ReadSince, WholeSince, Ahead, Gone
<1> QED BY <1>1, <1>2

(* Only a Reload that ends well changes what is served.                    *)
LEMMA OnlyInstallServes ==
  ASSUME CertificateInv, [Certificate!Next]_(Certificate!vars), NEW r \in Reloader,
         reload[r].pc # "idle", reload'[r].pc = "idle", cg' # cg
  PROVE  Certificate!Install(r)
<1>1. PICK s \in Reloader : Certificate!Install(s)
  BY DEF Certificate!Next, Certificate!Step, Certificate!Operator,
         Certificate!StartRenewal, Certificate!EndWrite, Certificate!StartOther,
         Certificate!ReadCert, Certificate!ReadKey,
         Certificate!Unreadable, Certificate!Reject, Certificate!vars
<1>2. s = r
  BY <1>1 DEF Certificate!Install, CertificateInv, CertificateCore, CertificateTypes, Reloads
<1> QED BY <1>1, <1>2

(* What a Reload begins to serve lay on disk at one moment since it began. *)
THEOREM InstalledWhole == Certificate!Spec => InstalledWasWhole
<1> DEFINE WasWhole ==
      \A r \in Reloader :
        reload[r].pc # "idle" /\ reload'[r].pc = "idle" /\ cg' # cg
          => cg'.cert \in reload[r].whole /\ cg'.key = cg'.cert
<1>1. CertificateInv /\ [Certificate!Next]_(Certificate!vars) => [WasWhole]_<<cg, reload>>
  <2> SUFFICES ASSUME CertificateInv, [Certificate!Next]_(Certificate!vars),
                      NEW r \in Reloader, reload[r].pc # "idle", reload'[r].pc = "idle",
                      cg' # cg
               PROVE  cg'.cert \in reload[r].whole /\ cg'.key = cg'.cert
    OBVIOUS
  <2>1. Certificate!Install(r)
    BY OnlyInstallServes
  <2> QED BY <2>1 DEF Certificate!Install, Certificate!KeyPair, Torn, Certificate!Torn,
                      CertificateInv, WholeSince
<1> QED BY CertificateInit, CertificateStep, <1>1, PTL DEF Certificate!Spec, InstalledWasWhole

(* No Reload brings back what had been replaced when it began.             *)
THEOREM NeverBackBeforeStart == Certificate!Spec => NeverOlderThanAtStart
<1> DEFINE Advances ==
      \A r \in Reloader :
        reload[r].pc # "idle" /\ reload'[r].pc = "idle" /\ cg' # cg
          => cg'.cert >= reload[r].since
<1>1. CertificateInv /\ [Certificate!Next]_(Certificate!vars) => [Advances]_<<cg, reload>>
  <2> SUFFICES ASSUME CertificateInv, [Certificate!Next]_(Certificate!vars),
                      NEW r \in Reloader, reload[r].pc # "idle", reload'[r].pc = "idle",
                      cg' # cg
               PROVE  cg'.cert >= reload[r].since
    OBVIOUS
  <2>1. Certificate!Install(r)
    BY OnlyInstallServes
  <2> QED BY <2>1 DEF Certificate!Install, Certificate!KeyPair, Torn, Certificate!Torn,
                      CertificateInv, CertificateCore, CertificateTypes, Reloads, ReadSince
<1> QED BY CertificateInit, CertificateStep, <1>1, PTL DEF Certificate!Spec,
    NeverOlderThanAtStart

-----------------------------------------------------------------------------
(* CachingFileReader.                                                      *)

Readings ==
  [pc : {"idle", "return", "lock", "read", "store"}, buf : Int, readAt : Nat, floor : Int]

ReaderTypes ==
  /\ clock \in Nat /\ latest \in Nat /\ disk \in {Cached!Missing, latest}
  /\ cache \in [buf : Int, expiry : Nat] /\ delivered \in Int
  /\ reader \in [Reader -> Readings]

(* Whoever is between Lock and Unlock holds the lock.                      *)
Exclusive == \A r \in Reader : reader[r].pc \in {"read", "store"} <=> lock = r

(* The cache never goes back: what was delivered or is being returned is   *)
(* at most as new, what was read under the lock at least as new.           *)
CacheAdvances ==
  /\ delivered <= cache.buf /\ Cached!Missing <= cache.buf /\ cache.buf <= latest
  /\ \A r \in Reader :
       /\ reader[r].pc \in {"lock", "read", "store"} => reader[r].floor <= cache.buf
       /\ reader[r].pc = "return" =>
            reader[r].floor <= reader[r].buf /\ reader[r].buf <= cache.buf
       /\ reader[r].pc = "store" =>
            cache.buf <= reader[r].buf /\ reader[r].buf \in 0..latest

OrderInv == ReaderTypes /\ Exclusive /\ CacheAdvances

LEMMA InitOrder == Cached!Init => OrderInv
BY SharedAssumption DEF Cached!Init, Cached!Idle, Cached!Missing, OrderInv, ReaderTypes,
                        Readings, Exclusive, CacheAdvances

(* The locals of a reader that queues for the lock.                        *)
Queued == [pc |-> "lock", buf |-> Cached!Missing, readAt |-> 0, floor |-> delivered]

LEMMA StaleQueues ==
  ASSUME NEW r \in Reader, Cached!Stale(r)
  PROVE  reader' = [reader EXCEPT ![r] = Queued]
<1> DEFINE locked == [Cached!Idle EXCEPT !.pc = "lock"]
<1>1. locked = [pc |-> "lock", buf |-> Cached!Missing, readAt |-> 0,
floor |-> Cached!Missing]
  BY DEF Cached!Idle
<1>2. [locked EXCEPT !.floor = delivered] = Queued
  <2> HIDE DEF locked
  <2> QED BY <1>1 DEF Queued
<1> QED BY <1>2, Zenon DEF Cached!Stale

LEMMA ReaderPreservesOrder ==
  ASSUME OrderInv, NEW r \in Reader, Cached!Step(r)
  PROVE  OrderInv'
<1> USE SharedAssumption DEF OrderInv, ReaderTypes, Readings, Exclusive, CacheAdvances,
                             Cached!Missing
<1>1. CASE Cached!FastPath(r)
  BY <1>1 DEF Cached!FastPath
<1>2. CASE Cached!Stale(r)
  <2>1. Queued \in Readings /\ reader' = [reader EXCEPT ![r] = Queued]
    BY <1>2, StaleQueues DEF Queued
  <2>2. UNCHANGED <<clock, disk, latest, endedAt, cache, lock,
  delivered>> /\ reader[r].pc = "idle"
    BY <1>2 DEF Cached!Stale
  <2> QED BY <2>1, <2>2 DEF Queued
<1>3. CASE Cached!TakeLock(r)
  BY <1>3 DEF Cached!TakeLock
<1>4. CASE Cached!ReadDisk(r)
  <2>1. CASE disk = Cached!Missing
    BY <1>4, <2>1 DEF Cached!ReadDisk, Cached!Idle
  <2>2. CASE disk # Cached!Missing
    BY <1>4, <2>2 DEF Cached!ReadDisk
  <2> QED BY <2>1, <2>2
<1>5. CASE Cached!StoreCache(r)
  BY <1>5 DEF Cached!StoreCache
<1>6. CASE Cached!Return(r)
  BY <1>6 DEF Cached!Return, Cached!Idle
<1> QED BY <1>1, <1>2, <1>3, <1>4, <1>5, <1>6 DEF Cached!Step

LEMMA OrderPreserved ==
  ASSUME OrderInv, [Cached!Next]_(Cached!vars)
  PROVE  OrderInv'
<1>1. CASE \E r \in Reader : Cached!Step(r)
  BY <1>1, ReaderPreservesOrder
<1>2. CASE Cached!Rewrite \/ Cached!Remove \/ Cached!Tick \/ UNCHANGED Cached!vars
  BY <1>2 DEF Cached!Rewrite, Cached!Remove, Cached!Tick, Cached!vars, OrderInv,
              ReaderTypes, Exclusive, CacheAdvances, Cached!Missing
<1> QED BY <1>1, <1>2 DEF Cached!Next

LEMMA OrderTheorem == Cached!Spec => []OrderInv
<1>1. Cached!Init => OrderInv
  BY InitOrder
<1>2. OrderInv /\ [Cached!Next]_(Cached!vars) => OrderInv'
  BY OrderPreserved
<1> QED BY <1>1, <1>2, PTL DEF Cached!Spec

(* Callers never see the file go back.                                     *)
THEOREM NeverBack == Cached!Spec => []MonotonicReads
<1>1. OrderInv => MonotonicReads
  BY DEF OrderInv, CacheAdvances, MonotonicReads
<1>2. Cached!Spec => []OrderInv
  BY OrderTheorem
<1> QED BY <1>1, <1>2, PTL

-----------------------------------------------------------------------------
(* A version that ended is not on disk again; what was read lasted at      *)
(* least until then; and the cache expires in time.                        *)
EndedBefore ==
  \A v \in DOMAIN endedAt : v \in 0..latest /\ v # disk /\ endedAt[v] \in Nat

ReadWhileOnDisk ==
  \A r \in Reader : reader[r].pc = "store" =>
    /\ reader[r].readAt <= clock /\ clock - reader[r].readAt <= MaxReadTime
    /\ reader[r].buf \in DOMAIN endedAt => reader[r].readAt <= endedAt[reader[r].buf]

CacheExpires ==
  /\ cache.expiry <= clock + Ttl
  /\ cache.buf \in DOMAIN endedAt => cache.expiry - endedAt[cache.buf] <= Ttl + MaxReadTime

AnsweredBefore == \A r \in Reader : reader[r].pc = "return" => reader[r].readAt <= clock

StaleInv == EndedBefore /\ ReadWhileOnDisk /\ CacheExpires /\ AnsweredBefore /\ BoundedStaleness

LEMMA InitStale == Cached!Init => StaleInv
BY SharedAssumption DEF Cached!Init, Cached!Idle, StaleInv, EndedBefore, ReadWhileOnDisk,
                        CacheExpires,
       AnsweredBefore, BoundedStaleness

LEMMA ReaderPreservesStale ==
  ASSUME OrderInv, StaleInv, NEW r \in Reader, Cached!Step(r)
  PROVE  StaleInv'
<1> USE SharedAssumption DEF OrderInv, ReaderTypes, Readings, Cached!Missing,
            StaleInv, EndedBefore, ReadWhileOnDisk, CacheExpires, AnsweredBefore,
            BoundedStaleness
<1>1. CASE Cached!FastPath(r)
  BY <1>1 DEF Cached!FastPath
<1>2. CASE Cached!Stale(r)
  <2>1. reader' = [reader EXCEPT ![r] = Queued]
    BY <1>2, StaleQueues
  <2>2. UNCHANGED <<clock, disk, latest, endedAt, cache, lock, delivered>>
    BY <1>2 DEF Cached!Stale
  <2> QED BY <2>1, <2>2 DEF Queued
<1>3. CASE Cached!TakeLock(r)
  BY <1>3 DEF Cached!TakeLock
<1>4. CASE Cached!ReadDisk(r)
  <2>1. CASE disk = Cached!Missing
    BY <1>4, <2>1 DEF Cached!ReadDisk, Cached!Idle
  <2>2. CASE disk # Cached!Missing
    BY SMTT(30), <1>4, <2>2 DEF Cached!ReadDisk
  <2> QED BY <2>1, <2>2
<1>5. CASE Cached!StoreCache(r)
  BY <1>5 DEF Cached!StoreCache
<1>6. CASE Cached!Return(r)
  BY <1>6 DEF Cached!Return, Cached!Idle
<1> QED BY <1>1, <1>2, <1>3, <1>4, <1>5, <1>6 DEF Cached!Step

(* The version on disk ends now: it is the only one whose end is new.      *)
LEMMA EndPreservesStale ==
  ASSUME OrderInv, StaleInv, Cached!Rewrite \/ Cached!Remove
  PROVE  StaleInv'
<1>1. /\ DOMAIN endedAt' = DOMAIN endedAt \cup ({disk} \ {Cached!Missing})
      /\ \A v \in DOMAIN endedAt : endedAt'[v] = endedAt[v]
      /\ disk # Cached!Missing => endedAt'[disk] = clock
      /\ UNCHANGED <<clock, cache, lock, reader, delivered>>
  BY DEF Cached!Rewrite, Cached!Remove, Cached!Ended, StaleInv, EndedBefore
<1>2. /\ latest' \in Nat /\ latest <= latest' /\ disk' \notin DOMAIN endedAt'
      /\ disk \in 0..latest \/ disk = Cached!Missing
  BY <1>1 DEF Cached!Rewrite, Cached!Remove, StaleInv, EndedBefore, OrderInv, ReaderTypes,
              Cached!Missing
<1> USE SharedAssumption DEF OrderInv, ReaderTypes, Readings, Cached!Missing, StaleInv
<1>3. EndedBefore'
  BY <1>1, <1>2 DEF EndedBefore
<1>4. ReadWhileOnDisk'
  BY <1>1 DEF ReadWhileOnDisk
<1>5. CacheExpires' /\ AnsweredBefore'
  BY <1>1 DEF CacheExpires, AnsweredBefore
<1>6. BoundedStaleness'
  BY <1>1 DEF BoundedStaleness, AnsweredBefore
<1> QED BY <1>3, <1>4, <1>5, <1>6

LEMMA StalePreserved ==
  ASSUME OrderInv, StaleInv, [Cached!Next]_(Cached!vars)
  PROVE  StaleInv'
<1>1. CASE \E r \in Reader : Cached!Step(r)
  BY <1>1, ReaderPreservesStale
<1>2. CASE Cached!Rewrite \/ Cached!Remove
  BY <1>2, EndPreservesStale
<1>3. CASE Cached!Tick
  BY <1>3, SharedAssumption DEF Cached!Tick, OrderInv, ReaderTypes, Readings, StaleInv,
                                EndedBefore,
              ReadWhileOnDisk, CacheExpires, AnsweredBefore, BoundedStaleness
<1>4. CASE UNCHANGED Cached!vars
  BY <1>4 DEF Cached!vars, StaleInv, EndedBefore, ReadWhileOnDisk, CacheExpires,
              AnsweredBefore,
              BoundedStaleness
<1> QED BY <1>1, <1>2, <1>3, <1>4 DEF Cached!Next

LEMMA StaleTheorem == Cached!Spec => []StaleInv
<1>1. Cached!Init => StaleInv
  BY InitStale
<1>2. OrderInv /\ StaleInv /\ [Cached!Next]_(Cached!vars) => StaleInv'
  BY StalePreserved
<1> QED BY <1>1, <1>2, OrderTheorem, PTL DEF Cached!Spec

(* An answer is of a version that was on disk less than ttl and the time   *)
(* of a read ago.                                                          *)
THEOREM StalenessBounded == Cached!Spec => []BoundedStaleness
<1>1. StaleInv => BoundedStaleness
  BY DEF StaleInv
<1> QED BY <1>1, StaleTheorem, PTL

-----------------------------------------------------------------------------
(* GatedWriter.                                                            *)

(* What is in two sequences put together, and when it is there once.       *)
LEMMA ToSetOfConcat ==
  ASSUME NEW S, NEW s \in Seq(S), NEW t \in Seq(S)
  PROVE  Gate!ToSet(s \o t) = Gate!ToSet(s) \cup Gate!ToSet(t)
<1>1. /\ DOMAIN s = 1..Len(s) /\ DOMAIN t = 1..Len(t) /\ Len(s) \in Nat /\ Len(t) \in Nat
      /\ s \o t \in Seq(S) /\ DOMAIN (s \o t) = 1..(Len(s) + Len(t))
  BY LenProperties, ConcatProperties
<1>2. \A i \in DOMAIN s : i \in DOMAIN (s \o t) /\ (s \o t)[i] = s[i]
  BY <1>1, ConcatProperties
<1>3. \A j \in DOMAIN t : j + Len(s) \in DOMAIN (s \o t) /\ (s \o t)[j + Len(s)] = t[j]
  BY <1>1, ConcatProperties
<1>4. \A i \in DOMAIN (s \o t) :
        \/ i \in DOMAIN s /\ (s \o t)[i] = s[i]
        \/ i - Len(s) \in DOMAIN t /\ (s \o t)[i] = t[i - Len(s)]
  BY <1>1, ConcatProperties
<1>5. Gate!ToSet(s) \cup Gate!ToSet(t) \subseteq Gate!ToSet(s \o t)
  BY <1>2, <1>3 DEF Gate!ToSet
<1>6. Gate!ToSet(s \o t) \subseteq Gate!ToSet(s) \cup Gate!ToSet(t)
  BY <1>4 DEF Gate!ToSet
<1> QED BY <1>5, <1>6

LEMMA InjectiveConcat ==
  ASSUME NEW S, NEW s \in Seq(S), NEW t \in Seq(S)
  PROVE  Gate!IsInjective(s \o t) <=>
           /\ Gate!IsInjective(s) /\ Gate!IsInjective(t)
           /\ Gate!ToSet(s) \cap Gate!ToSet(t) = {}
<1>1. /\ DOMAIN s = 1..Len(s) /\ DOMAIN t = 1..Len(t) /\ Len(s) \in Nat /\ Len(t) \in Nat
      /\ s \o t \in Seq(S) /\ DOMAIN (s \o t) = 1..(Len(s) + Len(t))
  BY LenProperties, ConcatProperties
<1>2. \A i \in DOMAIN s : i \in DOMAIN (s \o t) /\ (s \o t)[i] = s[i]
  BY <1>1, ConcatProperties
<1>3. \A j \in DOMAIN t : j + Len(s) \in DOMAIN (s \o t) /\ (s \o t)[j + Len(s)] = t[j]
  BY <1>1, ConcatProperties
<1>4. \A i \in DOMAIN (s \o t) :
        \/ i \in DOMAIN s /\ (s \o t)[i] = s[i]
        \/ i - Len(s) \in DOMAIN t /\ (s \o t)[i] = t[i - Len(s)]
  BY <1>1, ConcatProperties
<1>5. ASSUME Gate!IsInjective(s \o t) PROVE Gate!IsInjective(s)
  BY <1>2, <1>5 DEF Gate!IsInjective
<1>6. ASSUME Gate!IsInjective(s \o t) PROVE Gate!IsInjective(t)
  <2> SUFFICES ASSUME NEW i \in DOMAIN t, NEW j \in DOMAIN t, t[i] = t[j] PROVE i = j
    BY DEF Gate!IsInjective
  <2>1. i + Len(s) = j + Len(s)
    BY <1>3, <1>6 DEF Gate!IsInjective
  <2> QED BY <1>1, <2>1
<1>7. ASSUME Gate!IsInjective(s \o t) PROVE Gate!ToSet(s) \cap Gate!ToSet(t) = {}
  <2> SUFFICES ASSUME NEW i \in DOMAIN s, NEW j \in DOMAIN t, s[i] = t[j] PROVE FALSE
    BY DEF Gate!ToSet
  <2>1. i = j + Len(s)
    BY <1>2, <1>3, <1>7 DEF Gate!IsInjective
  <2> QED BY <1>1, <2>1
<1>8. ASSUME Gate!IsInjective(s), Gate!IsInjective(t), Gate!ToSet(s) \cap Gate!ToSet(t) = {}
      PROVE  Gate!IsInjective(s \o t)
  <2> SUFFICES ASSUME NEW i \in DOMAIN (s \o t), NEW j \in DOMAIN (s \o t),
                      (s \o t)[i] = (s \o t)[j]
               PROVE  i = j
    BY DEF Gate!IsInjective
  <2>1. \A a \in DOMAIN s, b \in DOMAIN t : s[a] # t[b]
    BY <1>8 DEF Gate!ToSet
  <2>2. CASE i \in DOMAIN s /\ j \in DOMAIN s
    BY <1>2, <1>8, <2>2 DEF Gate!IsInjective
  <2>3. CASE i \notin DOMAIN s /\ j \notin DOMAIN s
    <3>1. i - Len(s) = j - Len(s)
      BY <1>4, <1>8, <2>3 DEF Gate!IsInjective
    <3> QED BY <1>1, <3>1
  <2>4. CASE ~ (i \in DOMAIN s <=> j \in DOMAIN s)
    BY <1>4, <2>1, <2>4
  <2> QED BY <2>2, <2>3, <2>4
<1> QED BY <1>5, <1>6, <1>7, <1>8

(* The first taken bytes of a Write: new ones, each once.                  *)
LEMMA FreshBytes ==
  ASSUME NEW n \in Nat, NEW taken \in 0..n, offered \in Nat
  PROVE  /\ SubSeq(Gate!Bytes(n), 1, taken) \in Seq(1..(offered + n))
         /\ Gate!IsInjective(SubSeq(Gate!Bytes(n), 1, taken))
         /\ Gate!ToSet(SubSeq(Gate!Bytes(n), 1, taken)) \cap 1..offered = {}
<1> DEFINE b == Gate!Bytes(n)
           p == SubSeq(b, 1, taken)
<1>1. \A i \in 1..taken : b[i] = offered + i /\ b[i] \in 1..(offered + n)
  BY DEF Gate!Bytes
<1> HIDE DEF b
<1>2. p \in Seq(1..(offered + n)) /\ Len(p) = taken /\ \A i \in 1..taken : p[i] = b[1 + i - 1]
  BY <1>1, SubSeqProperties
<1>3. \A i \in 1..taken : p[i] = offered + i
  BY <1>1, <1>2
<1>4. DOMAIN p = 1..taken
  BY <1>2, LenProperties
<1> HIDE DEF p
<1>5. Gate!IsInjective(p) /\ Gate!ToSet(p) \cap 1..offered = {}
  BY <1>3, <1>4 DEF Gate!IsInjective, Gate!ToSet
<1> QED BY <1>2, <1>5 DEF p, b

(* Behind an open gate bytes are held only after a Flush that failed.      *)
HeldOnlyIfFailed == flush /\ ~ failedFlush => buf = << >>

GateInv == Gate!TypeOK /\ HeldOnlyIfFailed /\ NothingLostOrDoubled

LEMMA GateInit == Gate!Init => GateInv
<1> SUFFICES ASSUME Gate!Init PROVE GateInv
  OBVIOUS
<1>1. flush = FALSE /\ buf = << >> /\ out = << >> /\ offered = 0 /\ accepted = << >>
      /\ failedFlush = FALSE
  BY DEF Gate!Init
<1>2. << >> \in Seq(1..0) /\ << >> \o << >> = << >>
  BY EmptySeq, ConcatEmptySeq
<1>3. Gate!TypeOK /\ HeldOnlyIfFailed
  <2>1. \A s \in {buf, out, accepted} : s = << >>
    BY <1>1
  <2>2. << >> \in Seq(1..offered) /\ offered \in 0..MaxByte
    BY <1>1, <1>2, SharedAssumption
  <2> QED BY <1>1, <2>1, <2>2 DEF Gate!TypeOK, HeldOnlyIfFailed
<1>4. NothingLostOrDoubled
  BY <1>1, <1>2 DEF NothingLostOrDoubled, Gate!NothingLostOrDoubled, Gate!IsInjective
<1> QED BY <1>3, <1>4 DEF GateInv

(* More may have been offered since.                                       *)
LEMMA StillTyped ==
  ASSUME offered \in Nat, NEW n \in Nat, NEW s \in Seq(1..offered)
  PROVE  s \in Seq(1..(offered + n)) /\ Gate!ToSet(s) \subseteq 1..offered
<1>1. 1..offered \subseteq 1..(offered + n)
  OBVIOUS
<1>2. s \in Seq(1..(offered + n))
  BY <1>1, SeqMonotonic
<1>3. \A i \in DOMAIN s : s[i] \in 1..offered
  BY LenProperties, ElementOfSeq
<1> QED BY <1>2, <1>3 DEF Gate!ToSet

(* A closed gate: the buffer gets what Write says it wrote.                *)
LEMMA BufferedPreserves ==
  ASSUME GateInv, NEW n \in 1..MaxWrite, offered + n <= MaxByte, Gate!Buffered(n)
  PROVE  GateInv'
<1> DEFINE b == Gate!Bytes(n)
           S == 1..(offered + n)
<1>1. /\ ~ flush /\ buf' = buf \o b /\ accepted' = accepted \o b /\ offered' = offered + n
      /\ out' = out /\ flush' = flush /\ failedFlush' = failedFlush /\ n \in Nat
  BY SharedAssumption DEF Gate!Buffered
<1>2. /\ flush \in BOOLEAN /\ failedFlush \in BOOLEAN /\ offered \in Nat /\ offered' \in 0..MaxByte
      /\ buf \in Seq(1..offered) /\ out \in Seq(1..offered) /\ accepted \in Seq(1..offered)
      /\ out = << >>
  BY <1>1, SharedAssumption DEF GateInv, Gate!TypeOK
<1>3. b \in Seq(S) /\ Gate!IsInjective(b) /\ Gate!ToSet(b) \cap 1..offered = {}
  <2>1. \A i \in 1..n : b[i] = offered + i /\ b[i] \in S
    BY <1>1, <1>2 DEF Gate!Bytes
  <2>2. b \in Seq(S) /\ Len(b) = n
    BY <1>1, <1>2 DEF Gate!Bytes
  <2>3. SubSeq(b, 1, n) = b
    BY <2>2, SubSeqFull
  <2>4. n \in 0..n
    BY <1>1
  <2> HIDE DEF b
  <2> QED BY <1>1, <1>2, <2>2, <2>3, <2>4, FreshBytes DEF b
<1>4. /\ buf \in Seq(S) /\ out \in Seq(S) /\ accepted \in Seq(S)
      /\ out \o buf \in Seq(S) /\ Gate!ToSet(out \o buf) \subseteq 1..offered
      /\ buf' \in Seq(S) /\ accepted' \in Seq(S)
  BY <1>1, <1>2, <1>3, StillTyped, ConcatProperties
<1> HIDE DEF b, S
<1>5. out' \o buf' = (out \o buf) \o b
  <2>1. (out \o buf) \o b = out \o (buf \o b)
    <3>1. out \in Seq(S) /\ buf \in Seq(S) /\ b \in Seq(S)
      BY <1>3, <1>4
    <3> QED BY <3>1, ConcatAssociative
  <2> QED BY <1>1, <2>1
<1>6. NothingLostOrDoubled
  BY DEF GateInv
<1>7. Gate!IsInjective(out' \o buf') /\ Gate!ToSet(out' \o buf') = Gate!ToSet(accepted')
  <2>1. Gate!IsInjective(out \o buf) /\ Gate!ToSet(out \o buf) = Gate!ToSet(accepted)
    BY <1>6 DEF NothingLostOrDoubled, Gate!NothingLostOrDoubled
  <2>2. Gate!IsInjective((out \o buf) \o b)
    <3>1. Gate!ToSet(out \o buf) \cap Gate!ToSet(b) = {}
      BY <1>3, <1>4
    <3> QED BY <1>3, <1>4, <2>1, <3>1, InjectiveConcat
  <2>3. /\ Gate!ToSet((out \o buf) \o b) = Gate!ToSet(out \o buf) \cup Gate!ToSet(b)
        /\ Gate!ToSet(accepted \o b) = Gate!ToSet(accepted) \cup Gate!ToSet(b)
    <3>1. accepted \in Seq(S) /\ out \o buf \in Seq(S) /\ b \in Seq(S)
      BY <1>3, <1>4
    <3>2. Gate!ToSet((out \o buf) \o b) = Gate!ToSet(out \o buf) \cup Gate!ToSet(b)
      BY ZenonT(30), <3>1, ToSetOfConcat
    <3>3. Gate!ToSet(accepted \o b) = Gate!ToSet(accepted) \cup Gate!ToSet(b)
      BY <3>1, ToSetOfConcat
    <3> QED BY <3>2, <3>3
  <2> QED BY <1>1, <1>5, <2>1, <2>2, <2>3
<1>8. NothingLostOrDoubled'
  BY <1>1, <1>5, <1>6, <1>7 DEF NothingLostOrDoubled, Gate!NothingLostOrDoubled
<1>9. Gate!TypeOK' /\ HeldOnlyIfFailed'
  BY <1>1, <1>2, <1>4 DEF S, Gate!TypeOK, HeldOnlyIfFailed
<1> QED BY <1>8, <1>9 DEF GateInv

(* An open gate: the output gets as many new bytes as Write says.          *)
LEMMA PassedPreserves ==
  ASSUME GateInv, NEW n \in 1..MaxWrite, offered + n <= MaxByte, Gate!Passed(n)
  PROVE  GateInv'
<1> DEFINE S == 1..(offered + n)
<1>1. PICK taken \in 0..n :
        /\ out' = out \o SubSeq(Gate!Bytes(n), 1, taken)
        /\ accepted' = accepted \o SubSeq(Gate!Bytes(n), 1, taken)
  BY DEF Gate!Passed
<1> DEFINE p == SubSeq(Gate!Bytes(n), 1, taken)
<1>2. /\ flush /\ offered' = offered + n /\ n \in Nat
      /\ buf' = buf /\ flush' = flush /\ failedFlush' = failedFlush
  BY SharedAssumption DEF Gate!Passed
<1>3. /\ flush \in BOOLEAN /\ failedFlush \in BOOLEAN /\ offered \in Nat /\ offered' \in 0..MaxByte
      /\ buf \in Seq(1..offered) /\ out \in Seq(1..offered) /\ accepted \in Seq(1..offered)
  BY <1>2, SharedAssumption DEF GateInv, Gate!TypeOK
<1>4. p \in Seq(S) /\ Gate!IsInjective(p) /\ Gate!ToSet(p) \cap 1..offered = {}
  BY <1>2, <1>3, FreshBytes
<1> HIDE DEF p
<1>5. out' = out \o p /\ accepted' = accepted \o p
  BY <1>1 DEF p
<1>6. /\ buf \in Seq(S) /\ out \in Seq(S) /\ accepted \in Seq(S)
      /\ Gate!ToSet(buf) \subseteq 1..offered /\ Gate!ToSet(out) \subseteq 1..offered
      /\ out' \in Seq(S) /\ accepted' \in Seq(S)
  BY <1>2, <1>3, <1>4, <1>5, StillTyped, ConcatProperties
<1>7. NothingLostOrDoubled /\ HeldOnlyIfFailed
  BY DEF GateInv
<1>8. /\ Gate!IsInjective(out) /\ Gate!IsInjective(buf) /\ Gate!ToSet(out) \cap Gate!ToSet(buf) = {}
      /\ Gate!ToSet(out) \cup Gate!ToSet(buf) = Gate!ToSet(accepted)
  BY <1>6, <1>7, InjectiveConcat, ToSetOfConcat DEF NothingLostOrDoubled, Gate!NothingLostOrDoubled
<1>9. /\ Gate!ToSet(out') = Gate!ToSet(out) \cup Gate!ToSet(p) /\ Gate!IsInjective(out')
      /\ Gate!ToSet(accepted') = Gate!ToSet(accepted) \cup Gate!ToSet(p)
  <2>1. Gate!ToSet(out') = Gate!ToSet(out) \cup Gate!ToSet(p)
    BY <1>4, <1>5, <1>6, ToSetOfConcat
  <2>2. Gate!ToSet(accepted') = Gate!ToSet(accepted) \cup Gate!ToSet(p)
    BY <1>4, <1>5, <1>6, ToSetOfConcat
  <2>3. Gate!IsInjective(out')
    BY <1>4, <1>5, <1>6, <1>8, InjectiveConcat
  <2> QED BY <2>1, <2>2, <2>3
<1>10. Gate!IsInjective(out' \o buf') /\ Gate!ToSet(out' \o buf') = Gate!ToSet(accepted')
  <2>1. Gate!ToSet(out') \cap Gate!ToSet(buf) = {}
    BY <1>4, <1>6, <1>8, <1>9
  <2>2. Gate!IsInjective(out' \o buf)
    BY <1>6, <1>8, <1>9, <2>1, InjectiveConcat
  <2>3. Gate!ToSet(out' \o buf) = Gate!ToSet(out') \cup Gate!ToSet(buf)
    BY <1>6, ToSetOfConcat
  <2> QED BY <1>2, <1>8, <1>9, <2>2, <2>3
<1>11. ~ failedFlush' => out' \o buf' = accepted'
  <2> SUFFICES ASSUME ~ failedFlush PROVE out' \o buf' = accepted'
    BY <1>2
  <2>1. buf = << >> /\ out \o buf = accepted
    BY <1>2, <1>7 DEF HeldOnlyIfFailed, NothingLostOrDoubled, Gate!NothingLostOrDoubled
  <2>2. out = accepted /\ out' \o buf = out'
    BY <1>6, <2>1, ConcatEmptySeq
  <2> QED BY <1>2, <1>5, <2>2
<1>12. NothingLostOrDoubled'
  BY <1>10, <1>11 DEF NothingLostOrDoubled, Gate!NothingLostOrDoubled
<1>13. Gate!TypeOK' /\ HeldOnlyIfFailed'
  BY <1>2, <1>3, <1>6, <1>7 DEF Gate!TypeOK, HeldOnlyIfFailed
<1> QED BY <1>12, <1>13 DEF GateInv

(* Flush moves bytes from the head of the buffer to the end of the output. *)
LEMMA FlushPreserves ==
  ASSUME GateInv, Gate!Flush
  PROVE  GateInv'
<1>1. PICK taken \in 0..Len(buf) :
        /\ out' = out \o SubSeq(buf, 1, taken)
        /\ buf' = SubSeq(buf, taken + 1, Len(buf))
        /\ failedFlush' = (failedFlush \/ taken < Len(buf))
  BY DEF Gate!Flush
<1>2. flush' = TRUE /\ offered' = offered /\ accepted' = accepted
  BY DEF Gate!Flush
<1>3. /\ failedFlush \in BOOLEAN /\ offered \in 0..MaxByte
      /\ buf \in Seq(1..offered) /\ out \in Seq(1..offered) /\ accepted \in Seq(1..offered)
  BY SharedAssumption DEF GateInv, Gate!TypeOK
<1> DEFINE S == 1..offered
           p == SubSeq(buf, 1, taken)
<1>4. Len(buf) \in Nat /\ \A i \in 1..Len(buf) : buf[i] \in S
  BY <1>3, LenProperties, ElementOfSeq
<1>5. p \in Seq(S) /\ buf' \in Seq(S)
  <2>1. \A i \in 1..taken : buf[i] \in S
    BY <1>4
  <2>2. \A i \in (taken + 1)..Len(buf) : buf[i] \in S
    BY <1>4
  <2>3. p \in Seq(S)
    BY <1>4, <2>1, SubSeqProperties
  <2>4. SubSeq(buf, taken + 1, Len(buf)) \in Seq(S)
    BY <1>4, <2>2, SubSeqProperties
  <2> QED BY <1>1, <2>3, <2>4
<1>6. p \o buf' = buf
  <2>1. SubSeq(buf, 1, taken) \o SubSeq(buf, taken + 1, Len(buf)) = SubSeq(buf, 1, Len(buf))
    <3>1. /\ 1 \in 1..(Len(buf) + 1) /\ taken \in (1 - 1)..Len(buf)
          /\ Len(buf) \in taken..Len(buf)
      BY <1>4
    <3> HIDE DEF S, p
    <3> QED BY <1>3, <3>1, ConcatAdjacentSubSeq, Zenon
  <2> QED BY <1>1, <1>3, <2>1, SubSeqFull
<1> HIDE DEF p, S
<1>7. out' = out \o p /\ out' \in Seq(S)
  BY <1>1, <1>3, <1>5, ConcatProperties DEF p, S
<1>8. out' \o buf' = out \o buf
  <2>1. (out \o p) \o buf' = out \o (p \o buf')
    <3>1. out \in Seq(S)
      BY <1>3 DEF S
    <3> QED BY SMTT(30), <1>5, <3>1, ConcatAssociative
  <2> QED BY <1>6, <1>7, <2>1
<1>9. NothingLostOrDoubled'
  BY <1>1, <1>2, <1>3, <1>8 DEF GateInv, NothingLostOrDoubled, Gate!NothingLostOrDoubled
<1>10. HeldOnlyIfFailed'
  <2> SUFFICES ASSUME ~ failedFlush' PROVE buf' = << >>
    BY DEF HeldOnlyIfFailed
  <2>1. ~ (taken < Len(buf))
    BY <1>1, Zenon
  <2>2. taken + 1 > Len(buf) /\ taken + 1 \in Int /\ Len(buf) \in Int
    BY <1>4, <2>1
  <2>3. SubSeq(buf, taken + 1, Len(buf)) = << >>
    BY <2>2, SubSeqEmpty, Zenon
  <2> QED BY <1>1, <2>3
<1>11. Gate!TypeOK'
  BY <1>1, <1>2, <1>3, <1>5, <1>7 DEF S, Gate!TypeOK
<1> QED BY <1>9, <1>10, <1>11 DEF GateInv

(* Every byte Write said it wrote is out or held, once.                    *)
THEOREM GateInvariance == Gate!Spec => []GateInv
<1>1. GateInv /\ [Gate!Next]_(Gate!vars) => GateInv'
  <2>1. GateInv /\ Gate!Next => GateInv'
    BY BufferedPreserves, PassedPreserves, FlushPreserves DEF Gate!Next
  <2>2. GateInv /\ UNCHANGED Gate!vars => GateInv'
    BY SMTT(30) DEF Gate!vars, GateInv, Gate!TypeOK, HeldOnlyIfFailed, NothingLostOrDoubled,
           Gate!NothingLostOrDoubled
  <2> QED BY <2>1, <2>2
<1> QED BY GateInit, <1>1, PTL DEF Gate!Spec

-----------------------------------------------------------------------------
(* UnixSocket.                                                             *)

SocketStates ==
  Socket!HasPath \cup {"idle", "failed", "abandoned", "closed", "crashed"}

SocketTypes ==
  /\ file \in Listener \cup {Socket!None, Socket!Leftover}
  /\ pc \in [Listener -> SocketStates] /\ config \in [Listener -> Socket!UnixSocketsConfig]
  /\ open \subseteq Listener /\ overlapped \in BOOLEAN

(* Who has the path, has it alone, and has made of its file what the steps *)
(* of its call up to there were to make of it.                             *)
HasItAlone ==
  \A l, k \in Listener : pc[l] \in Socket!HasPath /\ pc[k] \in Socket!HasPath => l = k

SetSoFar ==
  \A l \in Listener :
    /\ pc[l] \in {"set owner", "set mode"} =>
         config[l].given /\ file = l /\ l \in open /\ fileMode = "default"
    /\ pc[l] = "set owner" => owner = "default"
    /\ pc[l] = "set mode" =>
         owner = l /\ config[l].User # "bad" /\ config[l].Group # "bad"

SocketInv ==
  /\ SocketTypes /\ SocketSound
  /\ ~ overlapped => HasItAlone /\ SetSoFar

LEMMA SocketConfig ==
  ASSUME SocketTypes, NEW l \in Listener
  PROVE  config[l].given => config[l].Mode \in {"", "good", "bad"}
<1>1. config[l] \in Socket!UnixSocketsConfig
  BY DEF SocketTypes
<1>2. CASE config[l] = [given |-> FALSE]
  <2>1. [given |-> FALSE].given = FALSE
    OBVIOUS
  <2> QED BY <1>2, <2>1, Zenon
<1>3. CASE config[l] \in [given : {TRUE}, User : Socket!Setting, Group : Socket!Setting,
                         Mode : Socket!Setting]
  BY <1>3 DEF Socket!Setting
<1> QED BY <1>1, <1>2, <1>3 DEF Socket!UnixSocketsConfig

LEMMA SocketInit == Socket!Init => SocketInv
BY SharedAssumption
   DEF Socket!Init, Socket!HasPath, SocketInv, SocketTypes, SocketStates, SocketSound,
       Socket!SocketSound, Socket!None, Socket!Leftover, HasItAlone, SetSoFar

LEMMA SocketPreserved ==
  ASSUME SocketInv, NEW l \in Listener,
         \/ Socket!RemoveOld(l) \/ Socket!Listen(l) \/ Socket!Chown(l) \/ Socket!Chmod(l)
         \/ Socket!CloseSocket(l) \/ Socket!RemoveFile(l) \/ Socket!Crash(l)
  PROVE  SocketInv'
<1> USE SharedAssumption
    DEF SocketInv, SocketTypes, SocketStates, Socket!HasPath, SocketSound, Socket!SocketSound,
        HasItAlone, SetSoFar, Socket!To
<1>1. CASE Socket!RemoveOld(l)
  <2>1. /\ pc[l] = "idle" /\ UNCHANGED <<owner, fileMode, config, open>>
        /\ overlapped' = (overlapped \/ \E k \in Listener : pc[k] \in Socket!HasPath)
        /\ \A k \in Listener : k # l => pc'[k] = pc[k]
        /\ pc' \in [Listener -> SocketStates]
        /\ \/ file' = Socket!None /\ pc'[l] = "listen"
           \/ file' = file /\ pc'[l] = "failed"
    BY <1>1 DEF Socket!RemoveOld
  <2>2. SocketTypes'
    BY <2>1
  <2>3. ~ overlapped' => HasItAlone' /\ SetSoFar'
    BY <2>1
  <2>4. SocketSound'
    BY <2>1
  <2> QED BY <2>2, <2>3, <2>4
<1>2. CASE Socket!Listen(l)
  <2>1. CASE file = Socket!None
    <3>1. /\ pc[l] = "listen" /\ file' = l /\ owner' = "default" /\ fileMode' = "default"
          /\ open' = open \cup {l} /\ UNCHANGED <<config, overlapped>>
          /\ \A k \in Listener : k # l => pc'[k] = pc[k]
          /\ pc' \in [Listener -> SocketStates] /\ pc'[l] \in {"set owner", "listening"}
          /\ config[l].given <=> pc'[l] = "set owner"
      BY <1>2, <2>1 DEF Socket!Listen, Socket!AfterListen
    <3>2. SocketTypes'
      BY <3>1
    <3>3. ~ overlapped' => HasItAlone'
      BY <3>1
    <3>4. ~ overlapped' => SetSoFar'
      BY <3>1, <3>3
    <3>5. SocketSound'
      BY <3>1, <3>3
    <3> QED BY <3>2, <3>3, <3>4, <3>5
  <2>2. CASE file # Socket!None
    BY <1>2, <2>2 DEF Socket!Listen
  <2> QED BY <2>1, <2>2
<1>3. CASE Socket!Chown(l)
  <2>1. /\ pc[l] = "set owner" /\ UNCHANGED <<file, fileMode, config, open, overlapped>>
        /\ \A k \in Listener : k # l => pc'[k] = pc[k]
        /\ pc' \in [Listener -> SocketStates]
        /\ \/ pc'[l] = "abandoned" /\ owner' = owner
           \/ /\ pc'[l] = "set mode" /\ owner' = l
              /\ config[l].User # "bad" /\ config[l].Group # "bad"
    BY <1>3 DEF Socket!Chown, Socket!OwnerFails
  <2>2. SocketTypes'
    BY <2>1
  <2>3. ~ overlapped' => HasItAlone' /\ SetSoFar'
    BY <2>1
  <2>4. SocketSound'
    BY <2>1
  <2> QED BY <2>2, <2>3, <2>4
<1>4. CASE Socket!Chmod(l)
  <2>1. /\ pc[l] = "set mode" /\ UNCHANGED <<file, owner, config, open, overlapped>>
        /\ \A k \in Listener : k # l => pc'[k] = pc[k]
        /\ pc' \in [Listener -> SocketStates]
        /\ \/ pc'[l] = "abandoned" /\ fileMode' = fileMode
           \/ /\ pc'[l] = "listening" /\ config[l].Mode # "bad"
              /\ fileMode' = IF config[l].Mode = "good" THEN l ELSE fileMode
    BY <1>4 DEF Socket!Chmod
  <2>2. SocketTypes'
    BY <2>1
  <2>3. ~ overlapped' => HasItAlone' /\ SetSoFar'
    BY <2>1
  <2>4. SocketSound'
    <3>1. \A k \in Listener : ~ overlapped' /\ pc'[k] \in Socket!HasPath => k = l
      BY <2>1
    <3>2. ~ overlapped' => file = l /\ l \in open /\ owner = l /\ fileMode = "default"
                           /\ config[l].given /\ config[l].User # "bad" /\ config[l].Group # "bad"
      BY <2>1
    <3>3. ~ overlapped' /\ pc'[l] = "listening" =>
            fileMode' = IF config[l].Mode = "" THEN "default" ELSE l
      BY <2>1, <3>2, SocketConfig
    <3>4. file' \in Listener => pc'[file'] \notin {"idle", "listen", "remove", "closed"}
      BY <2>1
    <3> QED BY <2>1, <3>1, <3>2, <3>3, <3>4
  <2> QED BY <2>2, <2>3, <2>4
<1>5. CASE Socket!CloseSocket(l) \/ Socket!RemoveFile(l)
  <2>1. /\ pc[l] \in {"listening", "remove"} /\ UNCHANGED <<owner, fileMode, config, overlapped>>
        /\ \A k \in Listener : k # l => pc'[k] = pc[k]
        /\ pc' \in [Listener -> SocketStates]
        /\ open' \subseteq open /\ \A k \in open : k # l => k \in open'
        /\ file' = Socket!None /\ pc'[l] \in {"remove", "closed"}
    BY <1>5 DEF Socket!CloseSocket, Socket!RemoveFile
  <2>2. SocketTypes'
    BY <2>1
  <2>3. ~ overlapped' => HasItAlone' /\ SetSoFar'
    BY <2>1
  <2>4. SocketSound'
    BY <2>1
  <2> QED BY <2>2, <2>3, <2>4
<1>6. CASE Socket!Crash(l)
  <2>1. /\ pc[l] \notin {"idle", "failed", "closed", "crashed"}
        /\ UNCHANGED <<file, owner, fileMode, config, overlapped>>
        /\ \A k \in Listener : k # l => pc'[k] = pc[k]
        /\ pc' \in [Listener -> SocketStates] /\ pc'[l] = "crashed" /\ open' = open \ {l}
    BY <1>6 DEF Socket!Crash
  <2>2. SocketTypes'
    BY <2>1
  <2>3. ~ overlapped' => HasItAlone' /\ SetSoFar'
    BY <2>1
  <2>4. SocketSound'
    BY <2>1
  <2> QED BY <2>2, <2>3, <2>4
<1> QED BY <1>1, <1>2, <1>3, <1>4, <1>5, <1>6

(* A listener has the path to itself unless calls overlap, its file as     *)
(* configured, and takes the file along when it is closed.                 *)
THEOREM SocketInvariance == Socket!Spec => []SocketInv
<1>1. SocketInv /\ [Socket!Next]_(Socket!vars) => SocketInv'
  <2>1. SocketInv /\ Socket!Next => SocketInv'
    BY SocketPreserved DEF Socket!Next
  <2>2. SocketInv /\ UNCHANGED Socket!vars => SocketInv'
    <3> SUFFICES ASSUME SocketInv, UNCHANGED Socket!vars PROVE SocketInv'
      OBVIOUS
    <3>1. SocketTypes'
      BY DEF Socket!vars, SocketInv, SocketTypes
    <3>2. SocketSound'
      BY DEF Socket!vars, SocketInv, SocketSound, Socket!SocketSound
    <3>3. ~ overlapped' => HasItAlone' /\ SetSoFar'
      BY DEF Socket!vars, SocketInv, HasItAlone, SetSoFar
    <3> QED BY <3>1, <3>2, <3>3 DEF SocketInv
  <2> QED BY <2>1, <2>2
<1> QED BY SocketInit, <1>1, PTL DEF Socket!Spec

-----------------------------------------------------------------------------
(* The types that MCShared checks: of the certificate, which need nothing  *)
(* else, and the bounds of the cached file's clock, versions and lock.     *)
ReloadsUpTo(n) ==
  [pc : {"idle", "key", "check"}, cert : Torn..n, key : Torn..n,
   since : Certificate!NoCert..n, whole : SUBSET (0..n)]

LEMMA CertificateTyped == Certificate!Spec => []Certificate!TypeOK
<1> USE SharedAssumption
    DEF Certificate!TypeOK, Certificate!Torn, Torn, Certificate!NoCert, Certificate!File,
        Certificate!Idle, ReloadsUpTo
<1>1. Certificate!Init => Certificate!TypeOK
  BY DEF Certificate!Init, Certificate!Nil
<1>2. ASSUME Certificate!TypeOK, NEW r \in Reloader, Certificate!Step(r)
      PROVE  Certificate!TypeOK'
  <2> /\ reload \in [Reloader -> ReloadsUpTo(renewal)]
      /\ \A s \in Reloader : reload[s].pc = "idle" => reload[s] = Certificate!Idle
      /\ \A f \in Certificate!File : files[f] \in Torn..renewal
    BY <1>2
  <2>1. CASE Certificate!ReadCert(r)
    <3>1. reload' = [reload EXCEPT ![r] = BegunReload] /\ UNCHANGED <<files, renewal, cg>>
      BY <2>1 DEF Certificate!ReadCert, BegunReload
    <3>2. Certificate!Whole(files) \subseteq 0..renewal
      BY DEF Certificate!Whole
    <3>3. BegunReload \in ReloadsUpTo(renewal) /\ BegunReload.pc = "key"
      BY <1>2, <3>2 DEF BegunReload
    <3>4. reload' \in [Reloader -> ReloadsUpTo(renewal)] /\ reload'[r].pc # "idle"
          /\ \A s \in Reloader : s # r => reload'[s] = reload[s]
      BY <3>1, <3>3
    <3> QED BY <1>2, <3>1, <3>4
  <2>2. CASE Certificate!ReadKey(r)
    <3> DEFINE checking == [reload EXCEPT ![r].pc = "check"]
    <3>1. /\ reload' = [checking EXCEPT ![r].key = files["key"]]
          /\ UNCHANGED <<files, renewal, cg>> /\ files["key"] \in Torn..renewal
      BY <2>2 DEF Certificate!ReadKey
    <3>2. /\ checking \in [Reloader -> ReloadsUpTo(renewal)] /\ checking[r].pc = "check"
          /\ \A s \in Reloader : s # r => checking[s] = reload[s]
      OBVIOUS
    <3> HIDE DEF checking
    <3>3. /\ reload' \in [Reloader -> ReloadsUpTo(renewal)] /\ reload'[r].pc = "check"
          /\ \A s \in Reloader : s # r => reload'[s] = reload[s]
      BY <3>1, <3>2
    <3> QED BY <1>2, <3>1, <3>3
  <2>9. Certificate!Idle \in ReloadsUpTo(renewal)
    BY <1>2
  <2>3. CASE Certificate!Unreadable(r) \/ Certificate!Reject(r)
    <3>1. reload' = [reload EXCEPT ![r] = Certificate!Idle] /\ UNCHANGED <<files, renewal, cg>>
      BY <2>3 DEF Certificate!Unreadable, Certificate!Reject
    <3>2. reload' \in [Reloader -> ReloadsUpTo(renewal)]
          /\ \A s \in Reloader : reload'[s] \in {reload[s], Certificate!Idle}
      BY <2>9, <3>1
    <3> QED BY <1>2, <3>1, <3>2
  <2>4. CASE Certificate!Install(r)
    <3>1. reload' = [reload EXCEPT ![r] = Certificate!Idle] /\ UNCHANGED <<files, renewal>>
      BY <2>4 DEF Certificate!Install
    <3>2. cg' = [cert |-> reload[r].cert, key |-> reload[r].key]
      BY <2>4 DEF Certificate!Install
    <3>3. cg' \in [cert : Certificate!NoCert..renewal, key : Certificate!NoCert..renewal]
      BY <1>2, <3>2
    <3>4. reload' \in [Reloader -> ReloadsUpTo(renewal)]
          /\ \A s \in Reloader : reload'[s] \in {reload[s], Certificate!Idle}
      BY <2>9, <3>1
    <3> QED BY <1>2, <3>1, <3>3, <3>4
  <2> QED BY <1>2, <2>1, <2>2, <2>3, <2>4 DEF Certificate!Step
<1>3. ASSUME Certificate!TypeOK, Certificate!Operator PROVE Certificate!TypeOK'
  <2>1. CASE Certificate!StartRenewal
    <3>1. /\ renewal' = renewal + 1 /\ renewal' \in 0..MaxRenewal /\ UNCHANGED <<cg, reload>>
          /\ files' \in [Certificate!File -> Torn..renewal']
      BY <1>3, <2>1 DEF Certificate!StartRenewal
    <3>2. ReloadsUpTo(renewal) \subseteq ReloadsUpTo(renewal')
      BY <1>3, <3>1
    <3>3. reload' \in [Reloader -> ReloadsUpTo(renewal')]
          /\ \A s \in Reloader : reload'[s].pc = "idle" => reload'[s] = Certificate!Idle
      BY <1>3, <3>1, <3>2
    <3>4. cg' \in [cert : Certificate!NoCert..renewal', key : Certificate!NoCert..renewal']
      BY <1>3, <3>1
    <3> QED BY <3>1, <3>3, <3>4
  <2>2. ASSUME NEW f \in Certificate!File, Certificate!EndWrite(f)
        PROVE  Certificate!TypeOK'
    <3>1. files' = [files EXCEPT ![f] = renewal] /\ UNCHANGED <<renewal, cg>>
          /\ files' \in [Certificate!File -> Torn..renewal]
      BY <1>3, <2>2 DEF Certificate!EndWrite
    <3>2. Certificate!Whole(files') \subseteq 0..renewal
      BY <3>1 DEF Certificate!Whole
    <3>3. reload' = [r \in Reloader |->
                       IF reload[r].pc = "idle" THEN reload[r]
                       ELSE [reload[r] EXCEPT !.whole = @ \cup Certificate!Whole(files')]]
      BY <2>2 DEF Certificate!EndWrite
    <3> HIDE DEF Certificate!Whole
    <3>4. /\ reload' \in [Reloader -> ReloadsUpTo(renewal)]
          /\ \A s \in Reloader : reload'[s].pc = "idle" => reload'[s] = Certificate!Idle
      BY <1>3, <3>2, <3>3
    <3> QED BY <1>3, <3>1, <3>4
  <2>3. ASSUME NEW f \in Certificate!File, Certificate!StartOther(f)
        PROVE  Certificate!TypeOK'
    BY <1>3, <2>3 DEF Certificate!StartOther
  <2> QED BY <1>3, <2>1, <2>2, <2>3 DEF Certificate!Operator
<1>4. Certificate!TypeOK /\ [Certificate!Next]_(Certificate!vars) => Certificate!TypeOK'
  <2>1. Certificate!TypeOK /\ UNCHANGED Certificate!vars => Certificate!TypeOK'
    BY DEF Certificate!vars
  <2> QED BY <1>2, <1>3, <2>1 DEF Certificate!Next
<1> QED BY <1>1, <1>4, PTL DEF Certificate!Spec

ReaderBounds ==
  /\ clock \in 1..MaxTime /\ latest \in 0..MaxVersion
  /\ \A v \in DOMAIN endedAt : endedAt[v] <= clock
  /\ lock \in Reader \cup {Cached!Free}

LEMMA ReaderTyped == Cached!Spec => []Cached!TypeOK
<1>1. Cached!Init => ReaderBounds
  BY SharedAssumption DEF Cached!Init, ReaderBounds
<1>2. ASSUME OrderInv, StaleInv, ReaderBounds, [Cached!Next]_(Cached!vars)
      PROVE  ReaderBounds'
  <2> USE <1>2 DEF ReaderBounds
  <2>1. CASE \E r \in Reader : Cached!Step(r)
    BY <2>1 DEF Cached!Step, Cached!FastPath, Cached!Stale, Cached!TakeLock, Cached!ReadDisk,
                Cached!StoreCache, Cached!Return
  <2>2. CASE Cached!Rewrite \/ Cached!Remove
    <3>1. /\ \A v \in DOMAIN endedAt' : endedAt'[v] = clock \/ (v \in DOMAIN endedAt
                                                               /\ endedAt'[v] = endedAt[v])
          /\ UNCHANGED <<clock, lock>>
      BY <2>2 DEF Cached!Rewrite, Cached!Remove, Cached!Ended
    <3>2. latest' \in 0..MaxVersion
      BY <2>2, SharedAssumption DEF Cached!Rewrite, Cached!Remove
    <3> QED BY <3>1, <3>2
  <2>3. CASE Cached!Tick
    BY <2>3, SharedAssumption DEF Cached!Tick, StaleInv, EndedBefore
  <2>4. CASE UNCHANGED Cached!vars
    BY <2>4 DEF Cached!vars
  <2> QED BY <2>1, <2>2, <2>3, <2>4 DEF Cached!Next
<1>3. OrderInv /\ StaleInv /\ ReaderBounds => Cached!TypeOK
  BY SharedAssumption
     DEF OrderInv, ReaderTypes, Readings, Exclusive, CacheAdvances, StaleInv, EndedBefore,
         CacheExpires, ReaderBounds, Cached!TypeOK, Cached!Missing
<1> QED BY <1>1, <1>2, <1>3, OrderTheorem, StaleTheorem, PTL DEF Cached!Spec

-----------------------------------------------------------------------------
(* MCShared: a behaviour of it is one of each.                             *)
LEMMA Projections ==
  MCSpec => Spec /\ Gate!Spec /\ Cached!Spec /\ Certificate!Spec /\ Socket!Spec
<1>1. MCInit => Init /\ Gate!Init /\ Cached!Init /\ Certificate!Init /\ Socket!Init
  BY DEF MCInit
<1> USE DEF MCNext, allVars, OfRegexp, OfCertificate, gateVars, cachedVars, certificateVars,
            socketVars, vars, Gate!vars, Cached!vars, Certificate!vars, Socket!vars
<1>2. [MCNext]_allVars => [Next]_vars
  OBVIOUS
<1>3. [MCNext]_allVars => [Gate!Next]_(Gate!vars)
  OBVIOUS
<1>4. [MCNext]_allVars => [Cached!Next]_(Cached!vars)
  OBVIOUS
<1>5. [MCNext]_allVars => [Certificate!Next]_(Certificate!vars)
  OBVIOUS
<1>6. [MCNext]_allVars => [Socket!Next]_(Socket!vars)
  OBVIOUS
<1> QED BY <1>1, <1>2, <1>3, <1>4, <1>5, <1>6, PTL
        DEF MCSpec, Spec, Gate!Spec, Cached!Spec, Certificate!Spec, Socket!Spec

(* Types.                                                                  *)
THEOREM Typed == MCSpec => []TypesOK
<1>1. GateInv => Gate!TypeOK
  BY DEF GateInv
<1> QED BY <1>1, Projections, TypeCorrect, GateInvariance, ReaderTyped, CertificateTyped, PTL
        DEF TypesOK

(* Written bytes are in the output or still held, once each; in order, as  *)
(* long as no Flush fails.                                                 *)
THEOREM BytesKept == MCSpec => []NothingLostOrDoubled
<1>1. GateInv => NothingLostOrDoubled
  BY DEF GateInv
<1> QED BY <1>1, Projections, GateInvariance, PTL

(* A listener has its own socket file, as configured, and takes it along.  *)
THEOREM SocketOwned == MCSpec => []SocketSound
<1>1. SocketInv => SocketSound
  BY DEF SocketInv
<1> QED BY <1>1, Projections, SocketInvariance, PTL

(* And the promises above, of the behaviours that the run checks.          *)
THEOREM PromisesKept ==
  MCSpec => /\ []SameAnswer /\ []MapsInverse /\ []NoEntryLeaks
            /\ InstalledWasWhole /\ NeverOlderThanAtStart
            /\ []MonotonicReads /\ []BoundedStaleness
BY Projections, Interned, MapsAgree, NoLeak, InstalledWhole, NeverBackBeforeStart, NeverBack,
   StalenessBounded, PTL
=============================================================================

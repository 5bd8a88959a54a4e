---------------------------- MODULE PluginProofs ----------------------------
(***************************************************************************)
(* Proofs about the two ways to run a plugin: ContainerRunner, for any set *)
(* of images, and PluginLifecycle, for any number of plugin sources; and   *)
(* about MCServices, which has both.                                       *)
(***************************************************************************)
EXTENDS MCServices, Sequences, WellFoundedInduction, TLAPS

-----------------------------------------------------------------------------
(* ContainerRunner.                                                        *)

(* Whoever kills, Start has returned: nothing is started behind its back.  *)
KillAfterStart == (kill.pc # "no" => Returned) /\ (kill.pc = "no" => kill = NoKill)

(* A container that the runner has no ID of was never started, unless its  *)
(* program crashed.                                                        *)
UnknownNeverRan ==
  /\ ~ id /\ start # "crashed" => container \in {"none", "created"}
  /\ start \in {"start", "logs"} => id
  /\ start = "crashed" => container # "none"

(* The removal that was deferred is that of a debugged container, which    *)
(* has been stopped if there was no error.                                 *)
RemoveAfterStop ==
  kill.pc = "remove" => id /\ Debug /\ (~ kill.err => container # "running")

IInv ==
  TypeOK /\ PinnedImage /\ KillAfterStart /\ UnknownNeverRan /\ RemoveAfterStop /\ KilledIsGone

LEMMA InitEstablishes == Init => IInv
<1> SUFFICES ASSUME Init PROVE IInv
  OBVIOUS
<1>1. kill \in [pc : {"no", "remove", "returned"}, err : BOOLEAN, removeErr : BOOLEAN]
      /\ kill = NoKill /\ kill.pc = "no"
  BY DEF Init, NoKill
<1>2. 0 \in 0..MaxLines
  BY ConstantsAssumption
<1>3. TypeOK
  BY <1>1, <1>2 DEF Init, TypeOK
<1> QED
  BY <1>1, <1>3 DEF Init, IInv, PinnedImage, KillAfterStart, UnknownNeverRan,
                    RemoveAfterStop, KilledIsGone

(* The steps of Start.                                                     *)
LEMMA StartPreserves ==
  ASSUME IInv, StartCheck \/ StartCreate \/ StartStart \/ StartLogs
  PROVE  IInv'
<1> USE ConstantsAssumption
        DEF IInv, TypeOK, PinnedImage, Pinned, KillAfterStart, UnknownNeverRan,
            RemoveAfterStop, KilledIsGone, Debug, Returned
<1>1. CASE StartCheck
  BY <1>1 DEF StartCheck
<1>2. CASE StartCreate
  <2>1. ImageRef \in Image /\ (cfg.SHA256 # NoPin => ImageRef = cfg.SHA256)
    BY DEF ImageRef
  <2>2. CASE container' = "created" /\ image' = ImageRef
    <3>1. CASE id' = TRUE /\ start' = "start"
      BY <1>2, <2>1, <2>2, <3>1 DEF StartCreate
    <3>2. CASE id' = FALSE /\ start' = "failed"
      BY ZenonT(30), <1>2, <2>1, <2>2, <3>2 DEF StartCreate
    <3> QED BY ZenonT(30), <1>2, <2>2, <3>1, <3>2 DEF StartCreate
  <2>3. CASE start' = "failed" /\ UNCHANGED <<container, image, id>>
    BY <1>2, <2>3 DEF StartCreate
  <2> QED BY <1>2, <2>2, <2>3 DEF StartCreate
<1>3. CASE StartStart
  BY <1>3 DEF StartStart
<1>4. CASE StartLogs
  BY <1>4 DEF StartLogs
<1> QED BY <1>1, <1>2, <1>3, <1>4

(* The copying goroutine, the container, the daemon and the tags.          *)
LEMMA OthersPreserve ==
  ASSUME IInv,
         CopyLine \/ CopyEnd \/ CopyBroken \/ LogLine \/ Exit \/ AutoRemove \/ Retag
  PROVE  IInv'
<1> USE ConstantsAssumption
        DEF IInv, TypeOK, PinnedImage, Pinned, KillAfterStart, UnknownNeverRan,
            RemoveAfterStop, KilledIsGone, Debug, Returned
<1>1. CASE CopyLine \/ CopyEnd \/ CopyBroken
  BY <1>1 DEF CopyLine, CopyEnd, CopyBroken
<1>2. CASE LogLine
  BY <1>2 DEF LogLine
<1>3. CASE Exit
  BY <1>3 DEF Exit
<1>4. CASE AutoRemove
  BY <1>4 DEF AutoRemove
<1>5. CASE Retag
  BY <1>5 DEF Retag
<1> QED BY <1>1, <1>2, <1>3, <1>4, <1>5

(* Wait and Kill, a crash of the program and the reattachment after it.    *)
LEMMA CallsPreserve ==
  ASSUME IInv,
         WaitCall \/ WaitReturn \/ KillNothing \/ KillStop \/ KillRemove \/ HostCrash \/ Reattach
  PROVE  IInv'
<1> USE ConstantsAssumption
        DEF IInv, TypeOK, PinnedImage, Pinned, KillAfterStart, UnknownNeverRan,
            RemoveAfterStop, KilledIsGone, Debug, Returned
<1>1. CASE WaitCall \/ WaitReturn
  BY <1>1 DEF WaitCall, WaitReturn
<1>2. CASE KillNothing
  BY <1>2 DEF KillNothing
<1>3. CASE KillStop
  <2>1. /\ kill = NoKill /\ Returned /\ id
        /\ UNCHANGED <<cfg, tag, image, id, start, wait, logs, copier>>
    BY <1>3 DEF KillStop
  <2>2. CASE /\ container # "removed"
             /\ container' = IF container = "running" THEN "exited" ELSE container
             /\ kill' = [kill EXCEPT !.pc = AfterStop(FALSE)]
    <3>1. kill' = [pc |-> AfterStop(FALSE), err |-> FALSE, removeErr |-> FALSE]
      BY <2>1, <2>2 DEF NoKill
    <3> QED BY <1>3, <2>2, <3>1 DEF KillStop, AfterStop, NoKill
  <2>3. ASSUME NEW gone \in {FALSE, container = "removed"},
               kill' = [kill EXCEPT !.pc = AfterStop(~ gone), !.err = ~ gone],
               UNCHANGED container
        PROVE  IInv'
    <3>1. kill' = [pc |-> AfterStop(~ gone), err |-> ~ gone, removeErr |-> FALSE]
      BY <2>1, <2>3 DEF NoKill
    <3>2. CASE ~ gone
      <4>1. kill' = [pc |-> AfterStop(TRUE), err |-> TRUE, removeErr |-> FALSE]
        BY <3>1, <3>2 DEF AfterStop
      <4>2. container' = container
        BY <2>3
      <4> QED BY <2>1, <4>1, <4>2 DEF AfterStop, NoKill
    <3>3. CASE gone /\ container = "removed"
      <4>1. kill' = [pc |-> AfterStop(FALSE), err |-> FALSE, removeErr |-> FALSE]
        BY <3>1, <3>3 DEF AfterStop
      <4> QED BY <1>3, <2>3, <3>3, <4>1 DEF KillStop, AfterStop, NoKill
    <3> QED BY <2>3, <3>2, <3>3
  <2> QED BY <1>3, <2>2, <2>3 DEF KillStop, StopErrorMatters
<1>4. CASE KillRemove
  BY ZenonT(30), <1>4 DEF KillRemove
<1>5. CASE HostCrash
  BY <1>5 DEF HostCrash, NoKill
<1>6. CASE Reattach
  BY <1>6 DEF Reattach
<1> QED BY <1>1, <1>2, <1>3, <1>4, <1>5, <1>6

(* The invariant, for any container, host crash and kill (ContainerRunner). *)
THEOREM Invariance == Spec => []IInv
<1>1. IInv /\ [Next]_vars => IInv'
  <2> SUFFICES ASSUME IInv, [Next]_vars PROVE IInv'
    OBVIOUS
  <2>1. CASE Next
    BY <2>1, StartPreserves, OthersPreserve, CallsPreserve DEF Next
  <2>2. CASE UNCHANGED vars
    BY <2>2 DEF vars, IInv, TypeOK, PinnedImage, Pinned, KillAfterStart, UnknownNeverRan,
                RemoveAfterStop, KilledIsGone, Debug, Returned
  <2> QED BY <2>1, <2>2
<1> QED BY InitEstablishes, <1>1, PTL DEF Spec

(* No image but the pinned one is run, whenever the tag moves.             *)
THEOREM OnlyPinned == Spec => []PinnedImage
BY Invariance, PTL DEF IInv

(* A Kill without an error leaves nothing running; of a debugged plugin    *)
(* nothing at all.                                                         *)
THEOREM KillWorks == Spec => []KilledIsGone
BY Invariance, PTL DEF IInv

-----------------------------------------------------------------------------
(* PluginLifecycle.                                                        *)

(* The configuration, and the plugin that is looked up: with a path, no    *)
(* other source is found.                                                  *)
Configured ==
  /\ kms \in Lifecycle!Block /\ sources \in Seq(Lifecycle!Source)
  /\ executionDir \in BOOLEAN /\ windows \in BOOLEAN
  /\ kms.path /\ kms.lower => plugin \in {"nil", "file"}

(* Where configureWrapper is tells what it has acquired, and that the      *)
(* cleanup function knows of it.                                           *)
AcquiredSoFar ==
  /\ pc \in {"lookup", "create"} =>
       cleanup = Lifecycle!Nil /\ ~ tmpDir /\ ~ file /\ process = "none"
  /\ pc = "lookup" => plugin = "nil"
  /\ pc \in {"write", "client", "start"} => plugin \in {"fs", "file"} /\ process = "none"
  /\ pc \in {"write", "client", "start", "configure"} =>
       cleanup \subseteq {"removeFile", "removeDir", "kill"}
  /\ pc \in {"write", "client", "start"} => "removeFile" \in cleanup \/ "removeDir" \in cleanup
  /\ pc \in {"client", "start"} => file
  /\ pc \in {"configure", "ready"} /\ plugin \in {"fs", "file"} =>
       process # "none" /\ "kill" \in cleanup
  /\ pc = "start" => "kill" \in cleanup
  /\ pc \in {"start", "configure"} /\ plugin \in {"fs", "file"} => secure = (plugin = "file")

(* Building: in a step of configureWrapper or with the caller.  Cleaning:  *)
(* in its deferred function or the caller's cleanup.                       *)
Cleaning == pc \in {"unwind", "closing"}
Clean == pc \in {"failed", "closed"}

(* Whatever there is, is in the cleanup function while it is built, in     *)
(* what is left of it while it runs.                                       *)
Due == IF Cleaning THEN pending ELSE cleanup

Accounted ==
  /\ pending # {} => Cleaning
  /\ ~ Clean =>
       /\ tmpDir => "removeDir" \in Due
       /\ process = "running" => "kill" \in Due
       /\ file => \/ "removeDir" \in Due \/ "removeFile" \in Due
                  \/ windows /\ executionDir
  /\ "removeFile" \in cleanup => executionDir
  /\ process # "none" => plugin \in {"fs", "file"}

LInv ==
  /\ Lifecycle!TypeOK /\ Configured /\ AcquiredSoFar /\ Accounted
  /\ Lifecycle!TornDown
  /\ Lifecycle!CheckedRuns

(* Nothing is acquired at first.                                           *)
LEMMA LifecycleInit == Lifecycle!Init => LInv
<1> SUFFICES ASSUME Lifecycle!Init PROVE LInv
  OBVIOUS
<1>1. sources \in Seq(Lifecycle!Source)
  <2>1. PICK n \in 0..MaxSources : sources \in [1..n -> Lifecycle!Source]
    BY DEF Lifecycle!Init
  <2>2. n \in Nat
    BY SourcesAssumption
  <2> QED BY <2>1, <2>2
<1> QED BY <1>1 DEF Lifecycle!Init, LInv, Lifecycle!TypeOK, Configured, AcquiredSoFar, Accounted,
                    Cleaning, Clean, Due, Lifecycle!TornDown, Lifecycle!CheckedRuns,
                    Lifecycle!Nil, Lifecycle!None

(* Among some of finitely many positions there is a last one.              *)
LEMMA LastOfSome ==
  ASSUME NEW n \in Nat, NEW S \in SUBSET (1..n), S # {}
  PROVE  \E i \in S : \A j \in S : j <= i
<1> DEFINE T == {n - i : i \in S}
<1>1. T \subseteq Nat /\ T # {}
  <2>1. \A i \in S : n - i \in Nat
    OBVIOUS
  <2>2. PICK i \in S : TRUE
    OBVIOUS
  <2>3. n - i \in T
    OBVIOUS
  <2> QED BY <2>1, <2>3
<1>2. PICK d \in T : \A e \in T : ~ (<<e, d>> \in OpToRel(<, Nat))
  BY <1>1, NatLessThanWellFounded, WFMin, Zenon
<1>3. \A e \in T : ~ (e < d)
  BY <1>1, <1>2 DEF OpToRel
<1>4. PICK i \in S : d = n - i
  OBVIOUS
<1>5. \A j \in S : n - j \in T
  OBVIOUS
<1> HIDE DEF T
<1> QED BY <1>3, <1>4, <1>5

(* A plugin is found by the kind of its source, or not at all.             *)
LEMMA FoundByKind ==
  ASSUME sources \in Seq(Lifecycle!Source)
  PROVE  Lifecycle!BuildPluginMap \in {"nil", "inmem", "fs", "file"}
<1> DEFINE all == Lifecycle!AllSources
           named == {i \in DOMAIN all : all[i].names}
           newest == CHOOSE i \in named : \A j \in named : j <= i
<1>1. \E n \in Nat : /\ DOMAIN all = 1..n
                     /\ \A i \in 1..n : all[i].kind \in {"inmem", "fs", "file"}
  <2>1. \A i \in 1..Len(sources) : sources[i].kind \in {"inmem", "fs", "file"}
    <3> TAKE i \in 1..Len(sources)
    <3>1. sources[i] \in Lifecycle!Source
      OBVIOUS
    <3> QED BY <3>1 DEF Lifecycle!Source
  <2>2. CASE kms.path
    <3> DEFINE last == [kind |-> "file", names |-> kms.lower, valid |-> TRUE]
    <3>1. all = Append(sources, last)
      BY <2>2 DEF Lifecycle!AllSources
    <3>2. DOMAIN all = 1..Len(sources) + 1
      BY <3>1
    <3>3. \A i \in 1..Len(sources) + 1 :
            all[i] = IF i <= Len(sources) THEN sources[i] ELSE last
      BY <3>1
    <3> QED BY <2>1, <3>2, <3>3
  <2>3. CASE ~ kms.path
    BY <2>1, <2>3 DEF Lifecycle!AllSources
  <2> QED BY <2>2, <2>3
<1>2. named # {} => newest \in named
  BY <1>1, LastOfSome
<1> QED BY <1>1, <1>2 DEF Lifecycle!BuildPluginMap

(* A file named by its path is the last of the sources, so it wins.        *)
LEMMA LastSourceWins ==
  ASSUME sources \in Seq(Lifecycle!Source), kms.path, kms.lower
  PROVE  Lifecycle!BuildPluginMap = "file"
<1> DEFINE all == Lifecycle!AllSources
           n == Len(sources) + 1
           last == [kind |-> "file", names |-> kms.lower, valid |-> TRUE]
           named == {i \in DOMAIN all : all[i].names}
           newest == CHOOSE i \in named : \A j \in named : j <= i
<1>1. all = Append(sources, last)
  BY DEF Lifecycle!AllSources
<1>2. DOMAIN all = 1..n /\ all[n] = last
  BY <1>1
<1>3. n \in named /\ \A j \in named : j <= n
  BY <1>2
<1>4. newest = n
  <2>1. newest \in named /\ \A j \in named : j <= newest
    BY <1>3
  <2> QED BY <1>2, <1>3, <2>1
<1> QED BY <1>2, <1>3, <1>4 DEF Lifecycle!BuildPluginMap

(* BuildPluginMap and the choice acquire nothing.                          *)
LEMMA LookupPreserves == ASSUME LInv, Lifecycle!Lookup PROVE LInv'
<1> USE DEF LInv, Configured, AcquiredSoFar, Accounted, Cleaning, Clean, Due,
            Lifecycle!TypeOK, Lifecycle!TornDown, Lifecycle!CheckedRuns, Lifecycle!Nil,
            Lifecycle!None, Lifecycle!Given, Lifecycle!resources, Lifecycle!Go, Lifecycle!Fail
<1>1. Lifecycle!BuildPluginMap \in {"nil", "inmem", "fs", "file"}
  BY FoundByKind
<1> QED BY <1>1, LastSourceWins DEF Lifecycle!Lookup

(* A cleanup function is not nil.                                          *)
LEMMA NilIsNoCleanup ==
  /\ \A c \in SUBSET {"removeFile", "removeDir", "kill"} : c # Lifecycle!Nil /\ c \ Lifecycle!Nil = c
  /\ Lifecycle!Nil \ Lifecycle!Nil = {}
<1> SUFFICES ASSUME NEW c \in SUBSET {"removeFile", "removeDir", "kill"}
             PROVE  c # Lifecycle!Nil /\ c \ Lifecycle!Nil = c
  BY DEF Lifecycle!Nil
<1> QED BY DEF Lifecycle!Nil

(* CreatePlugin and SetConfig; what each acquires, the cleanup knows of.   *)
LEMMA CreatePreserves ==
  ASSUME LInv,
         Lifecycle!CreateInmem \/ Lifecycle!CreateNone \/ Lifecycle!ReadPlugin
           \/ Lifecycle!WriteFile \/ Lifecycle!CreateClient \/ Lifecycle!StartProcess
           \/ Lifecycle!Configure
  PROVE  LInv'
<1> USE NilIsNoCleanup DEF LInv, Configured, AcquiredSoFar, Accounted, Cleaning, Clean, Due,
            Lifecycle!TypeOK, Lifecycle!TornDown, Lifecycle!CheckedRuns,
            Lifecycle!None, Lifecycle!Given, Lifecycle!chosen, Lifecycle!resources,
            Lifecycle!Go, Lifecycle!Fail
<1>1. CASE Lifecycle!CreateInmem
  BY <1>1 DEF Lifecycle!CreateInmem
<1>2. CASE Lifecycle!CreateNone
  BY <1>2 DEF Lifecycle!CreateNone
<1>3. CASE Lifecycle!ReadPlugin
  <2>1. CASE bytes' = disk /\ executionDir /\ Lifecycle!Go("write", {"removeFile"})
             /\ UNCHANGED tmpDir
    BY <1>3, <2>1 DEF Lifecycle!ReadPlugin
  <2>2. CASE bytes' = disk /\ ~ executionDir /\ Lifecycle!Go("write", {"removeDir"})
             /\ tmpDir' = TRUE
    BY <1>3, <2>2 DEF Lifecycle!ReadPlugin
  <2>3. CASE Lifecycle!Fail(Lifecycle!Nil) /\ UNCHANGED <<bytes, tmpDir>>
    BY <1>3, <2>3 DEF Lifecycle!ReadPlugin
  <2> QED BY <1>3, <2>1, <2>2, <2>3 DEF Lifecycle!ReadPlugin
<1>4. CASE Lifecycle!WriteFile
  <2>1. cleanup \ Lifecycle!Nil = cleanup
    BY <1>4 DEF Lifecycle!WriteFile
  <2>2. CASE file' = TRUE /\ Lifecycle!Go("client", cleanup)
    BY <1>4, <2>2 DEF Lifecycle!WriteFile
  <2>3. CASE file' \in {file, TRUE} /\ Lifecycle!Fail(cleanup)
    <3>1. /\ pc = "write" /\ pc' = "unwind" /\ pending' = cleanup /\ cleanup' = cleanup
          /\ UNCHANGED <<kms, sources, executionDir, windows, plugin, bytes, secure, disk,
                        tmpDir, process>>
      BY <1>4, <2>1, <2>3 DEF Lifecycle!WriteFile
    <3>2. file' \in BOOLEAN
      BY <2>3
    <3>3. process = "none" /\ ("removeFile" \in cleanup \/ "removeDir" \in cleanup)
      BY <3>1
    <3> QED BY <3>1, <3>2, <3>3
  <2> QED BY <1>4, <2>2, <2>3 DEF Lifecycle!WriteFile
<1>5. CASE Lifecycle!CreateClient
  <2>1. cleanup \ Lifecycle!Nil = cleanup
    BY <1>5 DEF Lifecycle!CreateClient
  <2>2. CASE Lifecycle!Go("start", cleanup \cup {"kill"}) /\ secure' = (plugin = "file")
    BY <1>5, <2>2 DEF Lifecycle!CreateClient
  <2>3. CASE Lifecycle!Fail(cleanup) /\ UNCHANGED secure
    BY <1>5, <2>1, <2>3 DEF Lifecycle!CreateClient
  <2> QED BY <1>5, <2>2, <2>3 DEF Lifecycle!CreateClient
<1>6. CASE Lifecycle!StartProcess
  BY <1>6 DEF Lifecycle!StartProcess
<1>7. CASE Lifecycle!Configure
  <2>1. cleanup \ Lifecycle!Nil = cleanup
    BY <1>7 DEF Lifecycle!Configure
  <2>2. CASE Lifecycle!Go("ready", cleanup)
    BY <1>7, <2>2 DEF Lifecycle!Configure
  <2>3. CASE Lifecycle!Fail(cleanup)
    BY <1>7, <2>1, <2>3 DEF Lifecycle!Configure
  <2> QED BY <1>7, <2>2, <2>3 DEF Lifecycle!Configure
<1> QED BY <1>1, <1>2, <1>3, <1>4, <1>5, <1>6, <1>7

(* The cleanup releases it in order; the plugin crashes, its file is       *)
(* replaced.                                                               *)
LEMMA CleanupPreserves ==
  ASSUME LInv,
         Lifecycle!CallCleanup \/ Lifecycle!Kill \/ Lifecycle!RemoveFile
           \/ Lifecycle!RemoveDir \/ Lifecycle!CleanupDone
           \/ Lifecycle!Crash \/ Lifecycle!Replace
  PROVE  LInv'
<1> USE NilIsNoCleanup DEF LInv, Configured, AcquiredSoFar, Accounted, Cleaning, Clean, Due,
            Lifecycle!TypeOK, Lifecycle!TornDown, Lifecycle!CheckedRuns,
            Lifecycle!None, Lifecycle!Given, Lifecycle!chosen, Lifecycle!resources
<1>1. CASE Lifecycle!CallCleanup
  <2>1. CASE pc = "ready"
    BY <1>1, <2>1 DEF Lifecycle!CallCleanup
  <2>2. CASE pc = "failed"
    BY <1>1, <2>2 DEF Lifecycle!CallCleanup
  <2> QED BY <1>1, <2>1, <2>2 DEF Lifecycle!CallCleanup
<1>2. CASE Lifecycle!Kill
  BY <1>2 DEF Lifecycle!Kill
<1>3. CASE Lifecycle!RemoveFile
  BY <1>3 DEF Lifecycle!RemoveFile, Lifecycle!MayRemove
<1>4. CASE Lifecycle!RemoveDir
  <2>1. process # "running" /\ Cleaning
    BY <1>4 DEF Lifecycle!RemoveDir, Lifecycle!MayRemove
  <2>2. pending' \subseteq pending /\ ~ tmpDir' /\ ~ file' /\ tmpDir' \in BOOLEAN /\ file' \in BOOLEAN
    BY <1>4 DEF Lifecycle!RemoveDir
  <2>3. UNCHANGED <<kms, sources, executionDir, windows, plugin, bytes, secure, disk, pc, cleanup, process>>
    BY <1>4 DEF Lifecycle!RemoveDir
  <2> QED BY <2>1, <2>2, <2>3
<1>5. CASE Lifecycle!CleanupDone
  BY <1>5 DEF Lifecycle!CleanupDone
<1>6. CASE Lifecycle!Crash
  BY <1>6 DEF Lifecycle!Crash
<1>7. CASE Lifecycle!Replace
  BY <1>7 DEF Lifecycle!Replace
<1> QED BY <1>1, <1>2, <1>3, <1>4, <1>5, <1>6, <1>7

(* No step of configureWrapper, of a cleanup or of the plugin breaks it.   *)
LEMMA LifecycleStep == LInv /\ [Lifecycle!Next]_(Lifecycle!vars) => LInv'
<1> SUFFICES ASSUME LInv, [Lifecycle!Next]_(Lifecycle!vars) PROVE LInv'
  OBVIOUS
<1>1. CASE Lifecycle!Next
  BY <1>1, LookupPreserves, CreatePreserves, CleanupPreserves DEF Lifecycle!Next
<1>2. CASE UNCHANGED Lifecycle!vars
  BY <1>2 DEF Lifecycle!vars, Lifecycle!Given, Lifecycle!chosen, Lifecycle!resources, LInv,
              Configured, AcquiredSoFar, Accounted, Cleaning, Clean, Due,
              Lifecycle!TypeOK, Lifecycle!TornDown, Lifecycle!CheckedRuns
<1> QED BY <1>1, <1>2

(* The bookkeeping above holds throughout.                                 *)
THEOREM LifecycleInvariance == Lifecycle!Spec => []LInv
BY LifecycleInit, LifecycleStep, PTL DEF Lifecycle!Spec

-----------------------------------------------------------------------------
(* MCServices: a behaviour of it is one of each.                           *)
LEMMA Projections == MCSpec => Spec /\ Lifecycle!Spec
<1>1. MCInit => Init /\ Lifecycle!Init
  BY DEF MCInit
<1>2. [MCNext]_allVars => [Next]_vars
  BY DEF MCNext, allVars, AsContainer, AsProcess, AsNonces, vars
<1>3. [MCNext]_allVars => [Lifecycle!Next]_(Lifecycle!vars)
  BY DEF MCNext, allVars, AsContainer, AsProcess, AsNonces, lifecycleVars, Lifecycle!vars,
         Lifecycle!Given, Lifecycle!chosen, Lifecycle!resources
<1> QED BY <1>1, <1>2, <1>3, PTL DEF MCSpec, Spec, Lifecycle!Spec

(* Types.                                                                  *)
THEOREM Typed == MCSpec => []TypesOK
BY Invariance, LifecycleInvariance, Projections, PTL DEF IInv, LInv, TypesOK

(* Wherever configureWrapper fails, and when the caller is done, no        *)
(* process, file or directory is left, however many sources there are, and *)
(* whatever of the cleanup is run twice; nor is the executable pulled away *)
(* from under a running plugin.                                            *)
THEOREM NothingLeft == MCSpec => []TornDown
BY LifecycleInvariance, Projections, PTL DEF LInv, TornDown

(* What was pinned is what runs: no image but the one with the hash, no    *)
(* file but the one with the checksum.                                     *)
THEOREM PinnedIsRun == MCSpec => []PinnedRuns
BY Invariance, LifecycleInvariance, Projections, PTL DEF IInv, LInv, PinnedRuns
=============================================================================

----------------------------- MODULE MCServices -----------------------------
(***************************************************************************)
(* What a program runs for its own use, for TLC: a plugin as a process of  *)
(* its own (PluginLifecycle) or in a container (ContainerRunner), and the  *)
(* nonce service over a map (SyncMapNonce).  They share nothing, so a      *)
(* behaviour is one of any of them; the others stay in an initial state.   *)
(***************************************************************************)
EXTENDS ContainerRunner, NoncePromises

CONSTANT MaxSources                                  \* of PluginLifecycle

ASSUME SourcesAssumption == MaxSources \in Nat

VARIABLES
  subject,           \* what this behaviour is about
  kms, sources, executionDir, windows, plugin, disk, bytes, secure,
  pc, cleanup, pending, tmpDir, file, process,
  nextExpiry, issued, get, tidy

Lifecycle == INSTANCE PluginLifecycle
Nonces == INSTANCE SyncMapNonce

lifecycleVars ==
  <<kms, sources, executionDir, windows, plugin, disk, bytes, secure,
    pc, cleanup, pending, tmpDir, file, process>>
noncesVars == <<clock, nonces, nextExpiry, issued, get, redeem, tidy, expiryOf, redemptions>>

allVars == <<subject, vars, lifecycleVars, noncesVars>>

AsContainer(A) == subject = "container" /\ A /\ UNCHANGED <<subject, lifecycleVars, noncesVars>>
AsProcess(A) == subject = "process" /\ A /\ UNCHANGED <<subject, vars, noncesVars>>
AsNonces(A) == subject = "nonces" /\ A /\ UNCHANGED <<subject, vars, lifecycleVars>>

MCInit ==
  /\ subject \in {"container", "process", "nonces"}
  /\ Init /\ Lifecycle!Init /\ Nonces!Init
  /\ subject # "process" =>
       /\ kms = [type |-> "shamir", path |-> FALSE, lower |-> TRUE, checksum |-> ""]
       /\ sources = <<>> /\ ~ executionDir /\ ~ windows
  /\ subject # "container" => cfg = [Debug |-> FALSE, SHA256 |-> NoPin] /\ tag = CHOOSE i \in Image : TRUE

MCNext == AsContainer(Next) \/ AsProcess(Lifecycle!Next) \/ AsNonces(Nonces!Next)

(* The fairness of ContainerRunner's FairSpec.                             *)
MCSpec ==
  /\ MCInit /\ [][MCNext]_allVars
  /\ WF_allVars(AsContainer(CopyLine)) /\ WF_allVars(AsContainer(CopyEnd))
  /\ WF_allVars(AsContainer(WaitReturn)) /\ WF_allVars(AsContainer(KillRemove))

-----------------------------------------------------------------------------
(* Types of both ways to run a plugin; see their modules.                  *)
TypesOK == TypeOK /\ Lifecycle!TypeOK

(* Whatever fails, no process, file or directory of it is left.            *)
TornDown == Lifecycle!TornDown

(* What was pinned is what runs: an image by its hash, a file by its       *)
(* checksum, whatever is moved or replaced between the check and the use.  *)
PinnedRuns == PinnedImage /\ Lifecycle!CheckedRuns
=============================================================================

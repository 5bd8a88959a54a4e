----------------------------- MODULE RotateKeys -----------------------------
(***************************************************************************)
(* awsutil/rotate.go: RotateKeys makes a new access key, may wait until    *)
(* STS accepts it, deletes the old one and only then overwrites the        *)
(* configured credentials.  IAM and STS are external: a call may fail, its *)
(* answer may be lost after it took effect, and a new key is accepted some *)
(* time after it was made.  Calls are signed with the configured key.      *)
(***************************************************************************)
EXTENDS Integers, KeyPromises

CONSTANTS
  Timeout,           \* withValidityCheckTimeout, in ticks; 0 for no check
  Delay,             \* the pause between two attempts, in ticks
  KeyLimit,          \* access keys IAM allows a user
  MaxKey,            \* bound: keys made
  MaxCall            \* bound: longest GetCallerIdentity, in ticks

NoKey == 0

VARIABLES
  made,              \* keys made so far
  cancelled,         \* ctx is done
  asked              \* history: keys the last rotation asked IAM to delete

history == <<failed, answer, before, asked>>
vars == <<iam, accepted, config, made, rotation, cancelled, history>>

Idle == [pc |-> "idle", new |-> NoKey, elapsed |-> 0, paused |-> 0, calling |-> 0]

Init ==
  /\ iam = {1} /\ accepted = {1} /\ config = 1 /\ made = 1
  /\ rotation = Idle
  /\ cancelled = FALSE /\ failed = 0
  /\ answer = "none" /\ before = 1 /\ asked = {}

Authorised == config \in accepted /\ ~ cancelled

(* RotateKeys returns; the next call has a context of its own.             *)
Return(err) == rotation' = Idle /\ cancelled' = FALSE /\ answer' = err

ReturnError ==
  /\ Return("error")
  /\ failed' = IF rotation.new \in iam THEN failed + 1 ELSE failed
  /\ UNCHANGED before

-----------------------------------------------------------------------------
(* GetUser is answered, or it fails and nothing has changed.               *)
GetUser ==
  /\ rotation.pc = "idle" /\ Authorised
  /\ rotation' = [Idle EXCEPT !.pc = "create"]
  /\ answer' = "none" /\ before' = config /\ asked' = {}
  /\ UNCHANGED <<iam, accepted, config, made, cancelled, failed>>

GetUserError ==
  /\ rotation.pc = "idle"
  /\ Return("error")
  /\ before' = config /\ asked' = {}
  /\ UNCHANGED <<iam, accepted, config, made, failed>>

AfterCreate == IF Timeout = 0 THEN "delete" ELSE "attempt"

(* CreateAccessKey is answered ...                                         *)
Create ==
  /\ rotation.pc = "create" /\ Authorised
  /\ Cardinality(iam) < KeyLimit /\ made < MaxKey
  /\ made' = made + 1 /\ iam' = iam \cup {made + 1}
  /\ \/ /\ rotation' = [rotation EXCEPT !.pc = AfterCreate, !.new = made + 1]
        /\ UNCHANGED <<cancelled, answer, failed>>
     \/ Return("error") /\ failed' = failed + 1
  /\ UNCHANGED <<accepted, config, before, asked>>

(* ... or refused.                                                         *)
CreateError ==
  /\ rotation.pc = "create"
  /\ ReturnError
  /\ UNCHANGED <<iam, accepted, config, made, asked>>

-----------------------------------------------------------------------------
(* GetCallerIdentity, with the new key and under ctx, not under timeoutCtx *)
(* (which only ends the pauses between the attempts).                      *)
Verified ==
  /\ rotation.pc = "attempt" /\ rotation.new \in accepted /\ ~ cancelled
  /\ rotation' = [rotation EXCEPT !.pc = "delete"]
  /\ UNCHANGED <<iam, accepted, config, made, cancelled, history>>

NotVerified ==
  /\ rotation.pc = "attempt"
  /\ rotation' = [rotation EXCEPT !.pc = "pause", !.paused = 0, !.calling = 0]
  /\ UNCHANGED <<iam, accepted, config, made, cancelled, history>>

(* A mutant: the timeout starts anew with every attempt.                   *)
AgainFromZero ==
  /\ rotation.pc = "pause" /\ rotation.paused = Delay
  /\ rotation' = [rotation EXCEPT !.pc = "attempt", !.elapsed = 0]
  /\ UNCHANGED <<iam, accepted, config, made, cancelled, history>>

Again ==
  /\ rotation.pc = "pause" /\ rotation.paused = Delay
  /\ rotation' = [rotation EXCEPT !.pc = "attempt"]
  /\ UNCHANGED <<iam, accepted, config, made, cancelled, history>>

TimeoutDone == rotation.elapsed >= Timeout \/ cancelled

(* A mutant: a key that did not prove valid in time is used all the same.  *)
TimedOutGoesOn ==
  /\ rotation.pc = "pause" /\ TimeoutDone
  /\ rotation' = [rotation EXCEPT !.pc = "delete"]
  /\ UNCHANGED <<iam, accepted, config, made, cancelled, history>>

TimedOut ==
  /\ rotation.pc = "pause" /\ TimeoutDone
  /\ ReturnError
  /\ UNCHANGED <<iam, accepted, config, made, asked>>

-----------------------------------------------------------------------------
(* Mutants: the configuration is overwritten when the answer to the        *)
(* deletion is lost; an error does not end the rotation.                   *)
DeleteErrorOverwrites ==
  /\ rotation.pc = "delete" /\ Authorised
  /\ iam' = iam \ {config} /\ accepted' = accepted \ {config}
  /\ config' = rotation.new /\ asked' = {config}
  /\ ReturnError
  /\ UNCHANGED made

DeleteErrorKeepsKey ==
  /\ rotation.pc = "delete"
  /\ rotation' = [rotation EXCEPT !.pc = "idle"]
  /\ UNCHANGED <<iam, accepted, config, made, cancelled, history>>

(* DeleteAccessKey for the old key, and the new credentials are kept.      *)
Delete ==
  /\ rotation.pc = "delete" /\ Authorised
  /\ iam' = iam \ {config} /\ accepted' = accepted \ {config}
  /\ config' = rotation.new /\ asked' = {config}
  /\ Return("nil")
  /\ UNCHANGED <<made, failed, before>>

(* It fails, perhaps after the key is gone: the configuration stays.       *)
DeleteError ==
  /\ rotation.pc = "delete"
  /\ \/ UNCHANGED <<iam, accepted>>
     \/ /\ Authorised
        /\ iam' = iam \ {config} /\ accepted' = accepted \ {config}
  /\ asked' = {config}
  /\ ReturnError
  /\ UNCHANGED <<config, made>>

-----------------------------------------------------------------------------
(* A key IAM knows comes to be accepted everywhere.                        *)
Propagate(k) ==
  /\ k \in iam \ accepted
  /\ accepted' = accepted \cup {k}
  /\ UNCHANGED <<iam, config, made, rotation, cancelled, history>>

Cancel ==
  /\ rotation.pc # "idle" /\ ~ cancelled
  /\ cancelled' = TRUE
  /\ UNCHANGED <<iam, accepted, config, made, rotation, history>>

(* Timers run while an attempt is under way or paused; a select that can   *)
(* go on goes on first.                                                    *)
Tick ==
  /\ \/ rotation.pc = "attempt" /\ rotation.calling < MaxCall
     \/ rotation.pc = "pause" /\ rotation.paused < Delay /\ ~ TimeoutDone
  /\ rotation' = [rotation EXCEPT
       !.elapsed = IF @ < Timeout THEN @ + 1 ELSE @,
       !.paused = IF rotation.pc = "pause" THEN @ + 1 ELSE @,
       !.calling = IF rotation.pc = "attempt" THEN @ + 1 ELSE @]
  /\ UNCHANGED <<iam, accepted, config, made, cancelled, history>>

Rotate ==
  \/ Create \/ CreateError \/ Verified \/ NotVerified \/ Again \/ TimedOut
  \/ Delete \/ DeleteError

Next == GetUser \/ GetUserError \/ Rotate \/ (\E k \in 1..MaxKey : Propagate(k)) \/ Cancel \/ Tick

Spec == Init /\ [][Next]_vars

(* Calls return in the end, and timers run.                                *)
FairSpec == Spec /\ WF_vars(Rotate) /\ WF_vars(Tick)

-----------------------------------------------------------------------------
(* Types; between two rotations no key is in hand.                         *)
TypeOK ==
  /\ accepted \subseteq iam /\ iam \subseteq 1..made /\ made \in 1..MaxKey
  /\ config \in 1..made
  /\ rotation.pc \in {"idle", "create", "attempt", "pause", "delete"}
  /\ rotation.pc \in {"idle", "create"} <=> rotation.new = NoKey
  /\ rotation.new \in {NoKey} \cup (iam \ {config})
  /\ rotation.elapsed \in 0..Timeout /\ rotation.paused \in 0..Delay
  /\ rotation.calling \in 0..MaxCall
  /\ cancelled \in BOOLEAN /\ failed \in 0..made
  /\ answer \in {"none", "nil", "error"} /\ before \in 1..made /\ asked \subseteq 1..made

(* RotateKeys returns, even if the new key is never accepted: the timeout  *)
(* ends the attempts (lines 195-216).                                      *)
EveryRotationEnds == rotation.pc # "idle" ~> rotation.pc = "idle"

(* Lines 23-25: "we do also try to delete the new one to clean up". When   *)
(* the old key could not be deleted, IAM was asked to delete the new one.  *)
NewKeyCleanedUp ==
  [][rotation.pc = "delete" /\ answer' = "error" => rotation.new \in asked']_vars
=============================================================================

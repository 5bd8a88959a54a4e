----------------------------- MODULE KeyPromises -----------------------------
(***************************************************************************)
(* What awsutil/rotate.go promises of a user's access keys, over the part  *)
(* of the state that the promises are about.  RotateKeys extends it.       *)
(***************************************************************************)
EXTENDS Integers, FiniteSets

VARIABLES
  iam,               \* the user's access keys
  accepted,          \* the keys IAM and STS accept
  config,            \* c.AccessKey
  rotation,          \* where RotateKeys is, with its locals and its timers
  failed,            \* history: rotations that failed after making a key
  answer,            \* history: what the last call returned; "none" while it runs
  before             \* history: the key configured when that call began

(* With the validity check (lines 123-143) the configured credentials are  *)
(* accepted at all times, whatever fails and however long a new key takes  *)
(* to be known everywhere; unless their key is gone, which takes a lost    *)
(* answer to its deletion.                                                 *)
WorkingCredentials == config \in iam => config \in accepted

(* Lines 19-21: "If deletion of the old access key is successful, the new  *)
(* access key/secret key are written"; "On any error, the old credentials  *)
(* are not overwritten", even if the error is an answer to the deletion    *)
(* that was lost.  Credentials whose key is gone have cost the caller an   *)
(* error, and every later call returns one too.                            *)
OverwrittenAfterDeletion ==
  /\ answer = "nil" => config # before /\ before \notin iam
  /\ answer = "error" => config = before
  /\ config \notin iam => answer = "error"
=============================================================================

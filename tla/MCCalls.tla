------------------------------- MODULE MCCalls -------------------------------
(***************************************************************************)
(* Calls that wait for somebody, for TLC: for a permit of a pool, for AWS  *)
(* to take a new key, for random bytes that pass the rules, for a user to  *)
(* type a password.  They have nothing to do with each other, so a         *)
(* behaviour is one of any of them; the others stay in an initial state.   *)
(***************************************************************************)
EXTENDS PermitPool, KeyPromises

CONSTANTS
  Timeout, Delay, KeyLimit, MaxKey, MaxCall,         \* of RotateKeys
  Caller, maxCharsetLen, Charset, NonPrintable,      \* of StringGenerator
  MaxMinChars, MaxLength, Base62,
  MaxCalls, MaxKeys, AfterInterrupt                  \* of Password

ASSUME CallsAssumption ==
  /\ Timeout \in Nat /\ Delay \in Nat /\ MaxCall \in Nat /\ MaxKey \in Nat \ {0}
  /\ MaxCalls \in Nat /\ maxCharsetLen \in Nat \ {0} /\ Base62 \in Nat \ {0} /\ MaxLength \in Nat
  /\ \A chars \in Charset : IsFiniteSet(chars) /\ chars \subseteq Int

VARIABLES
  subject,           \* the call this behaviour is about
  made, ended, asked,
  source, generator, call,
  platform, isTerminal, mode, bytes, taken, open, pc, start, signalled, reader, result, echoed

Keys == INSTANCE RotateKeys WITH cancelled <- ended
Strings == INSTANCE StringGenerator
Prompt == INSTANCE Password

keysVars == <<iam, accepted, config, made, rotation, ended, failed, answer, before, asked>>
stringsVars == <<source, generator, call>>
promptVars ==
  <<platform, isTerminal, mode, bytes, taken, open, pc, start, signalled, reader, result, echoed>>

allVars == <<subject, vars, keysVars, stringsVars, promptVars>>

MCInit ==
  /\ subject \in {"permit", "keys", "string", "password"}
  /\ Init /\ Keys!Init /\ Strings!Init /\ Prompt!Init
  /\ subject # "string" => source = [how |-> "base62"]
  /\ subject # "password" => platform = "unix" /\ isTerminal

OfPermit(A) == subject = "permit" /\ A /\ UNCHANGED <<subject, keysVars, stringsVars, promptVars>>
OfKeys(A) == subject = "keys" /\ A /\ UNCHANGED <<subject, vars, stringsVars, promptVars>>

MCNext ==
  \/ OfPermit(Next)
  \/ OfKeys(Keys!Next)
  \/ subject = "string" /\ Strings!Next /\ UNCHANGED <<subject, vars, keysVars, promptVars>>
  \/ subject = "password" /\ Prompt!Next /\ UNCHANGED <<subject, vars, keysVars, stringsVars>>

(* The fairness of PermitPool's and RotateKeys' FairSpec.                  *)
MCSpec ==
  /\ MCInit /\ [][MCNext]_allVars
  /\ \A w \in Worker : WF_allVars(OfPermit(Release(w)))
  /\ WF_allVars(OfKeys(Keys!Rotate)) /\ WF_allVars(OfKeys(Keys!Tick))

-----------------------------------------------------------------------------
(* Types; see PermitPool and RotateKeys.                                   *)
TypesOK == TypeOK /\ Keys!TypeOK

(* A rotation ends, even if its key is never accepted.                     *)
EveryRotationEnds == Keys!EveryRotationEnds

(* Generated strings obey their rules, and no character is likelier.       *)
GeneratedSound == Strings!GeneratedSound

(* A password is read whole, unseen, and the terminal set back.            *)
PasswordSound == Prompt!PasswordSound
=============================================================================

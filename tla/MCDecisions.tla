----------------------------- MODULE MCDecisions -----------------------------
(***************************************************************************)
(* What the libraries decide from their arguments alone, for TLC: five     *)
(* modules of pure functions, which take turns at args and result, and     *)
(* three with a state of their own (ForwardedFor, ResponseHeaders,         *)
(* KvBuilder).  They share nothing: a behaviour is one of the subjects,    *)
(* and the variables of the others are unused.                             *)
(***************************************************************************)
EXTENDS Integers, Sequences

CONSTANTS
  Half64, Half32, Second, Day, Unit, MaxLen,         \* of ParseUtil
  Words, MaxItems, MaxLength,                        \* of StrUtil
  MaxListeners,                                      \* of Listeners
  MaxTokens, MaxExtra,                               \* of SharedConfig
  Host, Authorized, Port, MaxHopSkips, MaxLines, MaxValues,   \* of ForwardedFor
  Csp, Standard, Other, Hundreds, Exact, Status,     \* of ResponseHeaders
  Key, MaxArgs                                       \* of KvBuilder

ASSUME DecisionsAssumption ==
  Status \subseteq Int /\ Hundreds \subseteq Int /\ Exact \subseteq Int /\ Csp \in Standard

ASSUME NumbersAssumption ==
  /\ Half64 \in Nat \ {0} /\ Half32 \in Nat \ {0} /\ 2 * Half32 <= Half64
  /\ Second \in Nat \ {0} /\ Day \in Nat \ {0} /\ MaxLen \in Nat

ASSUME ListsAssumption == Words \in Nat /\ MaxItems \in Nat /\ MaxLength \in Nat

ASSUME AddressesAssumption ==
  /\ Authorized \subseteq Host /\ "not an address" \notin Host
  /\ MaxHopSkips \in Nat /\ MaxLines \in Nat /\ MaxValues \in Nat

VARIABLES
  subject,           \* the module this behaviour is one of
  args, result,
  l, remote, lines, outcome,
  raw, ui, option, pc, headers, header, headerWritten, sent, own, informed,
  supported, built, stdin, errors, log, reads

Parse == INSTANCE ParseUtil
Str == INSTANCE StrUtil
Listener == INSTANCE Listeners
Config == INSTANCE SharedConfig
Aws == INSTANCE Credentials
Forwarded == INSTANCE ForwardedFor WITH headers <- lines
Headers == INSTANCE ResponseHeaders
Builder == INSTANCE KvBuilder

callVars == <<args, result>>
forwardedVars == <<l, remote, lines, outcome>>
headersVars == <<raw, ui, option, pc, headers, header, headerWritten, sent, own, informed>>
builderVars == <<supported, built, stdin, errors, log, reads>>

allVars == <<subject, callVars, forwardedVars, headersVars, builderVars>>

-----------------------------------------------------------------------------
Unused == << >>

CallUnused == args = Unused /\ result = Unused
ForwardedUnused == l = Unused /\ remote = Unused /\ lines = Unused /\ outcome = Unused
HeadersUnused ==
  /\ raw = Unused /\ ui = Unused /\ option = Unused /\ pc = Unused /\ headers = Unused
  /\ header = Unused /\ headerWritten = Unused /\ sent = Unused /\ own = Unused
  /\ informed = Unused
BuilderUnused ==
  /\ supported = Unused /\ built = Unused /\ stdin = Unused /\ errors = Unused
  /\ log = Unused /\ reads = Unused

InitCall ==
  /\ \/ subject = "parse" /\ Parse!Init
     \/ subject = "lists" /\ Str!Init
     \/ subject = "listeners" /\ Listener!Init
     \/ subject = "config" /\ Config!Init
     \/ subject = "credentials" /\ Aws!Init
  /\ ForwardedUnused /\ HeadersUnused /\ BuilderUnused

MCInit ==
  \/ InitCall
  \/ subject = "forwarded" /\ Forwarded!Init /\ CallUnused /\ HeadersUnused /\ BuilderUnused
  \/ subject = "headers" /\ Headers!Init /\ CallUnused /\ ForwardedUnused /\ BuilderUnused
  \/ subject = "builder" /\ Builder!Init /\ CallUnused /\ ForwardedUnused /\ HeadersUnused

NextCall ==
  /\ \/ subject = "parse" /\ Parse!Next
     \/ subject = "lists" /\ Str!Next
     \/ subject = "listeners" /\ Listener!Next
     \/ subject = "config" /\ Config!Next
     \/ subject = "credentials" /\ Aws!Next
  /\ UNCHANGED <<subject, forwardedVars, headersVars, builderVars>>

MCNext ==
  \/ NextCall
  \/ /\ subject = "forwarded" /\ Forwarded!Next
     /\ UNCHANGED <<subject, callVars, headersVars, builderVars>>
  \/ /\ subject = "headers" /\ Headers!Next
     /\ UNCHANGED <<subject, callVars, forwardedVars, builderVars>>
  \/ /\ subject = "builder" /\ Builder!Next
     /\ UNCHANGED <<subject, callVars, forwardedVars, headersVars>>

MCSpec == MCInit /\ [][MCNext]_allVars

-----------------------------------------------------------------------------
(* What parseutil returns without an error is what it was given.           *)
ExactOrRefused == subject = "parse" => Parse!ExactOrRefused

(* Lists of strings behave as the sets they stand for.                     *)
ListsAreSets == subject = "lists" => Str!ListsAreSets

(* Listeners are taken as configured, or refused; TLS is served with what  *)
(* is reloaded.                                                            *)
ListenersSound == subject = "listeners" => Listener!ListenersSound

(* A configuration holds every block of its file or is refused, and merges *)
(* in any grouping.                                                        *)
ConfigSound == subject = "config" => Config!ConfigSound

(* An encrypted file decrypts to what it was.                              *)
RoundTrip == subject = "config" => Config!RoundTrip

(* A credential chain names exactly the one way that was configured.       *)
CredentialsSound == subject = "credentials" => Aws!CredentialsSound

(* The address a request is served under is decided by an authorized peer  *)
(* and the last entries of its chain.                                      *)
LastEntriesDecide == subject = "forwarded" => Forwarded!LastEntriesDecide

(* A response leaves with the headers its status is configured to have.    *)
HeadersAsConfigured == subject = "headers" => Headers!HeadersAsConfigured

(* A built map holds all that was given, in order.                         *)
NothingForgotten == subject = "builder" => Builder!NothingForgotten
=============================================================================

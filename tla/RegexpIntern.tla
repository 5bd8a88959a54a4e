---------------------------- MODULE RegexpIntern ----------------------------
(***************************************************************************)
(* regexp/regexp.go: regular expressions interned through weak pointers.   *)
(* compile and the cleanup run under the lock l, one action each.  Between *)
(* them the collector may take an expression nobody holds: its weak        *)
(* pointers turn nil at once, its cleanup runs some time later.            *)
(*                                                                         *)
(* An object is identified by its number; a weak pointer to it compares    *)
(* equal to itself for ever, hence is the number too.                      *)
(***************************************************************************)
EXTENDS Naturals, FiniteSets

CONSTANTS
  Client,            \* goroutines that compile and hold expressions
  Pattern,           \* patterns that compile (for another the error comes
                     \* back and the maps are as before)
  Kind,              \* the two syntaxes, each with its map
  MaxObjects         \* bound: expressions compiled

ASSUME ConstantsAssumption == MaxObjects \in Nat

VARIABLES
  internedPointers,  \* weakMap and posixWeakMap: <<kind, pattern>> -> object
  reverseMap,        \* object -> <<kind, pattern>>; the kind is what the
                     \* object's cleanup closure was given
  compiled,          \* number of objects made so far
  alive,             \* objects not collected
  held,              \* Client -> objects it can reach
  cleanups           \* objects whose cleanup is yet to run

vars == <<internedPointers, reverseMap, compiled, alive, held, cleanups>>

Key == Kind \X Pattern
Object == 1..MaxObjects

With(f, x, v) == [y \in DOMAIN f \cup {x} |-> IF y = x THEN v ELSE f[y]]
Without(f, x) == [y \in DOMAIN f \ {x} |-> f[y]]

Init ==
  /\ internedPointers = << >> /\ reverseMap = << >>
  /\ compiled = 0 /\ alive = {} /\ cleanups = {}
  /\ held = [c \in Client |-> {}]

-----------------------------------------------------------------------------
(* compile finds a live expression ...                                     *)
CompileHit(c, k) ==
  /\ k \in DOMAIN internedPointers
  /\ internedPointers[k] \in alive
  /\ held' = [held EXCEPT ![c] = @ \cup {internedPointers[k]}]
  /\ UNCHANGED <<internedPointers, reverseMap, compiled, alive, cleanups>>

(* A mutant: the reverse entry of the weak pointer that went nil stays.    *)
ReverseWithStale(k) == reverseMap

(* ... or makes one, first forgetting the weak pointer that went nil.      *)
ReverseWithoutStale(k) ==
  IF k \in DOMAIN internedPointers THEN Without(reverseMap, internedPointers[k]) ELSE reverseMap

CompileMiss(c, k) ==
  /\ k \in DOMAIN internedPointers => internedPointers[k] \notin alive
  /\ compiled < MaxObjects
  /\ compiled' = compiled + 1
  /\ internedPointers' = With(internedPointers, k, compiled + 1)
  /\ reverseMap' = With(ReverseWithoutStale(k), compiled + 1, k)
  /\ alive' = alive \cup {compiled + 1}
  /\ held' = [held EXCEPT ![c] = @ \cup {compiled + 1}]
  /\ UNCHANGED cleanups

Drop(c, o) ==
  /\ o \in held[c]
  /\ held' = [held EXCEPT ![c] = @ \ {o}]
  /\ UNCHANGED <<internedPointers, reverseMap, compiled, alive, cleanups>>

(* The collector takes an unreachable object.                              *)
Collect(o) ==
  /\ o \in alive /\ \A c \in Client : o \notin held[c]
  /\ alive' = alive \ {o}
  /\ cleanups' = cleanups \cup {o}
  /\ UNCHANGED <<internedPointers, reverseMap, compiled, held>>

(* A mutant: the cleanup leaves the reverse entry.                         *)
CleanupForwardOnly(o) ==
  /\ o \in cleanups
  /\ internedPointers' = IF o \in DOMAIN reverseMap
                         THEN Without(internedPointers, reverseMap[o]) ELSE internedPointers
  /\ cleanups' = cleanups \ {o}
  /\ UNCHANGED <<reverseMap, compiled, alive, held>>

(* cleanupCollectedPointers, only if the maps still know the object.       *)
Cleanup(o) ==
  /\ o \in cleanups
  /\ IF o \in DOMAIN reverseMap
     THEN /\ internedPointers' = Without(internedPointers, reverseMap[o])
          /\ reverseMap' = Without(reverseMap, o)
     ELSE UNCHANGED <<internedPointers, reverseMap>>
  /\ cleanups' = cleanups \ {o}
  /\ UNCHANGED <<compiled, alive, held>>

Next ==
  \/ \E c \in Client, k \in Key : CompileHit(c, k) \/ CompileMiss(c, k)
  \/ \E c \in Client, o \in Object : Drop(c, o)
  \/ \E o \in Object : Collect(o) \/ Cleanup(o)

Spec == Init /\ [][Next]_vars

(* The collector runs now and then, and the runtime runs the cleanup of    *)
(* what it took.                                                           *)
FairSpec == Spec /\ \A o \in Object : WF_vars(Collect(o)) /\ WF_vars(Cleanup(o))

-----------------------------------------------------------------------------
(* Types; what clients hold is alive, what has its cleanup ahead is not.   *)
TypeOK ==
  /\ compiled \in 0..MaxObjects
  /\ alive \subseteq 1..compiled /\ cleanups \subseteq 1..compiled
  /\ alive \cap cleanups = {}
  /\ held \in [Client -> SUBSET alive]
  /\ DOMAIN internedPointers \subseteq Key /\ DOMAIN reverseMap \subseteq 1..compiled
  /\ internedPointers = [k \in DOMAIN internedPointers |-> internedPointers[k]]
  /\ reverseMap = [o \in DOMAIN reverseMap |-> reverseMap[o]]

(* The weak pointers and reverseMap are inverse to each other: neither     *)
(* compile over a dead weak pointer nor a late cleanup tears them apart.   *)
MapsInverse ==
  /\ \A k \in DOMAIN internedPointers :
       internedPointers[k] \in DOMAIN reverseMap /\ reverseMap[internedPointers[k]] = k
  /\ \A o \in DOMAIN reverseMap :
       reverseMap[o] \in DOMAIN internedPointers /\ internedPointers[reverseMap[o]] = o

(* An expression in use is in the maps, even if the cleanup of a           *)
(* predecessor of its pattern ran after it was made.                       *)
LiveIsInterned == alive \subseteq DOMAIN reverseMap

(* "If two regexs with the same pattern are compiled, the result is the    *)
(* same" (lines 10-11): clients that hold expressions of one pattern and   *)
(* syntax hold the same object.                                            *)
SameAnswer ==
  /\ LiveIsInterned
  /\ \A c, d \in Client : \A o \in held[c], q \in held[d] :
       reverseMap[o] = reverseMap[q] => o = q

(* Lines 13-14: no entry is left behind; what the maps name is alive or    *)
(* has its cleanup ahead.                                                  *)
NoEntryLeaks == DOMAIN reverseMap \subseteq alive \cup cleanups

(* regexp_test.go line 86: once nobody holds an expression any more, the   *)
(* maps get empty.                                                         *)
NobodyHolds == \A c \in Client : held[c] = {}

EventuallyEmptied ==
  <>[]NobodyHolds => <>[](DOMAIN reverseMap = {} /\ DOMAIN internedPointers = {})
=============================================================================

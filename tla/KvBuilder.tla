------------------------------- MODULE KvBuilder -------------------------------
(***************************************************************************)
(* kv-builder: a map built from arguments one after the other.  An         *)
(* argument is a JSON document for the whole map ("-" from stdin, "@file") *)
(* or a value for one key, given as text, as a file's contents or as       *)
(* stdin's.  Arguments that fail end their call of Add; what the ones      *)
(* before them built stays, and Add may be called again.                   *)
(***************************************************************************)
EXTENDS Integers, Sequences, SequencesExt, Lists

CONSTANTS
  Key,
  MaxArgs            \* bound on the arguments of a behaviour

(* JSON values: a string or a number, a list, an empty object, null.       *)
One(v) == [slice |-> FALSE, of |-> <<v>>]
List(of) == [slice |-> TRUE, of |-> of]
EmptyMap == [slice |-> FALSE, of |-> <<"{}">>]
Null == [slice |-> FALSE, of |-> <<"null">>]

JsonValue == {One("json"), List(<<"json1", "json2">>), EmptyMap, Null}

(* Documents: an object with one key, null, or no object at all.           *)
Document == [kind : {"object"}, key : Key, val : JsonValue] \cup [kind : {"null", "no object"}]

(* Sources that cannot be read; "@" texts are escaped by a backslash.      *)
Readable == BOOLEAN

Arg ==
  [form : {"empty", "word"}]
  \cup [form : {"stdin document"}, doc : Document]
  \cup [form : {"file document"}, doc : Document, readable : Readable]
  \cup [form : {"value"}, key : Key, from : {"text", "escaped", "empty text"}]
  \cup [form : {"value"}, key : Key, from : {"file", "stdin"}, readable : Readable]

VARIABLES
  supported,         \* Stdin is not nil
  built,             \* the map; keys in its domain have values
  stdin,             \* stdin was consumed
  errors,            \* what the arguments so far returned
  log,               \* history: the arguments that were taken, in order
  reads              \* history: how often stdin was read

vars == <<supported, built, stdin, errors, log, reads>>

Init ==
  /\ supported \in BOOLEAN
  /\ built = << >> /\ stdin = FALSE /\ errors = << >> /\ log = << >> /\ reads = 0

-----------------------------------------------------------------------------
(* mapstructure's slice of a value: a list is one, an empty object and     *)
(* null are empty ones.                                                    *)
AsSlice(v) == IF v \in {EmptyMap, Null} THEN << >> ELSE v.of

(* A mutant: a value that is there already makes way for the new one.      *)
PutOver(map, key, v) ==
  [k \in DOMAIN map \cup {key} |-> IF k = key THEN One(v) ELSE map[k]]

(* Repeated keys become a list.                                            *)
Put(map, key, v) ==
  [k \in DOMAIN map \cup {key} |->
     IF k # key THEN map[k] ELSE IF key \in DOMAIN map THEN List(Append(AsSlice(map[key]), v)) ELSE One(v)]

(* A decoded object replaces its keys; null replaces the map.              *)
Decoded(map, doc) ==
  CASE doc.kind = "object" -> [k \in DOMAIN map \cup {doc.key} |-> IF k = doc.key THEN doc.val ELSE map[k]]
    [] doc.kind = "null"   -> << >>
    [] OTHER               -> map

Taken(arg, map) == built' = map /\ errors' = Append(errors, FALSE) /\ log' = Append(log, arg)
Failed == errors' = Append(errors, TRUE) /\ UNCHANGED <<built, log>>

FromStdin(arg) == arg.form = "stdin document" \/ (arg.form = "value" /\ arg.from = "stdin")

(* Stdin can be taken once, also if it could then not be read.             *)
ConsumeStdin(arg, fine, map) ==
  IF ~ supported \/ stdin THEN Failed /\ UNCHANGED <<stdin, reads>>
  ELSE /\ stdin' = TRUE /\ reads' = reads + 1
       /\ IF fine THEN Taken(arg, map) ELSE Failed

ContentOf(from) == CASE from = "escaped" -> "@" [] from = "empty text" -> "" [] OTHER -> from

AddDocument(arg) ==
  LET fine == arg.doc.kind # "no object"
  IN  IF FromStdin(arg) THEN ConsumeStdin(arg, fine, Decoded(built, arg.doc))
      ELSE /\ IF arg.readable /\ fine THEN Taken(arg, Decoded(built, arg.doc)) ELSE Failed
           /\ UNCHANGED <<stdin, reads>>

AddValue(arg) ==
  LET map == Put(built, arg.key, ContentOf(arg.from))
  IN  IF FromStdin(arg) THEN ConsumeStdin(arg, arg.readable, map)
      ELSE /\ IF arg.from = "file" /\ ~ arg.readable THEN Failed ELSE Taken(arg, map)
           /\ UNCHANGED <<stdin, reads>>

(* An empty argument is fine and ignored; a word without "=" is not.       *)
Add(arg) ==
  /\ Len(errors) < MaxArgs
  /\ CASE arg.form = "empty" -> Taken(arg, built) /\ UNCHANGED <<stdin, reads>>
       [] arg.form = "word"  -> Failed /\ UNCHANGED <<stdin, reads>>
       [] arg.form = "value" -> AddValue(arg)
       [] OTHER              -> AddDocument(arg)
  /\ UNCHANGED supported

Next == \E arg \in Arg : Add(arg)

Spec == Init /\ [][Next]_vars

-----------------------------------------------------------------------------
(* What was given for a key since a document last said something of it.    *)
IsDocument(arg) == arg.form \in {"stdin document", "file document"}

Says(arg, key) == IsDocument(arg) /\ (arg.doc.kind = "null" \/ (arg.doc.kind = "object" /\ arg.doc.key = key))

LastSaid(key) ==
  LET said == {i \in DOMAIN log : Says(log[i], key)}
  IN  IF said = {} THEN 0 ELSE CHOOSE i \in said : \A j \in said : j <= i

SaidBy(arg) == IF arg.doc.kind = "object" THEN AsSlice(arg.doc.val) ELSE << >>

ValuesOf(key) == {arg \in Arg : arg.form = "value" /\ arg.key = key}

Since(key) ==
  LET after == LastSaid(key)
      values == Only(SubSeq(log, after + 1, Len(log)), ValuesOf(key))
  IN  (IF after = 0 THEN << >> ELSE SaidBy(log[after]))
        \o [i \in DOMAIN values |-> ContentOf(values[i].from)]

(* builder.go: the map holds, for every key, all that was given for it and *)
(* in that order, from wherever it came, and nothing of an argument that   *)
(* failed; a document replaces what was there.  Stdin is read once.        *)
NothingForgotten ==
  /\ \A key \in Key : Since(key) = IF key \in DOMAIN built THEN AsSlice(built[key]) ELSE << >>
  /\ reads <= 1
  /\ \A i, j \in DOMAIN log : FromStdin(log[i]) /\ FromStdin(log[j]) => i = j
=============================================================================

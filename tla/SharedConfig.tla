----------------------------- MODULE SharedConfig -----------------------------
(***************************************************************************)
(* configutil without the plugins (PluginLifecycle): the KMS blocks of a   *)
(* configuration (filterKMSes, parseKMS), the configuration around them    *)
(* (ParseConfig), what Sanitized shows of it, Merge, and the encryption of *)
(* marked values in a configuration file (EncryptDecrypt).                 *)
(***************************************************************************)
EXTENDS Integers, Sequences, SequencesExt, Lists

CONSTANTS
  MaxTokens,         \* bound on the length of a line of a file
  MaxExtra           \* bound on the blocks of a kind beyond the limit

VARIABLES args, result

vars == <<args, result>>

Pending == << >>

Error == [err |-> TRUE]
Ok(v) == [err |-> FALSE, val |-> v]

-----------------------------------------------------------------------------
(* A block: its name in the file, and for each of its entries whether it   *)
(* is there and can be parsed.  "empty" is the empty string.               *)
BlockName == <<"hsm", "seal", "kms">>      \* in the order they are looked for

Plain(name) ==
  [name |-> name, disabled |-> "absent", purpose |-> "absent", path |-> "absent",
   checksum |-> "absent", config |-> "string"]

Block ==
  [name : {"kms"}, disabled : {"absent", "bad", "true"}, purpose : {"absent", "bad", "list"},
   path : {"absent", "empty", "string", "bad"},
   checksum : {"absent", "empty", "hex", "not hex", "bad"}, config : {"string", "bad"}]

Set(x) == x \notin {"absent", "empty"}

(* A mutant: only the path is looked at.                                   *)
BlockFailsOneWay(b) ==
  "bad" \in {b.disabled, b.purpose, b.path, b.checksum, b.config} \/ b.checksum = "not hex"
  \/ (Set(b.path) /\ ~ Set(b.checksum))

(* A plugin is given by its path and its checksum, or by neither.          *)
BlockFails(b) ==
  "bad" \in {b.disabled, b.purpose, b.path, b.checksum, b.config} \/ b.checksum = "not hex"
  \/ Set(b.path) # Set(b.checksum)

KMS(b) ==
  [type |-> b.name, disabled |-> b.disabled = "true", purpose |-> b.purpose = "list",
   plugin |-> Set(b.path), checksum |-> Set(b.checksum), config |-> b.config]

parseKMS(blocks, max) ==
  IF (max > 0 /\ Len(blocks) > max) \/ \E i \in DOMAIN blocks : BlockFails(blocks[i])
  THEN Error ELSE Ok([i \in DOMAIN blocks |-> KMS(blocks[i])])

(* The limits of the three kinds of block, if none is given.               *)
DefaultMax(name) == CASE name = "hsm" -> 2 [] name = "seal" -> 3 [] name = "kms" -> 5

(* The blocks of one kind, in their order.                                 *)
Named(list, name) == Only(list, {b \in ToSet(list) : b.name = name})

filterKMSes(list, maxBlocks) ==
  LET parsed == [k \in DOMAIN BlockName |->
                   parseKMS(Named(list, BlockName[k]),
                            IF maxBlocks = 0 THEN DefaultMax(BlockName[k]) ELSE maxBlocks)]
  IN  IF \E k \in DOMAIN parsed : parsed[k].err THEN Error
      ELSE Ok(FlattenSeq([k \in DOMAIN parsed |-> parsed[k].val]))

(* The file around the blocks: what else can go wrong, and what it holds.  *)
(* A cluster name that is not a URL is taken as it is.                     *)
Stage == {"hcl", "duration", "mlock", "cluster name", "entropy", "listener", "telemetry", "none"}

ParseConfig(d) ==
  LET seals == filterKMSes(d.blocks, d.maxBlocks)
  IN  IF d.fails # "none" \/ seals.err THEN Error
      ELSE Ok([seals |-> seals.val, listeners |-> <<"listener">>, clusterName |-> d.clusterName])

(* Of a seal, Sanitized shows the type and whether it is disabled.         *)
Sanitized(c) ==
  [cluster_name |-> c.clusterName, listeners |-> c.listeners,
   seals |-> [i \in DOMAIN c.seals |-> [type |-> c.seals[i].type, disabled |-> c.seals[i].disabled]]]

-----------------------------------------------------------------------------
(* Merge: the fields of a SharedConfig by the way they are merged.         *)
Appended == {"Listeners", "Seals"}
Overriding == {"Entropy", "Telemetry", "LogLevel", "LogFormat", "PidFile", "ClusterName"}
MergedFields == Appended \cup Overriding \cup {"DisableMlock", "DefaultMaxRequestDuration"}

(* Unset is nil, "", FALSE, 0 or an empty list: 0 or << >> here.           *)
Unset(f) == IF f \in Appended THEN << >> ELSE 0

Nil == << >>

Merge(c, c2) ==
  IF c2 = Nil THEN c
  ELSE [f \in MergedFields |->
          CASE f \in Appended                    -> c[f] \o c2[f]
            [] f \in Overriding                  -> IF c2[f] # 0 THEN c2[f] ELSE c[f]
            [] f = "DisableMlock"                -> IF c2[f] = 1 THEN 1 ELSE c[f]
            [] f = "DefaultMaxRequestDuration"   -> IF c2[f] > c[f] THEN c2[f] ELSE c[f]]

(* Configurations in which at most the fields f and g are set.             *)
Values(f) == IF f \in Appended THEN {<< >>, <<1>>, <<2>>} ELSE IF f = "DisableMlock" THEN 0..1 ELSE 0..2

ConfigsOf(f, g) ==
  {[h \in MergedFields |-> IF h = f THEN v ELSE IF h = g THEN w ELSE Unset(h)] :
     v \in Values(f), w \in Values(g)}

-----------------------------------------------------------------------------
(* A file is a sequence of tokens: the two opening markers, the closing    *)
(* one, the end of a line, text, and what a value is encrypted to.         *)
Encrypt == [token |-> "{{encrypt("]
Decrypt == [token |-> "{{decrypt("]
Close == [token |-> ")}}"]
Newline == [token |-> "newline"]
Text == [token |-> "text"]
Cipher(value) == [token |-> "cipher", of |-> value]

Opening(decrypt) == IF decrypt THEN Decrypt ELSE Encrypt

Marked(raw, decrypt) ==
  {m \in (DOMAIN raw) \X (DOMAIN raw) :
     /\ m[1] < m[2] /\ raw[m[1]] = Opening(decrypt) /\ raw[m[2]] = Close
     /\ \A i \in m[1]..m[2] : raw[i] # Newline}

Inside(m, n) == n[1] <= m[1] /\ m[2] <= n[2]

(* encryptRegex, decryptRegex: what they match stays within a line, and    *)
(* goes from its first opening marker to its last closing one.             *)
Matches(raw, decrypt) ==
  {m \in Marked(raw, decrypt) : \A n \in Marked(raw, decrypt) : Inside(m, n) => n = m}

FindAllIndex(raw, decrypt) ==
  LET matches == Matches(raw, decrypt)
  IN  SortedBy(matches, [m \in matches |-> m[1]])

(* The wrapper may fail; it decrypts only what it encrypted.               *)
Transformed(value, decrypt, wrapper) ==
  IF wrapper = "fails" THEN Error
  ELSE IF ~ decrypt THEN Ok(<<Cipher(value)>>)
  ELSE IF Len(value) = 1 /\ value[1].token = "cipher" THEN Ok(value[1].of) ELSE Error

(* A mutant: it stays where it was.                                        *)
StaysAtTheStart(locs, k) == 0

(* Where the k-th match finds the variable of this name.                   *)
prevMaxLoc(locs, k) == IF k = 1 THEN 0 ELSE locs[k - 1][2]

EncryptDecrypt(raw, decrypt, strip, wrapper) ==
  LET locs == FindAllIndex(raw, decrypt)
      final == [k \in DOMAIN locs |->
                  Transformed(SubSeq(raw, locs[k][1] + 1, locs[k][2] - 1), decrypt, wrapper)]
      marked(v) == IF strip THEN v ELSE <<Opening(~ decrypt)>> \o v \o <<Close>>
      piece(k) == SubSeq(raw, prevMaxLoc(locs, k) + 1, locs[k][1] - 1) \o marked(final[k].val)
  IN  IF \E k \in DOMAIN locs : final[k].err THEN Error
      ELSE Ok(FlattenSeq([k \in DOMAIN locs |-> piece(k)])
                \o SubSeq(raw, prevMaxLoc(locs, Len(locs) + 1) + 1, Len(raw)))

-----------------------------------------------------------------------------
Blocks(hsm, seal, kms) ==
  [i \in 1..hsm |-> Plain("hsm")] \o [i \in 1..kms |-> Plain("kms")] \o [i \in 1..seal |-> Plain("seal")]

Parses(limits, stages, names, files) ==
  [fn : {"parse"}, maxBlocks : limits, fails : stages, clusterName : names, blocks : files]

(* Files with many blocks, and files with one block that may be bad.       *)
Counted ==
  {Blocks(h, s, k) : h \in 0..2 + MaxExtra, s \in 0..3 + MaxExtra, k \in 0..5 + MaxExtra}
Tried == {<<b>> : b \in Block} \cup {<<b, Plain("hsm")>> : b \in Block}

ParseInputs ==
  Parses({-1, 0, 2}, {"none"}, {"name"}, Counted)
  \cup Parses({0}, Stage, {"name", "not a url"}, Tried)

(* Two configurations in which at most the same two fields are set, and    *)
(* nil or, for a field of each kind, a third one.                          *)
Merges(f, g, others) ==
  [fn : {"merge"}, a : ConfigsOf(f, g), b : ConfigsOf(f, g), c : others \cup {Nil}]

MergeInputs ==
  (UNION {Merges(f, g, ConfigsOf(f, g)) :
            f, g \in {"Seals", "LogLevel", "DefaultMaxRequestDuration", "DisableMlock"}})
  \cup (UNION {Merges(f, g, {}) : f, g \in MergedFields})

(* Files of one line, of two short ones and of three, most of them with    *)
(* something to encrypt.                                                   *)
Token == {Encrypt, Decrypt, Close, Text, Cipher(<<Text>>)}

Joined(first, second) == first \o <<Newline>> \o second

Typical ==
  {<<Text>>, <<Encrypt, Text, Close>>, <<Text, Encrypt, Close, Text>>,
   <<Decrypt, Cipher(<<Text>>), Close>>}

Files ==
  SeqOf(Token, MaxTokens)
  \cup {Joined(first, second) : first, second \in SeqOf(Token, MaxTokens - 2)}
  \cup {Joined(first, Joined(second, third)) : first, second, third \in Typical}

CryptInputs ==
  [fn : {"crypt"}, raw : Files, decrypt : BOOLEAN, strip : BOOLEAN, wrapper : {"works"}]
  \cup [fn : {"crypt"}, raw : SeqOf(Token, MaxTokens - 2), decrypt : BOOLEAN, strip : BOOLEAN,
        wrapper : {"fails"}]

Inputs == ParseInputs \cup MergeInputs \cup CryptInputs

Call(a) ==
  CASE a.fn = "parse" -> ParseConfig(a)
    [] a.fn = "merge" -> Merge(Merge(a.a, a.b), a.c)
    [] a.fn = "crypt" -> EncryptDecrypt(a.raw, a.decrypt, a.strip, a.wrapper)

Init == args \in Inputs /\ result = Pending

Return == result = Pending /\ result' = <<Call(args)>> /\ UNCHANGED args

Next == Return

Spec == Init /\ [][Next]_vars

-----------------------------------------------------------------------------
returned == result[1]

Called(fn) == args.fn = fn /\ result # Pending

CountOf(name, seq) == Len(Only(seq, {name}))

(* A configuration holds every block of its file or is refused: the counts *)
(* are within a limit that is given (0 stands for limits of the code's own *)
(* choice, not for the "unlimited" of options.go:41-42), a plugin has path *)
(* and checksum, an error in one block leaves none; and Sanitized shows    *)
(* nothing of a seal's settings.                                           *)
BlocksSound ==
  Called("parse") /\ ~ returned.err =>
    LET types == [i \in DOMAIN returned.val.seals |-> returned.val.seals[i].type]
        names == [i \in DOMAIN args.blocks |-> args.blocks[i].name]
    IN  /\ \A k \in DOMAIN BlockName :
             /\ CountOf(BlockName[k], types) = CountOf(BlockName[k], names)
             /\ args.maxBlocks > 0 => CountOf(BlockName[k], types) <= args.maxBlocks
        /\ \A i \in DOMAIN returned.val.seals :
             returned.val.seals[i].plugin = returned.val.seals[i].checksum
        /\ LET shown == Sanitized(returned.val).seals
           IN  \A i \in DOMAIN shown : DOMAIN shown[i] = {"type", "disabled"}

(* Merging three configurations gives the same either way, keeps every     *)
(* block and never shortens the longest request duration; nothing is       *)
(* changed by merging nil.                                                 *)
MergeAssociative ==
  Called("merge") =>
    IF args.c = Nil THEN returned = Merge(args.a, args.b)
    ELSE /\ returned = Merge(args.a, Merge(args.b, args.c))
         /\ \A x \in {args.a, args.b, args.c} :
              /\ returned["DefaultMaxRequestDuration"] >= x["DefaultMaxRequestDuration"]
              /\ ToSet(x["Seals"]) \subseteq ToSet(returned["Seals"])

(* Does raw have a decrypt marker that is not part of a value to encrypt?  *)
DecryptOutside(raw) ==
  \E i \in DOMAIN raw :
    raw[i] = Decrypt /\ \A m \in Matches(raw, FALSE) : i \notin m[1]..m[2]

(* A file is encrypted unless the wrapper fails, in all of its marked      *)
(* values and in nothing else: no value stays readable, and it decrypts    *)
(* to the same file.  One with decrypt markers of its own may be refused   *)
(* then (a line's first marker takes all up to its last closing one), or   *)
(* have them decrypted as well, which encrypting it again undoes: it never *)
(* decrypts to something else.                                             *)
RoundTrip ==
  Called("crypt") /\ ~ args.decrypt =>
    /\ returned.err <=> args.wrapper = "fails" /\ Matches(args.raw, FALSE) # {}
    /\ ~ returned.err => Matches(returned.val, FALSE) = {}
    /\ ~ returned.err /\ ~ args.strip =>
         LET back == EncryptDecrypt(returned.val, TRUE, FALSE, "works")
         IN  IF DecryptOutside(args.raw)
             THEN back.err \/ EncryptDecrypt(back.val, FALSE, FALSE, "works") = returned
             ELSE back = Ok(args.raw)

(* Files and configurations; what becomes of marked values is RoundTrip.   *)
ConfigSound == BlocksSound /\ MergeAssociative
=============================================================================

-------------------------------- MODULE StrUtil --------------------------------
(***************************************************************************)
(* strutil: lists of strings as sets, key-value lists, and the few         *)
(* functions on single strings.  A string of a list is a word (0 is the    *)
(* empty one), in upper case or not, with a space in front or not; a       *)
(* string that is looked into is a sequence of characters.  Only           *)
(* EquivalentSlices tells a nil slice from an empty one.                   *)
(***************************************************************************)
EXTENDS Integers, Sequences, SequencesExt, Lists

CONSTANTS
  Words,             \* the words are 0..Words
  MaxItems, MaxLength  \* bounds on lists and on strings

VARIABLES args, result

vars == <<args, result>>

Pending == << >>

Str == [word : 0..Words, upper : BOOLEAN, space : BOOLEAN]
Item == {s \in Str : s.word = 0 => ~ s.upper}

(* strings.TrimSpace, strings.ToLower                                      *)
TrimSpace(s) == [s EXCEPT !.space = FALSE]
ToLower(s) == [s EXCEPT !.upper = FALSE]

Empty == [word |-> 0, upper |-> FALSE, space |-> FALSE]

(* Spaces sort before upper case, upper case before lower case.            *)
Order ==
  [s \in Str |-> ((IF s.space THEN 0 ELSE 2) + (IF s.upper THEN 0 ELSE 1)) * (Words + 1) + s.word]

Sorted(set) == SortedBy(set, Order)

Folded(s, lowercase) == IF lowercase THEN ToLower(TrimSpace(s)) ELSE TrimSpace(s)

-----------------------------------------------------------------------------
StrListContains(haystack, needle) == \E i \in DOMAIN haystack : haystack[i] = needle

StrListSubset(super, sub) == \A i \in DOMAIN sub : StrListContains(super, sub[i])

RemoveDuplicates(items, lowercase) ==
  Sorted({Folded(items[i], lowercase) : i \in DOMAIN items} \ {Empty})

(* A mutant: an item is compared with the trimmed spellings before it.     *)
PlacesOfSpellings(items, caseInsensitive) ==
  {i \in DOMAIN items :
     /\ TrimSpace(items[i]) # Empty
     /\ \A j \in 1..i - 1 : TrimSpace(items[j]) # TrimSpace(items[i])}

(* The places of the items kept: the first of each key, keys being         *)
(* trimmed, and lower case if that is asked for.                           *)
FirstPlaces(items, caseInsensitive) ==
  {i \in DOMAIN items :
     /\ TrimSpace(items[i]) # Empty
     /\ \A j \in 1..i - 1 : Folded(items[j], caseInsensitive) # Folded(items[i], caseInsensitive)}

RemoveDuplicatesStable(items, caseInsensitive) ==
  LET kept == SortedBy(FirstPlaces(items, caseInsensitive), [i \in DOMAIN items |-> i])
  IN  [n \in DOMAIN kept |-> items[kept[n]]]

Slice(nil, items) == [nil |-> nil, items |-> items]

EquivalentSlices(a, b) == a.nil = b.nil /\ ToSet(a.items) = ToSet(b.items)

StrListDelete(s, d) ==
  IF ~ StrListContains(s, d) THEN s
  ELSE RemoveAt(s, CHOOSE i \in DOMAIN s : s[i] = d /\ \A j \in 1..i - 1 : s[j] # d)

AppendIfMissing(slice, s) == IF StrListContains(slice, s) THEN slice ELSE Append(slice, s)

MergeSlices(a, b) == Sorted(ToSet(a) \cup ToSet(b))

(* If there is nothing to take away, a is not cleaned of duplicates.       *)
Difference(a, b, lowercase) ==
  IF a = << >> THEN a
  ELSE IF b = << >> THEN [i \in DOMAIN a |-> IF lowercase THEN ToLower(a[i]) ELSE a[i]]
  ELSE Sorted(ToSet(RemoveDuplicates(a, lowercase)) \ ToSet(RemoveDuplicates(b, lowercase)))

(* A list as a string: blank, JSON (which may be null), or separated by    *)
(* sep; any of them may be in base64.  JSON keeps the spaces.              *)
ParseStringSlice(items) == [i \in DOMAIN items |-> TrimSpace(items[i])]

ParseArbitraryStringSlice(form, items) ==
  CASE form \in {"blank", "null"} -> << >>
    [] form = "json"              -> items
    [] form = "separated"         -> ParseStringSlice(items)

-----------------------------------------------------------------------------
(* "key=value" texts; key or value may be blank, and a text may have       *)
(* another number of "=".  Lower case, sorted by key and then by value.    *)
Pair == [key : 0..Words, value : 0..2, shards : {2, 3}]

SortedPairs(pairs) == SortedBy(pairs, [p \in Pair |-> 6 * p.key + 2 * p.value + p.shards])

Valid(pair) == pair.shards = 2 /\ pair.key # 0 /\ pair.value # 0

(* Pairs are put into out one by one, up to the first that is not valid.   *)
PutUpTo(pairs, out) ==
  LET sorted == SortedPairs(pairs)
      put == {i \in DOMAIN sorted : \A j \in 1..i : Valid(sorted[j])}
  IN  [key \in DOMAIN out \cup {sorted[i].key : i \in put} |->
         LET of == {i \in put : sorted[i].key = key}
         IN  IF of = {} THEN out[key]
             ELSE sorted[CHOOSE i \in of : \A j \in of : j <= i].value]

ParseKeyValues(pairs, out) ==
  [err |-> \E pair \in pairs : ~ Valid(pair), out |-> PutUpTo(pairs, out)]

(* JSON first; then pairs.  In the end no value may be empty, also none    *)
(* that was in out before.                                                 *)
ParseArbitraryKeyValues(json, pairs, out) ==
  LET fromJson == [key \in DOMAIN out \cup {p.key : p \in pairs} |->
                     IF \E p \in pairs : p.key = key
                     THEN (CHOOSE p \in pairs : p.key = key).value ELSE out[key]]
      parsed == IF json THEN [err |-> FALSE, out |-> fromJson] ELSE ParseKeyValues(pairs, out)
  IN  IF pairs = {} /\ ~ json THEN [err |-> FALSE, out |-> out]
      ELSE [parsed EXCEPT !.err = @ \/ \E key \in DOMAIN parsed.out \ {0} : parsed.out[key] = 0]

EqualStringMaps(a, b) ==
  /\ \A k \in DOMAIN a : k \in DOMAIN b /\ a[k] = b[k]
  /\ \A k \in DOMAIN b : k \in DOMAIN a

-----------------------------------------------------------------------------
(* "*" is a wildcard at the ends of an item of two characters or more.     *)
Char == {"*", "x", "y"}
HasPart(val, part) ==
  \E i \in 1..Len(val) - Len(part) + 1 : SubSeq(val, i, i + Len(part) - 1) = part

GlobbedStringsMatch(item, val) ==
  LET first == Len(item) >= 2 /\ item[1] = "*"
      last == Len(item) >= 2 /\ item[Len(item)] = "*"
      rest == SubSeq(item, 2, Len(item))
      front == SubSeq(item, 1, Len(item) - 1)
  IN  IF first /\ last THEN HasPart(val, SubSeq(item, 2, Len(item) - 1))
      ELSE IF first THEN IsSuffix(rest, val)
      ELSE IF last THEN IsPrefix(front, val)
      ELSE val = item

(* Swapped from both ends to the middle and one over: for the empty string *)
(* that is an index too far.                                               *)
Reversed(s) == IF s = << >> THEN "panic" ELSE Reverse(s)

-----------------------------------------------------------------------------
Lists(n) == SeqOf(Item, n)
Slices(n) == {Slice(FALSE, items) : items \in Lists(n)} \cup {Slice(TRUE, << >>)}
KeyMaps == UNION {[keys -> 0..2] : keys \in SUBSET (1..Words)}
PairSets == UNION {kSubset(n, {q \in Pair : q.shards = 2 \/ q.value = 0}) : n \in 0..2}

Call(a) ==
  CASE a.fn = "dedup"   -> RemoveDuplicates(a.a, a.fold)
    [] a.fn = "stable"  -> RemoveDuplicatesStable(a.a, a.fold)
    [] a.fn = "diff"    -> Difference(a.a, a.b, a.fold)
    [] a.fn = "sets"    -> [equivalent |-> EquivalentSlices(a.a, a.b),
                            subset |-> StrListSubset(a.a.items, a.b.items),
                            merged |-> Slice(FALSE, MergeSlices(a.a.items, a.b.items))]
    [] a.fn = "one"     -> [deleted |-> StrListDelete(a.a, a.s), added |-> AppendIfMissing(a.a, a.s)]
    [] a.fn = "slice"   -> ParseArbitraryStringSlice(a.form, a.a)
    [] a.fn = "pairs"   -> ParseArbitraryKeyValues(a.json, a.pairs, a.out)
    [] a.fn = "maps"    -> EqualStringMaps(a.out, a.other)
    [] a.fn = "glob"    -> GlobbedStringsMatch(a.item, a.val)
    [] a.fn = "reverse" -> Reversed(a.val)

Inputs ==
  [fn : {"dedup", "stable"}, a : Lists(MaxItems), fold : BOOLEAN]
  \cup [fn : {"diff"}, a : Lists(2), b : Lists(2), fold : BOOLEAN]
  \cup [fn : {"sets"}, a : Slices(2), b : Slices(2)]
  \cup [fn : {"one"}, a : Lists(2), s : Item]
  \cup [fn : {"slice"}, form : {"blank", "null", "json", "separated"}, a : Lists(2) \ {<< >>}]
  \cup [fn : {"pairs"}, json : {FALSE}, pairs : PairSets, out : KeyMaps]
  \cup [fn : {"pairs"}, json : {TRUE}, out : KeyMaps,
        pairs : {p \in PairSets : \A i, j \in p : i.shards = 2 /\ (i.key = j.key => i = j)}]
  \cup [fn : {"maps"}, out : KeyMaps, other : KeyMaps]
  \cup [fn : {"glob"}, item : SeqOf(Char, MaxLength), val : SeqOf(Char, MaxLength)]
  \cup [fn : {"reverse"}, val : SeqOf(Char, MaxLength)]

Init == args \in Inputs /\ result = Pending

Return == result = Pending /\ result' = <<Call(args)>> /\ UNCHANGED args

Next == Return

Spec == Init /\ [][Next]_vars

-----------------------------------------------------------------------------
returned == result[1]

Called(fn) == args.fn = fn /\ result # Pending

Keys(items, fold) == {Folded(items[i], fold) : i \in DOMAIN items} \ {Empty}

NoDuplicates(seq) == \A i, j \in DOMAIN seq : i # j => seq[i] # seq[j]

(* RemoveDuplicatesStable keeps exactly one item of every key, as it was   *)
(* written and in the order of the list; RemoveDuplicates the same keys,   *)
(* sorted.                                                                 *)
OneOfEachKey ==
  /\ Called("stable") =>
       /\ Keys(returned, args.fold) = Keys(args.a, args.fold)
       /\ Len(returned) = Len(RemoveDuplicates(args.a, args.fold))
       /\ ToSet(returned) \subseteq ToSet(args.a)
       /\ \A i, j \in DOMAIN returned : i < j =>
            \E k, m \in DOMAIN args.a : k < m /\ args.a[k] = returned[i] /\ args.a[m] = returned[j]
  /\ Called("dedup") => NoDuplicates(returned) /\ ToSet(returned) = Keys(args.a, args.fold)

(* Difference takes away exactly what b names, keeping the duplicates of a *)
(* if b is empty (lines 434-442); equivalence, subsets and merging agree   *)
(* with each other, but that a nil slice is not equivalent to an empty one *)
(* (lines 303-305); one item is added or deleted, and no other.            *)
SetsAgree ==
  /\ Called("diff") =>
       Keys(returned, args.fold) = Keys(args.a, args.fold) \ Keys(args.b, args.fold)
  /\ Called("sets") =>
       /\ returned.equivalent <=>
            /\ returned.subset /\ StrListSubset(args.b.items, args.a.items)
            /\ args.a.nil <=> args.b.nil
       /\ returned.subset <=> EquivalentSlices(returned.merged, Slice(FALSE, args.a.items))
  /\ Called("one") =>
       /\ ToSet(returned.added) = ToSet(args.a) \cup {args.s}
       /\ ToSet(args.a) \ {args.s} \subseteq ToSet(returned.deleted)
       /\ Len(returned.deleted) = Len(args.a) - (IF StrListContains(args.a, args.s) THEN 1 ELSE 0)
  /\ Called("maps") => (returned <=> args.out = args.other)

(* A key-value list that is refused leaves no key with a value that was    *)
(* in neither the list nor the map; one that is accepted leaves no value   *)
(* empty and loses no key.                                                 *)
PairsFromSomewhere ==
  Called("pairs") =>
    /\ DOMAIN args.out \subseteq DOMAIN returned.out
    /\ \A key \in DOMAIN returned.out :
         \/ key \in DOMAIN args.out /\ returned.out[key] = args.out[key]
         \/ \E pair \in args.pairs : pair.key = key /\ pair.value = returned.out[key]
    /\ ~ returned.err /\ (args.json \/ args.pairs # {}) =>
         /\ {pair.key : pair \in args.pairs} \subseteq DOMAIN returned.out
         /\ \A key \in DOMAIN returned.out \ {0} : returned.out[key] # 0

(* A wildcard stands for any characters.                                   *)
WildcardsMatch ==
  Called("glob") /\ Len(args.item) >= 2 =>
    LET lead == IF Head(args.item) = "*" THEN 1 ELSE 0
        trail == IF Last(args.item) = "*" THEN 1 ELSE 0
        core == SubSeq(args.item, 1 + lead, Len(args.item) - trail)
    IN  returned <=> \E i \in 0..Len(args.val) :
                     LET n == Len(args.val) - i - Len(core)
                     IN  /\ n >= 0 /\ SubSeq(args.val, i + 1, i + Len(core)) = core
                         /\ (i > 0 => lead = 1) /\ (n > 0 => trail = 1)

(* strutil: lists behave as the sets they stand for, and key-value lists   *)
(* and wildcards as they are documented.  The four parts are above.        *)
ListsAreSets == OneOfEachKey /\ SetsAgree /\ PairsFromSomewhere /\ WildcardsMatch
=============================================================================

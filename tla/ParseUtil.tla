------------------------------- MODULE ParseUtil -------------------------------
(***************************************************************************)
(* parseutil: numbers, durations, capacities, lists of numbers, addresses  *)
(* and paths out of values of any type.  Half64 and Half32 stand for 2^63  *)
(* and 2^31, half of the numbers of a type; int is int64.  A text is what  *)
(* it reads as: a form and a number.                                       *)
(***************************************************************************)
EXTENDS Integers, Sequences, SequencesExt, Lists

CONSTANTS
  Half64, Half32,    \* int64 is -Half64 .. Half64 - 1
  Second, Day,       \* nanoseconds in each
  Unit,              \* the multipliers of capacities, 1 among them
  MaxLen             \* bound on the lists enumerated

VARIABLES args, result

vars == <<args, result>>

Ok(v) == [err |-> FALSE, val |-> v]
Error == [err |-> TRUE]
Pending == << >>

-----------------------------------------------------------------------------
(* Machine integers.                                                       *)
Wrapped(n) == ((n + Half64) % (2 * Half64)) - Half64
Unsigned(n) == n % (2 * Half64)

IntRange(half) == -half .. half - 1
UintRange(half) == 0 .. 2 * half - 1
Int64 == IntRange(Half64)

(* Go divides towards zero.                                                *)
Magnitude(a) == IF a < 0 THEN -a ELSE a
Quo(a, b) ==
  LET q == Magnitude(a) \div Magnitude(b) IN IF a < 0 <=> b < 0 THEN q ELSE -q

(* The values given: text, also as a json.Number, integers by type, floats *)
(* in halves, durations, and others that no parser takes.  Texts name      *)
(* numbers that do not fit, too.                                           *)
Texts ==
  [form : {"number"}, n : -2 * Half64 .. 2 * Half64 + 1] \cup [form : {"days"}, n : Int64]
  \cup [form : {"duration", "time"}, n : Int64]
  \cup [form : {"empty", "fraction", "garbage"}, n : {0}]

JsonNumbers == {text \in Texts : text.form \in {"number", "fraction"}}

Typed(kind, range) == [kind : {kind}, n : range]

Integral == Typed("int32", IntRange(Half32)) \cup Typed("int64", Int64)
            \cup Typed("uint32", UintRange(Half32)) \cup Typed("uint64", UintRange(Half64))

Scalar ==
  [kind : {"string"}, text : Texts] \cup [kind : {"json"}, text : JsonNumbers]
  \cup Integral \cup Typed("float", -2 * Half64 .. 2 * (Half64 - 1))
  \cup Typed("nil", {0}) \cup Typed("other", {0})

IsText(in) == in.kind \in {"string", "json"}
IsInt(in) == in.kind \in {"int32", "int64", "uint32", "uint64"}

(* strconv.ParseInt                                                        *)
ParsesAsInt(text) == text.form = "number" /\ text.n \in Int64

-----------------------------------------------------------------------------
ParseInt(in) ==
  IF IsInt(in) THEN Ok(Wrapped(in.n))
  ELSE IF ~ IsText(in) THEN Error
  ELSE IF in.text.form = "empty" THEN Ok(0)
  ELSE IF ParsesAsInt(in.text) THEN Ok(in.text.n) ELSE Error

(* A mutant: only the upper bound is looked at.                            *)
SafeParseIntRangeBelow(in, min, max) ==
  LET raw == ParseInt(in) IN IF raw.err \/ raw.val > max THEN Error ELSE raw

SafeParseIntRange(in, min, max) ==
  LET raw == ParseInt(in) IN IF raw.err \/ raw.val < min \/ raw.val > max THEN Error ELSE raw

SafeParseInt(in) == SafeParseIntRange(in, -Half64, Half64 - 1)

(* The product of a duration and a unit wraps around; dividing it again    *)
(* tells whether it did.                                                   *)
overflowMul(a, b) ==
  LET x == Wrapped(a * b) IN IF a # 0 /\ Quo(x, a) # b THEN Error ELSE Ok(x)

ParseDurationSecond(in) ==
  CASE in.kind = "nil" \/ (IsText(in) /\ in.text.form = "empty")      -> Ok(0)
    [] IsText(in) /\ ParsesAsInt(in.text)                             -> overflowMul(in.text.n, Second)
    [] IsText(in) /\ in.text.form = "days"                            -> overflowMul(in.text.n, Day)
    [] IsText(in) /\ in.text.form = "duration"                        -> Ok(in.text.n)
    [] IsInt(in)                                                      -> overflowMul(Wrapped(in.n), Second)
    [] in.kind = "float"                                              -> overflowMul(Quo(in.n, 2), Second)
    [] OTHER                                                          -> Error

(* Of a text, the number is the size and unit its multiplier.  Negative    *)
(* floats are left out: what uint64 makes of them is the machine's choice. *)
ParseCapacityString(in, unit) ==
  CASE in.kind = "nil" \/ (IsText(in) /\ in.text.form = "empty")            -> Ok(0)
    [] IsText(in) /\ in.text.form = "number" /\ in.text.n \in UintRange(Half64)  -> Ok(Unsigned(in.text.n * unit))
    [] IsInt(in)                                                            -> Ok(Unsigned(in.n))
    [] in.kind = "float" /\ in.n >= 0                                       -> Ok(in.n \div 2)
    [] OTHER                                                                -> Error

(* Seconds since the epoch; nil is the zero time.                          *)
ParseAbsoluteTime(in) ==
  CASE in.kind = "nil"                                      -> Ok("zero")
    [] in.kind = "string" /\ in.text.form = "time"          -> Ok(in.text.n)
    [] IsText(in) /\ ParsesAsInt(in.text)                   -> Ok(in.text.n)
    [] IsInt(in)                                            -> Ok(Wrapped(in.n))
    [] OTHER                                                -> Error

-----------------------------------------------------------------------------
(* Lists: [kind |-> "slice"] of values of one type, [kind |-> "list"] of   *)
(* interface values, [kind |-> "commas"] a string of several texts.        *)
Element == {v \in Scalar : v.kind \in {"string", "uint64", "float"}
                             /\ (IsText(v) => v.text.form # "time" /\ v.text.n \in {-1, 0, 2 * Half64})
                             /\ (~ IsText(v) => v.n \in {0, 3, 2 * Half64 - 1})}
Strings == {v \in Element : v.kind = "string"}
Several(kind, elements) ==
  [kind : {kind}, of : SeqOf(elements, MaxLen) \ {<< >>}]

Lists == Several("slice", {v \in Element : v.kind = "uint64"}) \cup Several("slice", Strings)
         \cup Several("list", Element)
         \cup {c \in Several("commas", Strings) : Len(c.of) > 1}

IsList(in) == in.kind \in {"slice", "list", "commas"}

(* One error fails the list.                                               *)
AllOrError(parsed) ==
  IF \E i \in DOMAIN parsed : parsed[i].err THEN Error
  ELSE Ok([i \in DOMAIN parsed |-> parsed[i].val])

Each(f(_), of) == [i \in DOMAIN of |-> f(of[i])]

ParseDirectIntSlice(in) == IF in.kind = "slice" THEN AllOrError(Each(ParseInt, in.of)) ELSE Error

(* mapstructure turns a number into its text, a float without a fraction   *)
(* into an integer's; a single value is a list of one.                     *)
AsText(v) ==
  IF IsText(v) THEN v
  ELSE IF v.kind # "float" THEN [kind |-> "string", text |-> [form |-> "number", n |-> v.n]]
  ELSE IF v.n % 2 = 0 THEN [kind |-> "string", text |-> [form |-> "number", n |-> v.n \div 2]]
  ELSE [kind |-> "string", text |-> [form |-> "fraction", n |-> 0]]

ParseCommaStringSlice(in) ==
  CASE in.kind = "nil"                                         -> Ok(<< >>)
    [] IsText(in) /\ in.text.form = "empty"                    -> Ok(<< >>)
    [] IsList(in)                                              -> Ok(Each(AsText, in.of))
    [] in.kind = "other"                                       -> Error
    [] OTHER                                                   -> Ok(<<AsText(in)>>)

NotEmpty == {v \in Scalar : IsText(v) /\ v.text.form # "empty"}

ParseIntSlice(in) ==
  LET one == IF IsList(in) THEN Error ELSE ParseInt(in)
      direct == ParseDirectIntSlice(in)
      texts == ParseCommaStringSlice(in)
  IN  IF ~ one.err THEN Ok(<<one.val>>)
      ELSE IF ~ direct.err THEN direct
      ELSE IF texts.err THEN Error
      ELSE AllOrError(Each(ParseInt, Only(texts.val, NotEmpty)))

SafeParseIntSliceRange(in, min, max, elements) ==
  LET raw == ParseIntSlice(in)
  IN  IF \/ raw.err
         \/ elements > 0 /\ Len(raw.val) > elements
         \/ \E i \in DOMAIN raw.val : raw.val[i] < min \/ raw.val[i] > max
      THEN Error ELSE raw

(* Addresses are "good" or not; a string is split by commas and may be     *)
(* empty, which as a list is fine.                                         *)
ParseAddrs(in) ==
  IF \/ in.kind = "other" \/ (in.kind = "commas" /\ in.of = << >>)
     \/ \E i \in DOMAIN in.of : in.of[i] # "good"
  THEN Error ELSE Ok(in.of)

-----------------------------------------------------------------------------
(* Paths: the scheme of the URL and what follows it.  A value is named     *)
(* for where it is from, with the spaces around it or without.             *)
From(what, spaces) == [from |-> what, spaces |-> spaces]

(* found: the file or the variable is there.  Untrimmed values keep their  *)
(* spaces with WithNoTrimSpaces.                                           *)
parsePath(scheme, spaces, found, mustParse, noTrimSpaces, errorOnMissingEnv) ==
  CASE scheme = "unparsable" -> [err |-> "not a url", val |-> From("path", spaces /\ noTrimSpaces)]
    [] scheme = "file" ->
         IF found THEN [err |-> "", val |-> From("contents", spaces /\ noTrimSpaces)]
         ELSE [err |-> "unreadable", val |-> From("path", FALSE)]
    [] scheme = "env" ->
         IF found THEN [err |-> "", val |-> From("variable", spaces /\ noTrimSpaces)]
         ELSE [err |-> IF errorOnMissingEnv THEN "unset" ELSE "", val |-> From("nothing", FALSE)]
    [] scheme = "string" -> [err |-> "", val |-> From("rest", FALSE)]
    [] scheme = "other" ->
         IF mustParse THEN [err |-> "not parsed", val |-> From("nothing", FALSE)]
         ELSE [err |-> "", val |-> From("path", spaces)]

-----------------------------------------------------------------------------
Bounds == {-1, 0, 2, Half64 - 1, -Half64}

Call(a) ==
  CASE a.fn = "range"    -> SafeParseIntRange(a.in, a.min, a.max)
    [] a.fn = "int"      -> SafeParseInt(a.in)
    [] a.fn = "duration" -> ParseDurationSecond(a.in)
    [] a.fn = "capacity" -> ParseCapacityString(a.in, a.unit)
    [] a.fn = "time"     -> ParseAbsoluteTime(a.in)
    [] a.fn = "slice"    -> SafeParseIntSliceRange(a.in, a.min, a.max, a.elements)
    [] a.fn = "addrs"    -> ParseAddrs(a.in)
    [] a.fn = "path"     -> parsePath(a.scheme, a.spaces, a.found, a.must, a.noTrim, a.errMissing)

Inputs ==
  [fn : {"int", "duration", "time"}, in : Scalar]
  \cup [fn : {"range"}, in : Scalar, min : Bounds, max : Bounds]
  \cup [fn : {"capacity"}, in : {v \in Scalar : v.kind # "float" \/ v.n >= 0}, unit : Unit]
  \cup [fn : {"slice"}, in : Lists \cup Scalar, min : {-1, 0}, max : {Half64 - 1}, elements : {0, 1}]
  \cup [fn : {"addrs"}, in : [kind : {"commas", "slice", "list", "other"},
                              of : SeqOf({"good", "bad"}, MaxLen)]]
  \cup [fn : {"path"}, scheme : {"unparsable", "file", "env", "string", "other"},
        spaces : BOOLEAN, found : BOOLEAN, must : BOOLEAN, noTrim : BOOLEAN, errMissing : BOOLEAN]

Init == args \in Inputs /\ result = Pending

Return == result = Pending /\ result' = <<Call(args)>> /\ UNCHANGED args

Next == Return

Spec == Init /\ [][Next]_vars

-----------------------------------------------------------------------------
returned == result[1]

Succeeded(fn) == args.fn = fn /\ result # Pending /\ ~ returned.err

(* The number that was given, whatever its type.                           *)
Given(in) ==
  IF IsText(in) THEN in.text.n ELSE IF in.kind = "float" THEN Quo(in.n, 2) ELSE in.n

TooLarge(in) == in.kind = "uint64" /\ in.n >= Half64

(* overflowMul: a duration is exactly what was given times its unit, or    *)
(* there is an error, at every width; a uint64 beyond int64 has wrapped    *)
(* before it gets there.                                                   *)
DurationsExact ==
  Succeeded("duration") /\ ~ TooLarge(args.in) =>
    returned.val = Given(args.in) *
      (IF ~ IsText(args.in) THEN Second
       ELSE CASE args.in.text.form = "days" -> Day
              [] args.in.text.form = "duration" -> 1
              [] OTHER -> Second)

(* SafeParseIntRange with min >= 0 gives the number it was given, also for *)
(* a uint64 that is too large: a wrapped one is negative.                  *)
NonNegativeExact ==
  Succeeded("range") /\ args.min >= 0 =>
    returned.val = Given(args.in) /\ args.min <= returned.val /\ returned.val <= args.max

(* A list comes out whole and in order, without what was empty, or not at  *)
(* all; so do addresses.                                                   *)
ListsWhole ==
  /\ Succeeded("slice") /\ IsList(args.in) /\ args.min >= 0 =>
       LET kept == IF args.in.kind = "slice" THEN args.in.of
                   ELSE Only(args.in.of, {v \in Element : IsText(v) => v.text.form # "empty"})
       IN  returned.val = Each(Given, kept)
  /\ Succeeded("addrs") => returned.val = args.in.of

(* What a URL names never comes back beside an error, and MustParsePath    *)
(* never takes a path for a value.                                         *)
PathsOrErrors ==
  args.fn = "path" /\ result # Pending =>
    /\ returned.err # "" => returned.val.from \in {"path", "nothing"}
    /\ returned.err = "" /\ args.must => returned.val.from # "path"

(* parseutil: what is returned without an error is what was given.  The    *)
(* four parts are above.                                                   *)
ExactOrRefused == DurationsExact /\ NonNegativeExact /\ ListsWhole /\ PathsOrErrors

(* parseutil.go:469: "If no error occurred, the caller knows no overflow   *)
(* occurred."                                                              *)
NoOverflowUnnoticed ==
  Succeeded("int") => returned.val = Given(args.in)
=============================================================================

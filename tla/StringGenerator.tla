--------------------------- MODULE StringGenerator ---------------------------
(***************************************************************************)
(* random: a StringGenerator draws strings from the characters of its      *)
(* rules until one passes them all, or the context ends.  It is parsed     *)
(* from a policy or made by the program, and shared by the callers of      *)
(* Generate; its charset is computed by the first of them.  base62 draws   *)
(* in the same way from a fixed charset and without rules.  A rune is a    *)
(* number, a charset the set of its runes, a byte a number below           *)
(* maxCharsetLen (256 in the code).                                        *)
(***************************************************************************)
EXTENDS Integers, Sequences, SequencesExt, FiniteSets, Folds, Lists

CONSTANTS
  Caller,
  maxCharsetLen,
  Charset,           \* the charsets that rules are made of
  NonPrintable,      \* runes that unicode.IsPrint refuses
  MaxMinChars,       \* bound on the min-chars of rules
  MaxLength,         \* bound on the length of strings
  Base62             \* the number of characters of base62

Byte == 0 .. maxCharsetLen - 1

(* Nothing refuses a negative min-chars; 0 asks for as little.             *)
MinChars == {-1} \cup 1..MaxMinChars

CharsetRule == [type : {"charset"}, chars : Charset, min : MinChars]

(* A rule of the program's own has neither Chars nor MinLength; this one   *)
(* asks for two different characters.                                      *)
OwnRule == [type |-> "own", chars |-> {}, min |-> 0]

(* A rule in HCL or JSON: its type and the blocks given for it, of which   *)
(* the first counts.                                                       *)
RawRule ==
  [type : {"charset"}, blocks : SeqOf(CharsetRule, 1), utf8 : {TRUE}]
  \cup {[type |-> "charset", blocks |-> <<r>>, utf8 |-> FALSE] : r \in CharsetRule}
  \cup {[type |-> "own", blocks |-> <<OwnRule>>, utf8 |-> TRUE]}

VARIABLES
  source,            \* a policy, the fields a program gave its generator, or base62
  generator,         \* Length, Rules and the computed charset, or an error
  call               \* Caller -> its call of Generate or of base62.Random

vars == <<source, generator, call>>

Error(what) == [kind |-> "error", what |-> what]
String(by, runes) == [kind |-> by, runes |-> runes]
NotMade == [kind |-> "not made"]
Idle == [pc |-> "idle", length |-> 0, runes |-> << >>, expired |-> FALSE, result |-> NotMade]

Init ==
  /\ source \in [how : {"policy"}, decodes : BOOLEAN, length : 0..MaxLength,
                 rules : SeqOf(RawRule, 2)]
                \cup [how : {"program"}, length : 0..MaxLength,
                      rules : SeqOf(CharsetRule \cup {OwnRule}, 2)]
                \cup [how : {"base62"}]
  /\ generator = NotMade
  /\ call = [c \in Caller |-> Idle]

-----------------------------------------------------------------------------
getMinLength(rules) == FoldSeq(LAMBDA rule, n : rule.min + n, 0, rules)

deduplicateRunes(chars) == SortedBy(chars, [r \in chars |-> r])

getChars(rules) == deduplicateRunes(UNION {rules[i].chars : i \in DOMAIN rules})

(* validateConfig, which keeps the charset it computes: the generator      *)
(* after it, and whether it is an error.                                   *)
WithCharset(g) == [g EXCEPT !.charset = IF @ = << >> THEN getChars(g.Rules) ELSE @]

Invalid(g) ==
  \/ g.Length <= 0 \/ g.Length < getMinLength(g.Rules)
  \/ WithCharset(g).charset = << >>
  \/ ToSet(WithCharset(g).charset) \cap NonPrintable # {}

(* getRuleInfo, the registry's lookup and ParseCharset.                    *)
RuleFails(raw) == raw.blocks = << >> \/ raw.type # "charset" \/ ~ raw.utf8

parseRules(raws) ==
  IF \E i \in DOMAIN raws : RuleFails(raws[i]) THEN Error("rules")
  ELSE [kind |-> "rules", rules |-> [i \in DOMAIN raws |-> raws[i].blocks[1]]]

(* MarshalJSON.                                                            *)
MarshalRules(rules) ==
  [i \in DOMAIN rules |-> [type |-> rules[i].type, blocks |-> <<rules[i]>>, utf8 |-> TRUE]]

Made(length, rules) == [kind |-> "generator", Length |-> length, Rules |-> rules, charset |-> << >>]

ParsePolicy(p) ==
  LET parsed == parseRules(p.rules)
      g == Made(p.length, parsed.rules)
  IN  IF ~ p.decodes \/ parsed.kind = "error" THEN Error("policy")
      ELSE IF Invalid(g) THEN Error("invalid") ELSE WithCharset(g)

Make ==
  /\ generator = NotMade /\ source.how # "base62"
  /\ generator' = IF source.how = "policy" THEN ParsePolicy(source)
                  ELSE Made(source.length, source.rules)
  /\ UNCHANGED <<source, call>>

-----------------------------------------------------------------------------
(* A mutant: all bytes are taken, the rest of the division too.            *)
AllBytesAllowed(len) == maxCharsetLen - 1

(* The largest multiple of the charset's length that bytes can be below:   *)
(* those from there on are left out.                                       *)
maxAllowedRNGValue(len) == (maxCharsetLen \div len) * len - 1

Index(b, len) == (b % len) + 1

(* Runes from random bytes, up to the length asked for.                    *)
Drawn(runes, data, charset, length) ==
  LET len == Len(charset)
      taken == Only(data, 0 .. maxAllowedRNGValue(len))
      more == runes \o [i \in DOMAIN taken |-> charset[Index(taken[i], len)]]
  IN  SubSeq(more, 1, IF Len(more) < length THEN Len(more) ELSE length)

Pass(rule, runes) ==
  IF rule.type = "own" THEN Cardinality(ToSet(runes)) > 1
  ELSE rule.min <= Cardinality({i \in DOMAIN runes : runes[i] \in rule.chars})

Finish(c, result) == call' = [call EXCEPT ![c].pc = "returned", ![c].result = result]

(* Generate validates, and computes the charset if nobody did yet.         *)
Generate(c) ==
  /\ call[c].pc = "idle" /\ generator.kind = "generator"
  /\ generator' = WithCharset(generator)
  /\ IF Invalid(generator) THEN Finish(c, Error("invalid"))
     ELSE call' = [call EXCEPT ![c].pc = "loop", ![c].length = generator.Length]
  /\ UNCHANGED source

(* Between two candidates: an ended context goes first.                    *)
Loop(c) ==
  /\ call[c].pc = "loop"
  /\ IF call[c].expired THEN Finish(c, Error("timed out"))
     ELSE IF Len(generator.charset) > maxCharsetLen THEN Finish(c, Error("charset too long"))
     ELSE call' = [call EXCEPT ![c].pc = "drawing", ![c].runes = << >>]
  /\ UNCHANGED <<source, generator>>

(* rng.Read gives some of the bytes asked for, half as many again as are   *)
(* needed; a full candidate is judged, and forgotten if a rule fails.      *)
Draw(c, data) ==
  LET runes == Drawn(call[c].runes, data, generator.charset, call[c].length)
      full == Len(runes) = call[c].length
      passes == \A i \in DOMAIN generator.Rules : Pass(generator.Rules[i], runes)
  IN  /\ call[c].pc = "drawing"
      /\ Len(data) <= (3 * call[c].length) \div 2
      /\ IF full /\ passes THEN Finish(c, String("rules", runes))
         ELSE call' = [call EXCEPT ![c].pc = IF full THEN "loop" ELSE @,
                                   ![c].runes = IF full THEN << >> ELSE runes]
      /\ UNCHANGED <<source, generator>>

(* base62.Random: nothing to do for no characters.                         *)
Base62Charset == [i \in 1..Base62 |-> i]

Random(c, length) ==
  /\ call[c].pc = "idle" /\ source.how = "base62"
  /\ IF length = 0 THEN Finish(c, String("base62", << >>))
     ELSE call' = [call EXCEPT ![c].pc = "base62", ![c].length = length]
  /\ UNCHANGED <<source, generator>>

(* A batch is read in full, a quarter more than is needed.                 *)
Batch(c, data) ==
  LET runes == Drawn(call[c].runes, data, Base62Charset, call[c].length)
  IN  /\ call[c].pc = "base62"
      /\ Len(data) = call[c].length + call[c].length \div 4
      /\ IF Len(runes) = call[c].length THEN Finish(c, String("base62", runes))
         ELSE call' = [call EXCEPT ![c].runes = runes]
      /\ UNCHANGED <<source, generator>>

(* The reader fails; the context ends.                                     *)
ReadError(c) ==
  /\ call[c].pc \in {"drawing", "base62"}
  /\ Finish(c, Error("reader"))
  /\ UNCHANGED <<source, generator>>

Expire(c) ==
  /\ call[c].pc \in {"loop", "drawing"} /\ ~ call[c].expired
  /\ call' = [call EXCEPT ![c].expired = TRUE]
  /\ UNCHANGED <<source, generator>>

Next ==
  \/ Make
  \/ \E c \in Caller :
       \/ Generate(c) \/ Loop(c) \/ ReadError(c) \/ Expire(c)
       \/ \E length \in 0..MaxLength : Random(c, length)
       \/ \E data \in SeqOf(Byte, (3 * MaxLength) \div 2) : Draw(c, data) \/ Batch(c, data)

Spec == Init /\ [][Next]_vars

-----------------------------------------------------------------------------
(* The bytes that a rune of a charset is drawn by.                         *)
BytesOf(rune, charset) ==
  {b \in Byte : Drawn(<< >>, <<b>>, charset, 1) = <<rune>>}

(* string_generator.go:160-175: no character of a charset is likelier than *)
(* another, and none can never be drawn.                                   *)
NoBias(charset) ==
  LET chances == {Cardinality(BytesOf(rune, charset)) : rune \in ToSet(charset)}
  IN  Len(charset) \in 1..maxCharsetLen => Cardinality(chances) = 1 /\ 0 \notin chances

(* What Generate returns has the length and the characters of the rules,   *)
(* passes each of them and can be printed, whichever caller computed the   *)
(* charset, and however often the context ended or the reader stopped      *)
(* half way; every character was as likely.  A generator that was parsed   *)
(* is a valid one, and its rules survive being written as JSON.            *)
GeneratedSound ==
  /\ source.how = "base62" => NoBias(Base62Charset)
  /\ generator.kind = "generator" =>
       /\ generator.charset \in {<< >>, getChars(generator.Rules)}
       /\ NoBias(generator.charset)
       /\ source.how = "policy" =>
            /\ ~ Invalid(generator) /\ generator.charset # << >>
            /\ parseRules(MarshalRules(generator.Rules)).rules = generator.Rules
  /\ \A c \in Caller :
       LET result == call[c].result
       IN  /\ result.kind = "rules" =>
                /\ Len(result.runes) = generator.Length
                /\ \A i \in DOMAIN generator.Rules : Pass(generator.Rules[i], result.runes)
                /\ ToSet(result.runes)
                     \subseteq (UNION {r.chars : r \in ToSet(generator.Rules)}) \ NonPrintable
           /\ result.kind = "base62" =>
                Len(result.runes) \in {0, call[c].length} /\ ToSet(result.runes) \subseteq 1..Base62
=============================================================================

--------------------------- MODULE DecisionProofs ----------------------------
(***************************************************************************)
(* Proofs about what the libraries decide from their arguments: the        *)
(* headers a response leaves with, for any statuses, header names and      *)
(* groups of them; the address a request is served under, for any hosts    *)
(* and lengths; the way a credential chain takes to AWS; what a map is     *)
(* built from, for any keys and numbers of arguments; and the numbers that *)
(* values are parsed to, for any widths of integers.                       *)
(***************************************************************************)
EXTENDS MCDecisions, ListLemmas

-----------------------------------------------------------------------------
(* MCDecisions: a behaviour about the headers is one of ResponseHeaders.   *)
LEMMA HeadersStep ==
  ASSUME subject = "headers", [MCNext]_allVars
  PROVE  subject' = "headers" /\ [Headers!Next]_(Headers!vars)
BY DEF MCNext, NextCall, allVars, headersVars, Headers!vars

LEMMA HeadersStart ==
  ASSUME subject = "headers", MCInit PROVE Headers!Init
BY DEF MCInit, InitCall

-----------------------------------------------------------------------------
(* ResponseHeaders: what is parsed.  A status number is that of one text.  *)
LEMMA OneText ==
  ASSUME NEW s \in Headers!Text, NEW t \in Headers!Text,
         Headers!ConvertStatusCode(s) # Headers!Invalid,
         Headers!ConvertStatusCode(s) = Headers!ConvertStatusCode(t)
  PROVE  s = t
<1> USE DecisionsAssumption DEF Headers!Text, Headers!ConvertStatusCode, Headers!Invalid
<1>1. CASE s.form = "default"
  BY <1>1
<1>2. CASE s.form = "hundreds"
  BY <1>2
<1>3. CASE s.form = "exact"
  BY <1>3
<1> QED BY <1>1, <1>2, <1>3

(* A configuration's groups are by text, and are functions of names.       *)
LEMMA RawTyped ==
  ASSUME raw \in Headers!Raw
  PROVE  /\ raw.kind \in {"absent", "malformed", "unparsed", "list"}
         /\ raw.kind = "list" =>
              /\ DOMAIN raw.groups \subseteq Headers!Text
              /\ \A text \in DOMAIN raw.groups :
                   /\ DOMAIN raw.groups[text] \subseteq Headers!Name
                   /\ \A n \in DOMAIN raw.groups[text] : raw.groups[text][n] \in BOOLEAN
<1>1. ASSUME NEW g, NEW texts, g \in [texts -> Headers!Group], texts \subseteq Headers!Text
      PROVE  /\ DOMAIN g \subseteq Headers!Text
             /\ \A text \in DOMAIN g :
                  /\ DOMAIN g[text] \subseteq Headers!Name
                  /\ \A n \in DOMAIN g[text] : g[text][n] \in BOOLEAN
  <2> SUFFICES ASSUME NEW text \in texts
               PROVE  /\ DOMAIN g[text] \subseteq Headers!Name
                      /\ \A n \in DOMAIN g[text] : g[text][n] \in BOOLEAN
    BY <1>1
  <2>1. g[text] \in Headers!Group
    BY <1>1
  <2>2. PICK names \in SUBSET Headers!Name : g[text] \in [names -> BOOLEAN]
    BY <2>1 DEF Headers!Group
  <2> QED BY <2>2
<1>2. CASE raw \in [kind : {"absent", "malformed", "unparsed"}]
  BY <1>2
<1>3. CASE raw \in [kind : {"list"},
                    groups : UNION {[texts -> Headers!Group] : texts \in SUBSET Headers!ValidText}]
  <2>1. PICK texts \in SUBSET Headers!ValidText : raw.groups \in [texts -> Headers!Group]
    BY <1>3
  <2>2. texts \subseteq Headers!Text
    BY DEF Headers!ValidText
  <2> QED BY <1>1, <1>3, <2>1, <2>2
<1>4. CASE raw \in [kind : {"list"},
                    groups : UNION {[{text} -> Headers!Group] : text \in Headers!Text}]
  <2>1. PICK text \in Headers!Text : raw.groups \in [{text} -> Headers!Group]
    BY <1>4
  <2> QED BY <1>1, <1>4, <2>1
<1> QED BY <1>2, <1>3, <1>4 DEF Headers!Raw

(* What the parser leaves for a ResponseWriter to work with.               *)
ParsedWell ==
  /\ raw.kind = "unparsed" => headers = Headers!Nil
  /\ raw.kind = "absent" =>
       headers = [s \in {0} |-> [n \in Standard |-> Headers!DefaultValue(n, option)]]
  /\ raw.kind = "list" =>
       /\ headers = [Headers!Parsed(raw.groups) EXCEPT ![0] = Headers!WithDefaults(@)]
       /\ \A text \in DOMAIN raw.groups : Headers!ConvertStatusCode(text) # Headers!Invalid
       /\ \E text \in DOMAIN raw.groups : text.form = "default"
  /\ raw.kind # "malformed"

(* The header map of a text's status: what its group says.                 *)
LEMMA ParsedText ==
  ASSUME raw \in Headers!Raw, raw.kind = "list", ParsedWell, NEW text \in DOMAIN raw.groups
  PROVE  LET status == Headers!ConvertStatusCode(text)
             group == raw.groups[text]
             said == [n \in DOMAIN group |-> IF group[n] THEN Headers!Custom(status) ELSE Headers!None]
         IN  /\ status \in DOMAIN headers
             /\ headers[status] = IF status = 0 THEN Headers!WithDefaults(said) ELSE said
<1> DEFINE status == Headers!ConvertStatusCode(text)
           groups == raw.groups
           chosen == CHOOSE t \in DOMAIN groups : Headers!ConvertStatusCode(t) = status
<1>1. DOMAIN groups \subseteq Headers!Text
  BY RawTyped
<1>2. chosen = text
  <2>1. \A t \in DOMAIN groups : Headers!ConvertStatusCode(t) = status => t = text
    BY <1>1, OneText DEF ParsedWell
  <2> QED BY <2>1
<1>3. status \in {Headers!ConvertStatusCode(t) : t \in DOMAIN groups}
  OBVIOUS
<1> DEFINE said == [n \in DOMAIN groups[text] |->
                      IF groups[text][n] THEN Headers!Custom(status) ELSE Headers!None]
<1>4. status \in DOMAIN Headers!Parsed(groups) /\ Headers!Parsed(groups)[status] = said
  BY <1>2, <1>3 DEF Headers!Parsed
<1>5. headers = [Headers!Parsed(groups) EXCEPT ![0] = Headers!WithDefaults(@)]
  BY DEF ParsedWell
<1> HIDE DEF said, status
<1>6. /\ status \in DOMAIN headers
      /\ headers[status] = IF status = 0 THEN Headers!WithDefaults(said) ELSE said
  BY <1>4, <1>5
<1> QED BY <1>6 DEF said, status

(* No other status has a header map.                                       *)
LEMMA ParsedOnly ==
  ASSUME raw.kind = "list", ParsedWell, NEW status \in DOMAIN headers
  PROVE  \E text \in DOMAIN raw.groups : Headers!ConvertStatusCode(text) = status
BY DEF ParsedWell, Headers!Parsed

-----------------------------------------------------------------------------
(* What a response is given: the most specific group that names a header.  *)
Has(status, n) == status \in DOMAIN headers /\ n \in DOMAIN headers[status]

LEMMA SetterOf ==
  ASSUME NEW h, NEW status, NEW n \in Headers!Name
  PROVE  Headers!Setter(h, status)[n] = IF Has(status, n) THEN headers[status][n] ELSE h[n]
BY DEF Headers!Setter, Has

(* A text is a status, its hundreds, or the default, as its number says.   *)
InHundreds(status, n) == status \in 100 * n .. 100 * n + 99
HundredsOf(status) == status \div 100

LEMMA HundredsAsRange ==
  ASSUME NEW status \in 100..599
  PROVE  /\ HundredsOf(status) \in 1..5
         /\ \A n \in 1..5 : HundredsOf(status) = n <=> InHundreds(status, n)
BY DEF HundredsOf, InHundreds

NumberSays(text, status) ==
  /\ Headers!ConvertStatusCode(text) = status <=> text.form = "exact" /\ text.n = status
  /\ Headers!ConvertStatusCode(text) = HundredsOf(status) <=>
       text.form = "hundreds" /\ InHundreds(status, text.n)
  /\ Headers!ConvertStatusCode(text) = 0 <=> text.form = "default"
  /\ text.form # "default" => Headers!ConvertStatusCode(text) = text.n

LEMMA NumbersOfText ==
  ASSUME NEW status \in 100..599, NEW text \in Headers!Text,
         Headers!ConvertStatusCode(text) # Headers!Invalid
  PROVE  NumberSays(text, status)
<1> USE DecisionsAssumption
    DEF Headers!Text, Headers!ConvertStatusCode, Headers!Invalid, NumberSays
<1>five. HundredsOf(status) \in 1..5
  BY HundredsAsRange
<1>1. CASE text.form = "default"
  BY <1>1, <1>five
<1>2. CASE text.form = "hundreds"
  <2>1. text.n \in 1..5
    BY <1>2
  <2>2. HundredsOf(status) = text.n <=> InHundreds(status, text.n)
    BY <2>1, HundredsAsRange
  <2> QED BY <1>2, <2>1, <2>2
<1>3. CASE text.form = "exact"
  BY <1>3, <1>five
<1> QED BY <1>1, <1>2, <1>3

(* Listed groups: one that is not the default one gives its word or        *)
(* nothing, the default one leaves a standard header alone or adds it.     *)
LEMMA ListedHeaders ==
  ASSUME raw \in Headers!Raw, raw.kind = "list", ParsedWell,
         NEW status \in 100..599, NEW n \in Headers!Name
  PROVE  Headers!setCustomResponseHeaders(own, status)[n] = Headers!Expected(n, status)
<1> DEFINE groups == raw.groups
           texts == Headers!Naming(n, status)
           Word(text) == IF groups[text][n] THEN Headers!Custom(text.n) ELSE Headers!None
<1>1. /\ DOMAIN groups \subseteq Headers!Text
      /\ \A text \in DOMAIN groups : Headers!ConvertStatusCode(text) # Headers!Invalid
  BY RawTyped DEF ParsedWell
<1>numbers. \A text \in DOMAIN groups : NumberSays(text, status)
  BY <1>1, NumbersOfText
<1>2. PICK default \in DOMAIN groups : default.form = "default"
  BY DEF ParsedWell
<1>3. headers # Headers!Nil
  <2>1. 0 \in DOMAIN headers
    BY <1>1, <1>2, ParsedText, <1>numbers DEF NumberSays
  <2> QED BY <2>1 DEF Headers!Nil
<1>4. Headers!setCustomResponseHeaders(own, status)[n]
        = IF Has(status, n) THEN headers[status][n]
          ELSE IF Has(HundredsOf(status), n) THEN headers[HundredsOf(status)][n]
          ELSE IF Has(0, n) THEN headers[0][n] ELSE own[n]
  BY <1>3, SetterOf DEF Headers!setCustomResponseHeaders, HundredsOf
<1>5. ASSUME NEW text \in DOMAIN groups, text.form # "default", n \in DOMAIN groups[text],
             NEW s, s = Headers!ConvertStatusCode(text)
      PROVE  Has(s, n) /\ headers[s][n] = Word(text)
  <2>1. s # 0 /\ s = text.n
    BY <1>5, <1>numbers DEF NumberSays
  <2>2. /\ s \in DOMAIN headers
        /\ headers[s] = [k \in DOMAIN groups[text] |->
                           IF groups[text][k] THEN Headers!Custom(s) ELSE Headers!None]
    BY <1>5, <2>1, ParsedText
  <2> QED BY <1>5, <2>1, <2>2 DEF Has
<1>6. ASSUME NEW s \in {status, HundredsOf(status)}, Has(s, n)
      PROVE  \E text \in DOMAIN groups :
               n \in DOMAIN groups[text] /\ Headers!ConvertStatusCode(text) = s
  <2>1. PICK text \in DOMAIN groups : Headers!ConvertStatusCode(text) = s
    BY <1>6, ParsedOnly DEF Has
  <2>2. s # 0
    BY <1>1, <2>1, <1>numbers DEF NumberSays
  <2>3. n \in DOMAIN groups[text]
    BY <1>6, <2>1, <2>2, ParsedText DEF Has
  <2> QED BY <2>1, <2>3
<1>7. \A text \in texts : text \in DOMAIN groups /\ n \in DOMAIN groups[text]
  BY DEF Headers!Naming, InHundreds
<1>8. status \in 100..599 /\ raw.kind # "unparsed"
  OBVIOUS
<1>9. CASE \E text \in texts : text.form = "exact"
  <2>1. PICK e \in texts : e.form = "exact"
    BY <1>9
  <2>2. e.n = status /\ e \in DOMAIN groups /\ n \in DOMAIN groups[e]
    BY <2>1 DEF Headers!Naming, InHundreds
  <2>3. Headers!ConvertStatusCode(e) = status
    BY <1>1, <2>1, <2>2, <1>numbers DEF NumberSays
  <2>4. \A t \in texts : t.form = "exact" => t = e
    <3> SUFFICES ASSUME NEW t \in texts, t.form = "exact" PROVE t = e
      OBVIOUS
    <3>1. t \in DOMAIN groups /\ t.n = status
      BY DEF Headers!Naming, InHundreds
    <3>2. Headers!ConvertStatusCode(t) = status
      BY <1>1, <3>1, <1>numbers DEF NumberSays
    <3> QED BY <1>1, <2>2, <2>3, <3>1, <3>2, OneText
  <2>5. Headers!Deciding(texts) = e
    <3>1. {t \in texts : t.form = "exact"} = {e}
      BY <2>1, <2>4
    <3> QED BY <3>1 DEF Headers!Deciding
  <2>6. Headers!Expected(n, status) = Word(e)
    BY <1>8, <2>1, <2>5 DEF Headers!Expected
  <2>7. Has(status, n) /\ headers[status][n] = Word(e)
    BY <1>5, <2>1, <2>2, <2>3
  <2> QED BY <1>4, <2>6, <2>7
<1>10. CASE (\A text \in texts : text.form # "exact") /\ \E text \in texts : text.form = "hundreds"
  <2>1. PICK e \in texts : e.form = "hundreds"
    BY <1>10
  <2>2. /\ InHundreds(status, e.n) /\ e \in DOMAIN groups
        /\ n \in DOMAIN groups[e]
    BY <2>1 DEF Headers!Naming, InHundreds
  <2>3. Headers!ConvertStatusCode(e) = HundredsOf(status)
    BY <1>1, <2>1, <2>2, <1>numbers DEF NumberSays
  <2>4. \A t \in texts : t.form = "hundreds" => t = e
    <3> SUFFICES ASSUME NEW t \in texts, t.form = "hundreds" PROVE t = e
      OBVIOUS
    <3>1. t \in DOMAIN groups /\ InHundreds(status, t.n)
      BY DEF Headers!Naming, InHundreds
    <3>2. Headers!ConvertStatusCode(t) = HundredsOf(status)
      BY <1>1, <3>1, <1>numbers DEF NumberSays
    <3> QED BY <1>1, <2>2, <2>3, <3>1, <3>2, OneText
  <2>5. Headers!Deciding(texts) = e
    <3>1. {t \in texts : t.form = "exact"} = {} /\ {t \in texts : t.form = "hundreds"} = {e}
      BY <1>10, <2>1, <2>4
    <3> QED BY <3>1 DEF Headers!Deciding
  <2>6. Headers!Expected(n, status) = Word(e)
    BY <1>8, <2>1, <2>5 DEF Headers!Expected
  <2>7. Has(HundredsOf(status), n) /\ headers[HundredsOf(status)][n] = Word(e)
    BY <1>5, <2>1, <2>2, <2>3
  <2>8. ~ Has(status, n)
    <3> SUFFICES ASSUME Has(status, n) PROVE FALSE
      OBVIOUS
    <3>1. PICK text \in DOMAIN groups :
            n \in DOMAIN groups[text] /\ Headers!ConvertStatusCode(text) = status
      BY <1>6
    <3>2. text.form = "exact" /\ text.n = status
      BY <1>1, <3>1, <1>numbers DEF NumberSays
    <3>3. text \in texts
      BY <3>1, <3>2 DEF Headers!Naming, InHundreds
    <3> QED BY <1>10, <3>2, <3>3
  <2> QED BY <1>4, <2>6, <2>7, <2>8
<1>11. CASE \A text \in texts : text.form \notin {"exact", "hundreds"}
  <2>1. ~ Has(status, n) /\ ~ Has(HundredsOf(status), n)
    <3> SUFFICES ASSUME NEW s \in {status, HundredsOf(status)}, Has(s, n) PROVE FALSE
      OBVIOUS
    <3>1. PICK text \in DOMAIN groups :
            n \in DOMAIN groups[text] /\ Headers!ConvertStatusCode(text) = s
      BY <1>6
    <3>2. \/ text.form = "exact" /\ text.n = status
          \/ text.form = "hundreds" /\ InHundreds(status, text.n)
      BY <1>1, <3>1, <1>numbers DEF NumberSays
    <3>3. text \in texts
      BY <3>1, <3>2 DEF Headers!Naming, InHundreds
    <3> QED BY <1>11, <3>2, <3>3
  <2> DEFINE said == [m \in DOMAIN groups[default] |->
                        IF groups[default][m] THEN Headers!Custom(0) ELSE Headers!None]
  <2>2. 0 \in DOMAIN headers /\ headers[0] = Headers!WithDefaults(said)
    <3>1. Headers!ConvertStatusCode(default) = 0
      BY <1>1, <1>2, <1>numbers DEF NumberSays
    <3> QED BY <3>1, ParsedText
  <2>3. \A t \in texts : t = default
    <3> SUFFICES ASSUME NEW t \in texts PROVE t = default
      OBVIOUS
    <3>1. t \in DOMAIN groups /\ t.form = "default"
      BY <1>1, <1>11 DEF Headers!Naming, Headers!Text
    <3> QED BY <1>1, <1>2, <3>1 DEF Headers!Text
  <2>4. default.n = 0
    BY <1>1, <1>2 DEF Headers!Text
  <2>5. CASE n \in DOMAIN groups[default]
    <3>1. texts = {default}
      BY <1>2, <2>3, <2>5 DEF Headers!Naming, InHundreds
    <3>2. Headers!Deciding(texts) = default
      BY <1>2, <3>1 DEF Headers!Deciding
    <3>3. Headers!Expected(n, status)
            = IF groups[default][n] THEN Headers!Custom(0)
              ELSE IF n \in Standard THEN own[n] ELSE Headers!None
      BY <1>2, <1>8, <2>4, <3>1, <3>2 DEF Headers!Expected
    <3>4. said[n] = IF groups[default][n] THEN Headers!Custom(0) ELSE Headers!None
      BY <2>5
    <3>5. groups[default][n] => Headers!Custom(0) # Headers!None
      BY DEF Headers!Custom, Headers!None
    <3>6. n \in DOMAIN Headers!WithDefaults(said) <=> ~ (n \in Standard /\ said[n] = Headers!None)
      BY <2>5 DEF Headers!WithDefaults
    <3>7. n \in DOMAIN Headers!WithDefaults(said) => Headers!WithDefaults(said)[n] = said[n]
      BY <2>5 DEF Headers!WithDefaults
    <3> HIDE DEF said
    <3> QED BY <1>4, <2>1, <2>2, <3>3, <3>4, <3>5, <3>6, <3>7 DEF Has
  <2>6. CASE n \notin DOMAIN groups[default]
    <3>1. texts = {}
      BY <2>3, <2>6, <1>7
    <3>2. Headers!Expected(n, status)
            = IF n \in Standard THEN Headers!DefaultValue(n, FALSE) ELSE own[n]
      BY <1>8, <3>1 DEF Headers!Expected, Headers!DefaultValue, Headers!OptionHeeded
    <3>3. /\ n \in DOMAIN Headers!WithDefaults(said) <=> n \in Standard
          /\ n \in Standard => Headers!WithDefaults(said)[n] = Headers!DefaultValue(n, FALSE)
      BY <2>6 DEF Headers!WithDefaults
    <3> HIDE DEF said
    <3> QED BY <1>4, <2>1, <2>2, <3>2, <3>3 DEF Has
  <2> QED BY <2>5, <2>6
<1> QED BY <1>9, <1>10, <1>11

(* Without a configuration there are the standard headers.                 *)
LEMMA StandardHeaders ==
  ASSUME raw.kind = "absent", ParsedWell, NEW status \in 100..599, NEW n \in Headers!Name
  PROVE  Headers!setCustomResponseHeaders(own, status)[n] = Headers!Expected(n, status)
<1>1. DOMAIN headers = {0} /\ headers[0] = [m \in Standard |-> Headers!DefaultValue(m, option)]
  BY DEF ParsedWell
<1>2. headers # Headers!Nil
  <2>1. 0 \in DOMAIN headers
    BY <1>1
  <2> QED BY <2>1 DEF Headers!Nil
<1>3. HundredsOf(status) # 0 /\ status # 0
  <2>1. HundredsOf(status) \in 1..5
    BY HundredsAsRange
  <2>2. status # 0
    OBVIOUS
  <2> QED BY <2>1, <2>2
<1>4. Headers!setCustomResponseHeaders(own, status)[n] = Headers!Setter(own, 0)[n]
  BY <1>1, <1>2, <1>3 DEF Headers!setCustomResponseHeaders, Headers!Setter, HundredsOf
<1>5. Headers!Expected(n, status)
        = IF n \in Standard THEN Headers!DefaultValue(n, option) ELSE own[n]
  BY DEF Headers!Expected, Headers!Naming, Headers!OptionHeeded, Headers!DefaultValue
<1>6. Has(0, n) <=> n \in Standard
  BY <1>1 DEF Has
<1> QED BY <1>1, <1>4, <1>5, <1>6, SetterOf

(* And the other configurations.                                           *)
LEMMA ResponseGets ==
  ASSUME raw \in Headers!Raw, ParsedWell,
         NEW status \in Int, NEW n \in Headers!Name
  PROVE  Headers!setCustomResponseHeaders(own, status)[n] = Headers!Expected(n, status)
<1>1. CASE status \notin 100..599
  BY <1>1 DEF Headers!setCustomResponseHeaders, Headers!Expected
<1>2. CASE status \in 100..599 /\ raw.kind = "unparsed"
  BY <1>2 DEF ParsedWell, Headers!setCustomResponseHeaders, Headers!Expected
<1>3. CASE status \in 100..599 /\ raw.kind = "absent"
  BY <1>3, StandardHeaders
<1>4. CASE status \in 100..599 /\ raw.kind = "list"
  BY <1>4, ListedHeaders
<1> QED BY <1>1, <1>2, <1>3, <1>4, RawTyped DEF ParsedWell

-----------------------------------------------------------------------------
(* Until a final status goes out, or an informational one before it, the   *)
(* wrapped headers are the handler's own, and nothing was written.         *)
Untouched ==
  Headers!NotSent = sent /\ ~ informed => header = own /\ ~ headerWritten

ResponseInv ==
  /\ raw \in Headers!Raw
  /\ pc \in {"serving", "done"} => ParsedWell
  /\ pc \notin {"serving", "done"} => sent = Headers!NotSent /\ ~ informed
  /\ Untouched
  /\ Headers!HeadersAsConfigured

LEMMA ResponseInit == Headers!Init => ResponseInv
<1> SUFFICES ASSUME Headers!Init PROVE ResponseInv
  OBVIOUS
<1> USE DEF Headers!Init
<1>1. pc \notin {"serving", "done"} /\ sent = Headers!NotSent /\ ~ informed
  OBVIOUS
<1>2. Untouched
  BY DEF Untouched
<1>3. Headers!HeadersAsConfigured
  BY <1>1 DEF Headers!HeadersAsConfigured
<1> QED BY <1>1, <1>2, <1>3 DEF ResponseInv

(* The parser is done, and the groups are in place.                        *)
LEMMA ParsePreserves ==
  ASSUME ResponseInv, Headers!parseCustomResponseHeaders
  PROVE  ResponseInv'
<1> USE DEF ResponseInv, Headers!parseCustomResponseHeaders
<1>1. /\ UNCHANGED <<raw, ui, option, header, headerWritten, sent, own, informed>>
      /\ pc = "parse" /\ sent = Headers!NotSent
  OBVIOUS
<1>2. pc' \in {"serving", "done"} => ParsedWell'
  <2> SUFFICES ASSUME pc' \in {"serving", "done"} PROVE ParsedWell'
    OBVIOUS
  <2>1. ~ Headers!ParseFails /\ ~ Headers!ParsePanics
    OBVIOUS
  <2>2. raw.kind \in {"absent", "malformed", "unparsed", "list"}
    BY RawTyped
  <2>3. CASE raw.kind = "list"
    <3>1. headers' = [Headers!Parsed(raw.groups) EXCEPT ![0] = Headers!WithDefaults(@)]
      BY <2>1, <2>3
    <3> DEFINE parsed == Headers!Parsed(raw.groups)
               added == Headers!WithDefaults(parsed[0])
    <3>2. parsed' = parsed
      BY <1>1 DEF Headers!Parsed
    <3>3. added' = added
      BY <1>1, <3>2 DEF Headers!WithDefaults, Headers!DefaultValue
    <3>4. headers' = [parsed' EXCEPT ![0] = added']
      BY <3>1, <3>2, <3>3
    <3>5. /\ \A text \in DOMAIN raw.groups : Headers!ConvertStatusCode(text) # Headers!Invalid
          /\ \E text \in DOMAIN raw.groups : text.form = "default"
      BY <2>1, <2>3 DEF Headers!ParseFails, Headers!ParsePanics
    <3>6. raw' = raw
      BY <1>1
    <3> QED BY <2>3, <3>4, <3>5, <3>6 DEF ParsedWell
  <2>4. CASE raw.kind = "unparsed"
    BY <1>1, <2>1, <2>4 DEF ParsedWell, Headers!ParseFails
  <2>5. CASE raw.kind = "absent"
    BY <1>1, <2>1, <2>5 DEF ParsedWell, Headers!ParseFails, Headers!DefaultValue
  <2> QED BY <2>1, <2>2, <2>3, <2>4, <2>5 DEF Headers!ParseFails
<1>3. Untouched' /\ Headers!HeadersAsConfigured'
  BY <1>1 DEF Untouched, Headers!HeadersAsConfigured
<1> QED BY <1>1, <1>2, <1>3

LEMMA SentIsSent ==
  ASSUME NEW status, NEW h
  PROVE  /\ [status |-> status, header |-> h] # Headers!NotSent
         /\ [status |-> status, header |-> h].status = status
         /\ [status |-> status, header |-> h].header = h
<1>1. /\ "header" \in DOMAIN [status |-> status, header |-> h]
      /\ "header" \notin DOMAIN Headers!NotSent
  BY DEF Headers!NotSent
<1> QED BY <1>1

(* Nothing that the expected headers depend on changes.                    *)
LEMMA StillExpected ==
  ASSUME NEW status, NEW n, UNCHANGED <<raw, ui, option, own>>
  PROVE  Headers!Expected(n, status)' = Headers!Expected(n, status)
<1>1. Headers!Naming(n, status)' = Headers!Naming(n, status)
  BY DEF Headers!Naming
<1>2. Headers!Deciding(Headers!Naming(n, status))' = Headers!Deciding(Headers!Naming(n, status))
  BY <1>1 DEF Headers!Deciding
<1>3. Headers!DefaultValue(n, Headers!OptionHeeded)' = Headers!DefaultValue(n, Headers!OptionHeeded)
  BY DEF Headers!DefaultValue, Headers!OptionHeeded
<1> QED BY <1>1, <1>2, <1>3 DEF Headers!Expected

LEMMA StillParsed ==
  ASSUME ParsedWell, UNCHANGED <<raw, ui, option, headers>> PROVE ParsedWell'
<1> DEFINE parsed == Headers!Parsed(raw.groups)
           added == Headers!WithDefaults(parsed[0])
           standard == [s \in {0} |-> [n \in Standard |-> Headers!DefaultValue(n, option)]]
<1>1. parsed' = parsed
  BY DEF Headers!Parsed
<1>2. added' = added
  BY <1>1 DEF Headers!WithDefaults, Headers!DefaultValue
<1>3. standard' = standard
  BY DEF Headers!DefaultValue
<1> QED BY <1>1, <1>2, <1>3 DEF ParsedWell

(* What went out stays, and the first final status goes out as expected.   *)
LEMMA WrittenPreserves ==
  ASSUME ResponseInv, pc \in {"serving", "done"}, pc' \in {"serving", "done"},
         NEW status \in Int, Headers!Written(status)
  PROVE  ResponseInv'
<1>1. /\ UNCHANGED <<raw, ui, option, headers, own>> /\ headerWritten' = TRUE
      /\ header' = Headers!setCustomResponseHeaders(header, status)
      /\ sent' = Headers!Send(status, header')
      /\ informed' = (informed \/ (sent = Headers!NotSent /\ Headers!Informational(status)))
  BY DEF Headers!Written
<1>2. raw' \in Headers!Raw /\ ParsedWell'
  BY <1>1, StillParsed DEF ResponseInv
<1>3. Untouched' /\ Headers!HeadersAsConfigured'
  <2>1. CASE sent # Headers!NotSent
    <3>1. sent' = sent /\ (informed' <=> informed) /\ sent' # Headers!NotSent
      BY <1>1, <2>1 DEF Headers!Send, Headers!NotSent
    <3>2. Headers!HeadersAsConfigured'
      BY <1>1, <3>1, StillExpected DEF ResponseInv, Headers!HeadersAsConfigured, Headers!NotSent
    <3> QED BY <3>1, <3>2 DEF Untouched, Headers!NotSent
  <2>2. CASE sent = Headers!NotSent /\ Headers!Informational(status)
    <3>1. sent' = Headers!NotSent /\ informed'
      BY <1>1, <2>2 DEF Headers!Send
    <3> QED BY <3>1 DEF Untouched, Headers!HeadersAsConfigured, Headers!NotSent
  <2>3. CASE sent = Headers!NotSent /\ ~ Headers!Informational(status)
    <3>1. sent' = [status |-> status, header |-> header'] /\ (informed' <=> informed)
      BY <1>1, <2>3 DEF Headers!Send
    <3>2. sent' # Headers!NotSent /\ sent'.status = status /\ sent'.header = header'
      BY <3>1, SentIsSent
    <3>3. ~ informed => header = own
      BY <2>3 DEF ResponseInv, Untouched
    <3>4. ASSUME ~ informed, NEW n \in Headers!Name
          PROVE  header'[n] = Headers!Expected(n, status)
      BY <1>1, <3>3, <3>4, ResponseGets DEF ResponseInv
    <3>5. Headers!HeadersAsConfigured'
      BY <1>1, <3>1, <3>2, <3>4, StillExpected DEF Headers!HeadersAsConfigured, Headers!NotSent
    <3> QED BY <3>2, <3>5 DEF Untouched, Headers!NotSent
  <2> QED BY <2>1, <2>2, <2>3
<1> QED BY <1>2, <1>3 DEF ResponseInv

(* Data after a status: a final one with the headers as they are is sent   *)
(* if nothing but informational ones went out, which is excluded.          *)
LEMMA ImplicitPreserves ==
  ASSUME ResponseInv, pc \in {"serving", "done"}, pc' \in {"serving", "done"},
         Headers!WriteImplicitly
  PROVE  ResponseInv'
<1>1. CASE ~ headerWritten
  <2>1. Headers!Written(200)
    BY <1>1 DEF Headers!WriteImplicitly
  <2> QED BY <2>1, WrittenPreserves
<1>2. CASE headerWritten
  <2>1. /\ UNCHANGED <<raw, ui, option, headers, header, headerWritten, own, informed>>
        /\ sent' = Headers!Send(200, header)
    BY <1>2 DEF Headers!WriteImplicitly
  <2>2. raw' \in Headers!Raw /\ ParsedWell'
    BY <2>1, StillParsed DEF ResponseInv
  <2>3. CASE informed
    BY <2>1, <2>2, <2>3 DEF ResponseInv, Untouched, Headers!HeadersAsConfigured
  <2>4. CASE ~ informed
    <3>1. sent # Headers!NotSent /\ sent' = sent
      BY <1>2, <2>1, <2>4 DEF ResponseInv, Untouched, Headers!Send
    <3>2. Headers!HeadersAsConfigured'
      BY <2>1, <3>1, StillExpected DEF ResponseInv, Headers!HeadersAsConfigured, Headers!NotSent
    <3> QED BY <2>1, <2>2, <3>1, <3>2 DEF ResponseInv, Untouched, Headers!NotSent
  <2> QED BY <2>3, <2>4
<1> QED BY <1>1, <1>2

(* Every step keeps the promise: parsing, a header of the handler's own, a *)
(* status or data, and the handler's return.                               *)
LEMMA ResponsePreserved ==
  ASSUME ResponseInv, [Headers!Next]_(Headers!vars) PROVE ResponseInv'
<1>1. CASE Headers!parseCustomResponseHeaders
  BY <1>1, ParsePreserves
<1>2. ASSUME NEW n \in Headers!Name, Headers!SetOwn(n) PROVE ResponseInv'
  <2>1. /\ UNCHANGED <<raw, ui, option, pc, headers, headerWritten, sent, informed>>
        /\ pc = "serving" /\ sent = Headers!NotSent
        /\ own' = [own EXCEPT ![n] = Headers!Handlers]
        /\ header' = [header EXCEPT ![n] = Headers!Handlers]
    BY <1>2 DEF Headers!SetOwn
  <2>2. Untouched'
    BY <2>1 DEF ResponseInv, Untouched, Headers!NotSent
  <2>3. Headers!HeadersAsConfigured'
    BY <2>1 DEF Headers!HeadersAsConfigured, Headers!NotSent
  <2>4. raw' \in Headers!Raw /\ ParsedWell'
    BY <2>1, StillParsed DEF ResponseInv
  <2> QED BY <2>1, <2>2, <2>3, <2>4 DEF ResponseInv
<1>3. ASSUME NEW status \in Status, Headers!WriteHeader(status) PROVE ResponseInv'
  BY <1>3, DecisionsAssumption, WrittenPreserves DEF Headers!WriteHeader
<1>4. CASE Headers!Write \/ Headers!Return
  BY <1>4, ImplicitPreserves DEF Headers!Write, Headers!Return
<1>5. CASE UNCHANGED Headers!vars
  <2>1. UNCHANGED <<raw, ui, option, pc, headers, header, headerWritten, sent, own, informed>>
    BY <1>5 DEF Headers!vars
  <2>2. Headers!HeadersAsConfigured'
    BY <2>1, StillExpected DEF ResponseInv, Headers!HeadersAsConfigured, Headers!NotSent
  <2>3. pc' \in {"serving", "done"} => ParsedWell'
    BY <2>1, StillParsed DEF ResponseInv
  <2> QED BY <2>1, <2>2, <2>3 DEF ResponseInv, Untouched, Headers!NotSent
<1> QED BY <1>1, <1>2, <1>3, <1>4, <1>5 DEF Headers!Next

(* A response leaves with the headers its status is configured to have,    *)
(* and with the standard ones that no group names (the option's value of   *)
(* one only without a configuration).                                      *)
THEOREM ConfiguredHeaders == MCSpec => []HeadersAsConfigured
<1> DEFINE Inv == subject = "headers" => ResponseInv
<1>1. MCInit => Inv
  BY HeadersStart, ResponseInit
<1>2. Inv /\ [MCNext]_allVars => Inv'
  <2> SUFFICES ASSUME Inv, [MCNext]_allVars, subject' = "headers" PROVE ResponseInv'
    OBVIOUS
  <2>1. subject = "headers"
    BY DEF MCNext, NextCall, allVars
  <2> QED BY <2>1, HeadersStep, ResponsePreserved
<1>3. Inv => HeadersAsConfigured
  BY DEF ResponseInv, HeadersAsConfigured
<1> QED BY <1>1, <1>2, <1>3, PTL DEF MCSpec

-----------------------------------------------------------------------------
(* ForwardedFor: what is decided about a request, by its handler.          *)
LEMMA ForwardedStep ==
  ASSUME subject = "forwarded", [MCNext]_allVars
  PROVE  subject' = "forwarded" /\ [Forwarded!Next]_(Forwarded!vars)
BY DEF MCNext, NextCall, allVars, forwardedVars, Forwarded!vars

LEMMA ForwardedStart ==
  ASSUME subject = "forwarded", MCInit PROVE Forwarded!Init
BY DEF MCInit, InitCall

Requested ==
  /\ l \in Forwarded!ListenerConfig /\ remote \in Forwarded!Peer
  /\ lines \in Seq(Seq(Forwarded!Value))

Found == Forwarded!TrustedFromXForwardedFor(l, remote, lines)

Decided ==
  \/ outcome = Forwarded!Pending
  \/ Found.kind = "error" /\ outcome = Forwarded!Error
  \/ Found.kind = "nothing" /\ outcome = Forwarded!Served(remote, << >>)
  \/ /\ Found.kind = "trusted"
     /\ outcome = Forwarded!Served(Forwarded!Rewritten(Found.addr, remote), <<remote>>)

RequestInv == Requested /\ Decided

LEMMA ValuesTyped ==
  ASSUME NEW R, NEW m \in Nat, NEW x \in Forwarded!SeqOf(R, m) PROVE x \in Seq(R)
<1>1. PICK k \in 0..m : x \in [1..k -> R]
  BY DEF Forwarded!SeqOf
<1>2. k \in Nat
  OBVIOUS
<1> QED BY <1>1, <1>2

LEMMA LinesTyped ==
  ASSUME lines \in Forwarded!Lines PROVE lines \in Seq(Seq(Forwarded!Value))
<1> DEFINE Values == Forwarded!Value
           Line == Forwarded!SeqOf(Values, MaxValues)
<1>1. lines \in Forwarded!SeqOf(Line \ {<< >>}, MaxLines)
  BY DEF Forwarded!Lines
<1> HIDE DEF Values, Line
<1>2. lines \in Seq(Line \ {<< >>})
  BY <1>1, AddressesAssumption, ValuesTyped
<1>3. ASSUME NEW x \in Line PROVE x \in Seq(Values)
  BY AddressesAssumption, ValuesTyped DEF Line
<1>4. lines \in Seq(Seq(Values))
  BY <1>2, <1>3
<1> QED BY <1>4 DEF Values

LEMMA ForwardedLists ==
  ASSUME NEW s PROVE Forwarded!FlattenSeq(s) = FlattenSeq(s) /\ Forwarded!ToSet(s) = ToSet(s)
BY DEF Forwarded!FlattenSeq, FlattenSeq, Forwarded!ToSet, ToSet

(* Whatever is found is one of these.                                      *)
LEMMA FoundKinds ==
  ASSUME NEW lists
  PROVE  LET found == Forwarded!TrustedFromXForwardedFor(l, remote, lists)
             acc == FlattenSeq(lists)
         IN  /\ found.kind \in {"error", "nothing", "trusted"}
             /\ found.kind = "trusted" =>
                  /\ lists # << >> /\ remote.host # Forwarded!NotAnAddress
                  /\ remote.host \in Authorized /\ Forwarded!Bad \notin ToSet(acc)
                  /\ ~ (Len(acc) - l.HopSkips < 1) /\ found.addr = acc[Len(acc) - l.HopSkips]
             /\ remote.host \in Authorized /\ lists # << >> /\ remote.host # Forwarded!NotAnAddress
                  /\ Forwarded!Bad \notin ToSet(acc) /\ found.kind # "error"
                => ~ (Len(acc) - l.HopSkips < 1)
<1> DEFINE found == Forwarded!TrustedFromXForwardedFor(l, remote, lists)
           acc == Forwarded!FlattenSeq(lists)
           bad == Forwarded!Bad \in Forwarded!ToSet(acc)
<1>1. found = IF lists = << >> \/ remote.host = Forwarded!NotAnAddress THEN Forwarded!NotPresent(l)
              ELSE IF ~ Forwarded!IsAuthorized(remote.host)
                   THEN IF l.RejectNotAuthorized THEN Forwarded!Error ELSE Forwarded!Nothing
              ELSE IF bad THEN Forwarded!NotPresent(l)
              ELSE IF Forwarded!Chosen(acc, l.HopSkips) < 1 THEN Forwarded!Error
              ELSE Forwarded!Trusted(acc[Forwarded!Chosen(acc, l.HopSkips)])
  BY DEF Forwarded!TrustedFromXForwardedFor
<1>2. acc = FlattenSeq(lists) /\ (bad <=> Forwarded!Bad \in ToSet(FlattenSeq(lists)))
  BY ForwardedLists
<1> HIDE DEF found, acc, bad
<1> QED
  BY <1>1, <1>2 DEF found, Forwarded!NotPresent, Forwarded!Error, Forwarded!Nothing,
                    Forwarded!Trusted, Forwarded!IsAuthorized, Forwarded!Chosen

LEMMA RequestInit == Forwarded!Init => RequestInv
<1> SUFFICES ASSUME Forwarded!Init PROVE RequestInv
  OBVIOUS
<1> QED BY LinesTyped DEF Forwarded!Init, RequestInv, Requested, Decided

(* The handler decides once.                                               *)
LEMMA RequestPreserved ==
  ASSUME RequestInv, [Forwarded!Next]_(Forwarded!vars) PROVE RequestInv'
<1>1. UNCHANGED <<l, remote, lines>>
  BY DEF Forwarded!Next, Forwarded!Handle, Forwarded!vars
<1>2. Requested'
  BY <1>1 DEF RequestInv, Requested
<1>3. Found' = Found
  BY <1>1 DEF Found
<1>4. CASE UNCHANGED outcome
  BY <1>1, <1>2, <1>3, <1>4 DEF RequestInv, Decided
<1>5. CASE Forwarded!Handle
  <2>1. outcome' = CASE Found.kind = "error"   -> Forwarded!Error
                     [] Found.kind = "nothing" -> Forwarded!Served(remote, << >>)
                     [] Found.kind = "trusted" ->
                          Forwarded!Served(Forwarded!Rewritten(Found.addr, remote), <<remote>>)
    BY <1>5 DEF Forwarded!Handle, Found
  <2>2. Found.kind \in {"error", "nothing", "trusted"}
    BY FoundKinds DEF Found
  <2> HIDE DEF Found
  <2>3. \/ Found.kind = "error" /\ outcome' = Forwarded!Error
        \/ Found.kind = "nothing" /\ outcome' = Forwarded!Served(remote, << >>)
        \/ /\ Found.kind = "trusted"
           /\ outcome' = Forwarded!Served(Forwarded!Rewritten(Found.addr, remote), <<remote>>)
    BY <2>1, <2>2
  <2> QED BY <1>1, <1>2, <1>3, <2>3 DEF RequestInv, Decided
<1> QED BY <1>4, <1>5 DEF Forwarded!Next, Forwarded!vars

(* What a decision says: a rewritten address was found, ...                *)
LEMMA WhenServed ==
  ASSUME RequestInv, outcome.kind = "served"
  PROVE  \/ /\ Found.kind = "nothing" /\ outcome.remoteAddr = remote /\ outcome.orig = << >>
         \/ /\ Found.kind = "trusted" /\ outcome.orig = <<remote>>
            /\ outcome.remoteAddr = Forwarded!Rewritten(Found.addr, remote)
BY DEF RequestInv, Decided, Forwarded!Pending, Forwarded!Error, Forwarded!Served

LEMMA HopsTyped == Requested => l.HopSkips \in Nat
<1>1. Requested => l.HopSkips \in 0..MaxHopSkips
  BY DEF Requested, Forwarded!ListenerConfig
<1>2. MaxHopSkips \in Nat
  BY AddressesAssumption
<1> QED BY <1>1, <1>2

(* ... which is one of the header's, and is good.                          *)
LEMMA FoundInHeader ==
  ASSUME Requested, Found.kind = "trusted"
  PROVE  Found.addr \in Forwarded!Addr(Host, Port \cup {Forwarded!NoPort})
<1> DEFINE acc == FlattenSeq(lines)
           index == Len(acc) - l.HopSkips
<1>1. acc \in Seq(Forwarded!Value)
  BY FlattenType DEF Requested
<1>2. /\ Forwarded!Bad \notin ToSet(acc) /\ ~ (Len(acc) - l.HopSkips < 1)
      /\ Found.addr = acc[Len(acc) - l.HopSkips]
  BY FoundKinds DEF Found
<1>3. l.HopSkips \in Nat
  BY HopsTyped
<1> HIDE DEF acc
<1>4. index \in 1..Len(acc)
  BY <1>1, <1>2, <1>3
<1>5. acc[index] \in Forwarded!Value /\ acc[index] \in ToSet(acc)
  BY <1>1, <1>4 DEF ToSet
<1> QED BY <1>2, <1>5 DEF Forwarded!Value

LEMMA ServedSoundly ==
  ASSUME RequestInv PROVE Forwarded!OnlyAuthorizedPeersRewrite
<1> SUFFICES ASSUME outcome.kind = "served"
             PROVE  /\ outcome.remoteAddr # remote => remote.host \in Authorized
                    /\ outcome.remoteAddr \in Forwarded!Peer
                    /\ outcome.orig \in {<< >>, <<remote>>}
                    /\ /\ remote.host \in Authorized /\ lines # << >>
                       /\ Forwarded!Bad \notin ToSet(FlattenSeq(lines))
                       => Len(FlattenSeq(lines)) > l.HopSkips
  BY ForwardedLists DEF Forwarded!OnlyAuthorizedPeersRewrite
<1>1. Requested
  BY DEF RequestInv
<1>2. l.HopSkips \in Nat /\ Len(FlattenSeq(lines)) \in Nat
  <2>1. FlattenSeq(lines) \in Seq(Forwarded!Value)
    BY <1>1, FlattenType DEF Requested
  <2> QED BY <1>1, <2>1, HopsTyped
<1>3. remote.host \in Authorized => remote.host # Forwarded!NotAnAddress
  BY AddressesAssumption DEF Forwarded!NotAnAddress
<1>4. /\ remote.host \in Authorized /\ lines # << >>
      /\ Forwarded!Bad \notin ToSet(FlattenSeq(lines)) /\ Found.kind # "error"
      => Len(FlattenSeq(lines)) > l.HopSkips
  BY <1>2, <1>3, FoundKinds DEF Found
<1>5. CASE /\ Found.kind = "nothing" /\ outcome.remoteAddr = remote /\ outcome.orig = << >>
  BY <1>1, <1>4, <1>5 DEF Requested
<1>6. CASE /\ Found.kind = "trusted" /\ outcome.orig = <<remote>>
           /\ outcome.remoteAddr = Forwarded!Rewritten(Found.addr, remote)
  <2>1. remote.host \in Authorized
    BY <1>6, FoundKinds DEF Found
  <2>2. Forwarded!Rewritten(Found.addr, remote) \in Forwarded!Peer
    <3> DEFINE addr == Found.addr
    <3>1. addr \in Forwarded!Addr(Host, Port \cup {Forwarded!NoPort}) /\ remote.port \in Port
      BY <1>1, <1>6, FoundInHeader DEF Requested, Forwarded!Peer, Forwarded!Addr
    <3> HIDE DEF addr
    <3>2. Forwarded!Rewritten(addr, remote) \in Forwarded!Peer
      BY <3>1 DEF Forwarded!Rewritten, Forwarded!Peer, Forwarded!Addr
    <3> QED BY <3>2 DEF addr
  <2> QED BY <1>4, <1>6, <2>1, <2>2
<1> QED BY <1>5, <1>6, WhenServed

(* The place of the address found is counted from the end, ...             *)
LEMMA CountedFromTheEnd ==
  ASSUME Requested, Found.kind = "trusted", NEW v \in Forwarded!Value \ {Forwarded!Bad}
  PROVE  Forwarded!TrustedFromXForwardedFor(l, remote, <<<<v>>>> \o lines) = Found
<1> DEFINE acc == FlattenSeq(lines)
           longer == <<v>> \o acc
           more == <<<<v>>>> \o lines
<1>1. /\ lines # << >> /\ remote.host # Forwarded!NotAnAddress /\ remote.host \in Authorized
      /\ Forwarded!Bad \notin ToSet(acc) /\ ~ (Len(acc) - l.HopSkips < 1)
  BY FoundKinds DEF Found
<1>2. lines \in Seq(Seq(Forwarded!Value)) /\ l.HopSkips \in Nat
  BY HopsTyped DEF Requested
<1>3. acc \in Seq(Forwarded!Value) /\ FlattenSeq(more) = longer /\ more # << >>
  <2>1. <<v>> \in Seq(Forwarded!Value)
    OBVIOUS
  <2>2. FlattenSeq(more) = <<v>> \o acc
    BY <1>1, <1>2, <2>1, FlattenCons
  <2>3. acc \in Seq(Forwarded!Value)
    BY <1>2, FlattenType
  <2>4. Len(<<<<v>>>> \o lines) # 0
    BY <1>2
  <2> QED BY <2>2, <2>3, <2>4
<1> HIDE DEF acc, more
<1>4. Forwarded!Bad \notin ToSet(longer)
  <2>1. ASSUME NEW i \in 1..Len(acc) + 1 PROVE longer[i] # Forwarded!Bad
    <3>1. i # 1 => longer[i] = acc[i - 1] /\ i - 1 \in 1..Len(acc)
      BY <1>3
    <3> QED BY <1>1, <1>3, <3>1 DEF ToSet
  <2>2. DOMAIN longer = 1..Len(acc) + 1
    BY <1>3
  <2> QED BY <2>1, <2>2 DEF ToSet
<1>5. /\ Len(longer) = Len(acc) + 1
      /\ longer[Len(longer) - l.HopSkips] = acc[Len(acc) - l.HopSkips]
      /\ ~ (Len(longer) - l.HopSkips < 1)
  <2>1. Len(acc) \in Nat /\ v \in Forwarded!Value
    BY <1>3
  <2>2. Len(longer) = Len(acc) + 1
    BY <1>3
  <2>3. \A i \in 1..Len(acc) : longer[i + 1] = acc[i]
    BY <1>3
  <2> HIDE DEF longer
  <2>4. Len(acc) - l.HopSkips \in 1..Len(acc)
    BY <1>1, <1>2, <2>1
  <2>5. Len(longer) - l.HopSkips = (Len(acc) - l.HopSkips) + 1
    <3>1. \A n, m \in Nat : (n + 1) - m = (n - m) + 1
      OBVIOUS
    <3> QED BY <1>2, <2>1, <2>2, <3>1
  <2> QED BY <1>2, <2>1, <2>3, <2>4, <2>5
<1>6. Found = Forwarded!Trusted(acc[Len(acc) - l.HopSkips])
  BY <1>1, ForwardedLists DEF acc, Found, Forwarded!TrustedFromXForwardedFor,
     Forwarded!IsAuthorized, Forwarded!Chosen
<1>7. Forwarded!TrustedFromXForwardedFor(l, remote, more)
        = Forwarded!Trusted(longer[Len(longer) - l.HopSkips])
  BY <1>1, <1>3, <1>4, <1>5, ForwardedLists
     DEF Forwarded!TrustedFromXForwardedFor, Forwarded!IsAuthorized, Forwarded!Chosen
<1> QED BY <1>5, <1>6, <1>7 DEF more

(* ... whatever lines the entries came in.                                 *)
LEMMA LinesDoNotMatter ==
  ASSUME Requested, Found.kind = "trusted"
  PROVE  Forwarded!TrustedFromXForwardedFor(l, remote, <<Forwarded!FlattenSeq(lines)>>) = Found
<1> DEFINE acc == FlattenSeq(lines)
<1>1. lines # << >> /\ lines \in Seq(Seq(Forwarded!Value))
  BY FoundKinds DEF Found, Requested
<1>2. acc \in Seq(Forwarded!Value) /\ FlattenSeq(<<acc>>) = acc /\ <<acc>> # << >>
  BY <1>1, FlattenType, FlattenOne
<1> HIDE DEF acc
<1>3. Forwarded!FlattenSeq(lines) = acc /\ Forwarded!FlattenSeq(<<acc>>) = acc
  BY <1>2, ForwardedLists DEF acc
<1> QED BY <1>1, <1>2, <1>3 DEF Found, Forwarded!TrustedFromXForwardedFor

(* An entry that is not an address takes all of the header away.           *)
LEMMA BadTakesAll ==
  ASSUME Requested, Found.kind = "trusted"
  PROVE  Forwarded!TrustedFromXForwardedFor(l, remote, <<<<Forwarded!Bad>>>> \o lines)
           = Forwarded!NotPresent(l)
<1> DEFINE bad == Forwarded!Bad
           acc == FlattenSeq(lines)
           longer == <<bad>> \o acc
           more == <<<<bad>>>> \o lines
<1>1. lines # << >> /\ remote.host # Forwarded!NotAnAddress /\ remote.host \in Authorized
  BY FoundKinds DEF Found
<1>2. lines \in Seq(Seq(Forwarded!Value)) /\ bad \in Forwarded!Value
  BY DEF Requested, Forwarded!Value
<1> HIDE DEF bad
<1>3. acc \in Seq(Forwarded!Value) /\ FlattenSeq(more) = longer /\ more # << >>
  <2>1. <<bad>> \in Seq(Forwarded!Value)
    BY <1>2
  <2>2. FlattenSeq(more) = <<bad>> \o acc
    BY <1>1, <1>2, <2>1, FlattenCons
  <2>3. acc \in Seq(Forwarded!Value)
    BY <1>2, FlattenType
  <2>4. Len(more) # 0
    BY <1>2
  <2> HIDE DEF acc, more
  <2>5. Len(<< >>) = 0
    OBVIOUS
  <2> QED BY <2>2, <2>3, <2>4, <2>5, Zenon
<1> HIDE DEF acc, more
<1>4. bad \in ToSet(longer)
  <2>1. 1 \in DOMAIN longer /\ longer[1] = bad
    BY <1>2, <1>3
  <2> QED BY <2>1 DEF ToSet
<1> HIDE DEF longer
<1>5. Forwarded!TrustedFromXForwardedFor(l, remote, more) = Forwarded!NotPresent(l)
  BY <1>1, <1>3, <1>4, ForwardedLists
     DEF bad, Forwarded!TrustedFromXForwardedFor, Forwarded!IsAuthorized
<1> QED BY <1>5 DEF more, bad

(* How a request that is rejected, passed or rewritten came to be so.      *)
LEMMA FoundByCase ==
  LET acc == FlattenSeq(lines)
      absent == lines = << >> \/ remote.host = Forwarded!NotAnAddress
      authorized == remote.host \in Authorized
      bad == Forwarded!Bad \in ToSet(acc)
  IN  /\ absent \/ (authorized /\ bad)
           => Found.kind = IF l.RejectNotPresent THEN "error" ELSE "nothing"
      /\ ~ absent /\ ~ authorized
           => Found.kind = IF l.RejectNotAuthorized THEN "error" ELSE "nothing"
      /\ ~ absent /\ authorized /\ ~ bad
           => Found.kind = IF Len(acc) - l.HopSkips < 1 THEN "error" ELSE "trusted"
<1> DEFINE acc == Forwarded!FlattenSeq(lines)
           bad == Forwarded!Bad \in Forwarded!ToSet(acc)
<1>1. Found = IF lines = << >> \/ remote.host = Forwarded!NotAnAddress THEN Forwarded!NotPresent(l)
              ELSE IF ~ Forwarded!IsAuthorized(remote.host)
                   THEN IF l.RejectNotAuthorized THEN Forwarded!Error ELSE Forwarded!Nothing
              ELSE IF bad THEN Forwarded!NotPresent(l)
              ELSE IF Forwarded!Chosen(acc, l.HopSkips) < 1 THEN Forwarded!Error
              ELSE Forwarded!Trusted(acc[Forwarded!Chosen(acc, l.HopSkips)])
  BY DEF Found, Forwarded!TrustedFromXForwardedFor
<1>2. acc = FlattenSeq(lines) /\ (bad <=> Forwarded!Bad \in ToSet(FlattenSeq(lines)))
  BY ForwardedLists
<1> HIDE DEF acc, bad
<1> QED
  BY <1>1, <1>2 DEF Forwarded!NotPresent, Forwarded!Error, Forwarded!Nothing,
                    Forwarded!Trusted, Forwarded!IsAuthorized, Forwarded!Chosen

LEMMA RejectsAsSet ==
  ASSUME RequestInv PROVE Forwarded!RejectSettings
<1> DEFINE acc == FlattenSeq(lines)
           absent == lines = << >> \/ remote.host = Forwarded!NotAnAddress
           authorized == remote.host \in Authorized
           bad == Forwarded!Bad \in ToSet(acc)
<1>1. /\ absent \/ (authorized /\ bad)
           => Found.kind = IF l.RejectNotPresent THEN "error" ELSE "nothing"
      /\ ~ absent /\ ~ authorized
           => Found.kind = IF l.RejectNotAuthorized THEN "error" ELSE "nothing"
      /\ ~ absent /\ authorized /\ ~ bad
           => Found.kind = IF Len(acc) - l.HopSkips < 1 THEN "error" ELSE "trusted"
  BY FoundByCase, Zenon
<1>2. outcome.kind = "served" =>
        \/ Found.kind = "nothing" /\ outcome.orig = << >>
        \/ Found.kind = "trusted" /\ outcome.orig = <<remote>>
  BY WhenServed
<1>3. outcome = Forwarded!Error => Found.kind = "error"
  BY DEF RequestInv, Decided, Forwarded!Pending, Forwarded!Error, Forwarded!Served
<1>4. authorized => remote.host # Forwarded!NotAnAddress
  BY AddressesAssumption DEF Forwarded!NotAnAddress
<1>5. l.HopSkips \in Nat /\ Len(acc) \in Nat /\ Forwarded!FlattenSeq(lines) = acc
  <2>1. acc \in Seq(Forwarded!Value)
    BY FlattenType DEF RequestInv, Requested
  <2> QED BY <2>1, HopsTyped, ForwardedLists DEF RequestInv
<1>6. <<remote>> # << >>
  OBVIOUS
<1> HIDE DEF acc, bad
<1>7. ASSUME outcome.kind = "served", l.RejectNotAuthorized
      PROVE  lines = << >> \/ remote.host \in Authorized \cup {Forwarded!NotAnAddress}
  BY <1>1, <1>2, <1>7, Zenon
<1>8. ASSUME outcome.kind = "served", l.RejectNotPresent
      PROVE  \/ Forwarded!IsRewritten
             \/ lines # << >> /\ remote.host \notin Authorized /\ ~ l.RejectNotAuthorized
  BY <1>1, <1>2, <1>6, <1>8, Zenon DEF Forwarded!IsRewritten
<1>9. ASSUME outcome = Forwarded!Error, ~ l.RejectNotPresent, ~ l.RejectNotAuthorized
      PROVE  remote.host \in Authorized /\ Len(acc) <= l.HopSkips
  <2>1. authorized /\ Len(acc) - l.HopSkips < 1
    BY <1>1, <1>3, <1>9, Zenon
  <2> QED BY <1>5, <2>1
<1> QED BY <1>5, <1>7, <1>8, <1>9, Zenon DEF Forwarded!RejectSettings

(* A request is served under another address than its peer's only for an   *)
(* authorized peer, and then under the one that the proxies' last entries  *)
(* choose; an entry before them that is no address takes the header away;  *)
(* a request whose chain is too short is not served; and the two settings  *)
(* reject what they should (TrustedFromXForwardedFor).                     *)
THEOREM AddressDecided == MCSpec => []LastEntriesDecide
<1> DEFINE Inv == subject = "forwarded" => RequestInv
<1>1. MCInit => Inv
  BY ForwardedStart, RequestInit
<1>2. Inv /\ [MCNext]_allVars => Inv'
  <2> SUFFICES ASSUME Inv, [MCNext]_allVars, subject' = "forwarded" PROVE RequestInv'
    OBVIOUS
  <2>1. subject = "forwarded"
    BY DEF MCNext, NextCall, allVars
  <2> QED BY <2>1, ForwardedStep, RequestPreserved
<1>3. Inv => LastEntriesDecide
  <2> SUFFICES ASSUME RequestInv PROVE Forwarded!LastEntriesDecide
    BY DEF LastEntriesDecide
  <2>1. Forwarded!IsRewritten => Found.kind = "trusted" /\ Requested
    BY WhenServed DEF Forwarded!IsRewritten, RequestInv
  <2>2. ASSUME Forwarded!IsRewritten
        PROVE  /\ Forwarded!TrustedFromXForwardedFor(l, remote, <<Forwarded!FlattenSeq(lines)>>) = Found
               /\ \A v \in Forwarded!Value :
                    Forwarded!TrustedFromXForwardedFor(l, remote, <<<<v>>>> \o lines)
                      = IF v = Forwarded!Bad THEN Forwarded!NotPresent(l) ELSE Found
    <3>1. \A v \in Forwarded!Value : v # Forwarded!Bad =>
            Forwarded!TrustedFromXForwardedFor(l, remote, <<<<v>>>> \o lines) = Found
      BY <2>1, <2>2, CountedFromTheEnd
    <3> QED BY <2>1, <2>2, <3>1, LinesDoNotMatter, BadTakesAll, Zenon
  <2>3. Forwarded!EarlierEntriesNeverChoose
    BY <2>2, Zenon DEF Forwarded!EarlierEntriesNeverChoose, Found
  <2> QED BY <2>3, ServedSoundly, RejectsAsSet, Zenon DEF Forwarded!LastEntriesDecide
<1> QED BY <1>1, <1>2, <1>3, PTL DEF MCSpec

-----------------------------------------------------------------------------
(* MCDecisions: a result is what the call of the subject gives for its     *)
(* arguments, which are some of the module's inputs.                       *)
Answered ==
  /\ subject = "credentials" => args \in Aws!Inputs /\ result \in {<< >>, <<Aws!Call(args)>>}
  /\ subject = "parse" => args \in Parse!Inputs /\ result \in {<< >>, <<Parse!Call(args)>>}

LEMMA AnswersInit == MCInit => Answered
<1> SUFFICES ASSUME MCInit PROVE Answered
  OBVIOUS
<1>1. subject = "credentials" => Aws!Init
  BY DEF MCInit, InitCall
<1>2. subject = "parse" => Parse!Init
  BY DEF MCInit, InitCall
<1> QED BY <1>1, <1>2 DEF Answered, Aws!Init, Aws!Pending, Parse!Init, Parse!Pending

LEMMA AnswersStep == Answered /\ [MCNext]_allVars => Answered'
<1> SUFFICES ASSUME Answered, [MCNext]_allVars PROVE Answered'
  OBVIOUS
<1>1. subject' = subject
  BY DEF MCNext, NextCall, allVars
<1>2. CASE subject = "credentials"
  <2>1. Aws!Return \/ UNCHANGED <<args, result>>
    BY <1>2 DEF MCNext, NextCall, allVars, callVars, Aws!Next
  <2>2. args' = args /\ (result' = result \/ result' = <<Aws!Call(args)>>)
    BY <2>1 DEF Aws!Return
  <2> QED BY <1>1, <1>2, <2>2 DEF Answered
<1>3. CASE subject = "parse"
  <2>1. Parse!Return \/ UNCHANGED <<args, result>>
    BY <1>3 DEF MCNext, NextCall, allVars, callVars, Parse!Next
  <2>2. args' = args /\ (result' = result \/ result' = <<Parse!Call(args)>>)
    BY <2>1 DEF Parse!Return
  <2> QED BY <1>1, <1>3, <2>2 DEF Answered
<1>4. CASE subject \notin {"credentials", "parse"}
  BY <1>1, <1>4 DEF Answered
<1> QED BY <1>2, <1>3, <1>4

LEMMA Answers == MCSpec => []Answered
BY AnswersInit, AnswersStep, PTL DEF MCSpec

-----------------------------------------------------------------------------
(* Credentials: the options of a chain by their names.                     *)
RoleWays == {"web identity file", "web identity token", "assume role"}
OptionNames == {"region", "profile", "credentials file", "static"} \cup RoleWays
AnyOption(V) == OptionNames \X V
OptionsOf(V, name) == {o \in AnyOption(V) : o[1] = name}
NamedIn(list, name) == Only(list, {o \in ToSet(list) : o[1] = name})

LEMMA AwsOnly == \A s, S : Aws!Only(s, S) = Only(s, S)
<1>1. ASSUME NEW s, NEW S PROVE Aws!Only(s, S) = Only(s, S)
  <2> DEFINE parts == [i \in DOMAIN s |-> IF s[i] \in S THEN <<s[i]>> ELSE << >>]
  <2>1. Aws!Only(s, S) = Aws!FlattenSeq(parts)
    BY DEF Aws!Only
  <2>2. Only(s, S) = FlattenSeq(parts)
    BY DEF Only
  <2> HIDE DEF parts
  <2>3. Aws!FlattenSeq(parts) = FlattenSeq(parts)
    BY DEF Aws!FlattenSeq, FlattenSeq
  <2> QED BY <2>1, <2>2, <2>3
<1> QED BY <1>1

LEMMA NamedInIs ==
  ASSUME NEW V, NEW list \in Seq(AnyOption(V)), NEW name
  PROVE  NamedIn(list, name) = Only(list, OptionsOf(V, name))
<1> DEFINE here == {o \in ToSet(list) : o[1] = name}
<1>1. list \in Seq(ToSet(list)) /\ ToSet(list) \subseteq AnyOption(V)
  BY DEF ToSet
<1>2. \A o \in ToSet(list) : o \in here <=> o \in OptionsOf(V, name)
  BY <1>1 DEF OptionsOf
<1> HIDE DEF here
<1>3. Only(list, here) = Only(list, OptionsOf(V, name))
  BY <1>1, <1>2, OnlySame
<1> QED BY <1>3 DEF NamedIn, here

(* A part of the options, all of one name.                                 *)
PartOf(part, V, name) == part \in Seq({name} \X V)

OnlyPart(part, V, name, m) ==
  /\ part \in Seq(AnyOption(V))
  /\ Only(part, OptionsOf(V, name)) = IF name = m THEN part ELSE << >>

LEMMA PartNamed ==
  ASSUME NEW V, NEW m \in OptionNames, NEW part, PartOf(part, V, m), NEW name
  PROVE  OnlyPart(part, V, name, m)
<1> DEFINE U == {m} \X V
           S == OptionsOf(V, name)
<1>1. /\ U \subseteq AnyOption(V) /\ (name = m => U \subseteq S) /\ (name # m => U \cap S = {})
  BY DEF AnyOption, OptionsOf
<1>2. part \in Seq(U)
  BY DEF PartOf
<1> HIDE DEF U, S
<1>3. part \in Seq(AnyOption(V)) /\ (name = m => part \in Seq(S))
  BY <1>1, <1>2
<1>4. name = m => Only(part, S) = part
  BY <1>3, OnlyAll
<1>5. name # m => Only(part, S) = << >>
  BY <1>1, <1>2, OnlyNone
<1> QED BY <1>3, <1>4, <1>5 DEF S, OnlyPart

ChainOf(a, b, c, d, e) == ((a \o (b \o c)) \o d) \o e

LEMMA ChainOfOne ==
  ASSUME NEW R, NEW x \in Seq(R)
  PROVE  /\ ChainOf(x, << >>, << >>, << >>, << >>) = x /\ ChainOf(<< >>, x, << >>, << >>, << >>) = x
         /\ ChainOf(<< >>, << >>, << >>, x, << >>) = x /\ ChainOf(<< >>, << >>, << >>, << >>, x) = x
         /\ ChainOf(<< >>, << >>, << >>, << >>, << >>) = << >>
<1>1. x \o << >> = x /\ << >> \o x = x /\ << >> \o << >> = << >>
  OBVIOUS
<1> QED BY <1>1 DEF ChainOf

OnlyOfChain(S, a, b, c, d, e) ==
  Only(ChainOf(a, b, c, d, e), S) =
    ChainOf(Only(a, S), Only(b, S), Only(c, S), Only(d, S), Only(e, S))

LEMMA ChainParts ==
  ASSUME NEW R, NEW a \in Seq(R), NEW b \in Seq(R), NEW c \in Seq(R), NEW d \in Seq(R),
         NEW e \in Seq(R), NEW S
  PROVE  ChainOf(a, b, c, d, e) \in Seq(R) /\ OnlyOfChain(S, a, b, c, d, e)
<1> DEFINE bc == b \o c
           abc == a \o bc
           abcd == abc \o d
           all == abcd \o e
<1>1. bc \in Seq(R) /\ Only(bc, S) = Only(b, S) \o Only(c, S)
  <2>1. bc \in Seq(R)
    OBVIOUS
  <2>2. Only(bc, S) = Only(b, S) \o Only(c, S)
    BY OnlyConcat
  <2> QED BY <2>1, <2>2
<1> HIDE DEF bc
<1>2. abc \in Seq(R) /\ Only(abc, S) = Only(a, S) \o Only(bc, S)
  <2>1. abc \in Seq(R)
    BY <1>1
  <2>2. Only(abc, S) = Only(a, S) \o Only(bc, S)
    BY <1>1, OnlyConcat
  <2> QED BY <2>1, <2>2
<1> HIDE DEF abc
<1>3. abcd \in Seq(R) /\ Only(abcd, S) = Only(abc, S) \o Only(d, S)
  <2>1. abcd \in Seq(R)
    BY <1>2
  <2>2. Only(abcd, S) = Only(abc, S) \o Only(d, S)
    BY <1>2, OnlyConcat
  <2> QED BY <2>1, <2>2
<1> HIDE DEF abcd
<1>4. all \in Seq(R) /\ Only(all, S) = Only(abcd, S) \o Only(e, S)
  <2>1. all \in Seq(R)
    BY <1>3
  <2>2. Only(all, S) = Only(abcd, S) \o Only(e, S)
    BY <1>3, OnlyConcat
  <2> QED BY <2>1, <2>2
<1> HIDE DEF all
<1>5. all = ChainOf(a, b, c, d, e)
  BY DEF all, abcd, abc, bc, ChainOf
<1> QED BY <1>1, <1>2, <1>3, <1>4, <1>5 DEF OnlyOfChain, ChainOf

(* A chain and its parts: region, profile, file, static keys, role.        *)
ByName(all, region, profile, static, way, role) ==
  /\ NamedIn(all, "region") = region /\ NamedIn(all, "profile") = profile
  /\ NamedIn(all, "static") = static
  /\ \A name \in RoleWays : NamedIn(all, name) = IF name = way THEN role ELSE << >>

LEMMA OptionsByName ==
  ASSUME NEW V, NEW region, PartOf(region, V, "region"), NEW profile, PartOf(profile, V, "profile"),
         NEW file, PartOf(file, V, "credentials file"), NEW static, PartOf(static, V, "static"),
         NEW way \in RoleWays, NEW role, PartOf(role, V, way)
  PROVE  ByName(ChainOf(region, profile, file, static, role), region, profile, static, way, role)
<1> DEFINE all == ChainOf(region, profile, file, static, role)
           R == AnyOption(V)
           S(name) == OptionsOf(V, name)
<1>1. /\ "region" \in OptionNames /\ "profile" \in OptionNames /\ "credentials file" \in OptionNames
      /\ "static" \in OptionNames /\ way \in OptionNames
  BY Zenon DEF OptionNames, RoleWays
<1>2. /\ "region" \notin RoleWays /\ "profile" \notin RoleWays /\ "credentials file" \notin RoleWays
      /\ "static" \notin RoleWays
  BY Zenon DEF RoleWays
<1>3. ASSUME NEW name
      PROVE  /\ region \in Seq(R) /\ Only(region, S(name)) = IF name = "region" THEN region ELSE << >>
             /\ profile \in Seq(R)
             /\ Only(profile, S(name)) = IF name = "profile" THEN profile ELSE << >>
             /\ file \in Seq(R)
             /\ Only(file, S(name)) = IF name = "credentials file" THEN file ELSE << >>
             /\ static \in Seq(R) /\ Only(static, S(name)) = IF name = "static" THEN static ELSE << >>
             /\ role \in Seq(R) /\ Only(role, S(name)) = IF name = way THEN role ELSE << >>
  <2>1. OnlyPart(region, V, name, "region")
    BY <1>1, PartNamed, Zenon
  <2>2. OnlyPart(profile, V, name, "profile")
    BY <1>1, PartNamed, Zenon
  <2>3. OnlyPart(file, V, name, "credentials file")
    BY <1>1, PartNamed, Zenon
  <2>4. OnlyPart(static, V, name, "static")
    BY <1>1, PartNamed, Zenon
  <2>5. OnlyPart(role, V, name, way)
    BY <1>1, PartNamed, Zenon
  <2> QED BY <2>1, <2>2, <2>3, <2>4, <2>5, Zenon DEF OnlyPart
<1> HIDE DEF R, S
<1>4. ASSUME NEW name PROVE all \in Seq(R) /\ OnlyOfChain(S(name), region, profile, file, static, role)
  BY <1>3, ChainParts, Zenon
<1>5. ASSUME NEW name PROVE NamedIn(all, name) = Only(all, S(name))
  <2> HIDE DEF all
  <2>1. all \in Seq(R)
    BY <1>4, Zenon
  <2> QED BY <2>1, NamedInIs, Zenon DEF R, S
<1>6. ASSUME NEW name
      PROVE  NamedIn(all, name) =
               ChainOf(Only(region, S(name)), Only(profile, S(name)), Only(file, S(name)),
                       Only(static, S(name)), Only(role, S(name)))
  BY <1>4, <1>5, Zenon DEF OnlyOfChain
<1> HIDE DEF all
<1>7. region \in Seq(R) /\ profile \in Seq(R) /\ static \in Seq(R) /\ role \in Seq(R)
  BY <1>3, Zenon
<1>8. NamedIn(all, "region") = region
  <2>1. "region" # way
    BY <1>2, Zenon
  <2>2. NamedIn(all, "region") = ChainOf(region, << >>, << >>, << >>, << >>)
    BY <1>3, <1>6, <2>1, Zenon
  <2> QED BY <1>7, <2>2, ChainOfOne, Zenon
<1>9. NamedIn(all, "profile") = profile
  <2>1. "profile" # way
    BY <1>2, Zenon
  <2>2. NamedIn(all, "profile") = ChainOf(<< >>, profile, << >>, << >>, << >>)
    BY <1>3, <1>6, <2>1, Zenon
  <2> QED BY <1>7, <2>2, ChainOfOne, Zenon
<1>10. NamedIn(all, "static") = static
  <2>1. "static" # way
    BY <1>2, Zenon
  <2>2. NamedIn(all, "static") = ChainOf(<< >>, << >>, << >>, static, << >>)
    BY <1>3, <1>6, <2>1, Zenon
  <2> QED BY <1>7, <2>2, ChainOfOne, Zenon
<1>11. ASSUME NEW name \in RoleWays
       PROVE  NamedIn(all, name) = IF name = way THEN role ELSE << >>
  <2>1. name # "region" /\ name # "profile" /\ name # "credentials file" /\ name # "static"
    BY <1>2, Zenon
  <2>2. NamedIn(all, name) =
          ChainOf(<< >>, << >>, << >>, << >>, IF name = way THEN role ELSE << >>)
    BY <1>3, <1>6, <2>1, Zenon
  <2> QED BY <1>7, <2>2, ChainOfOne, Zenon
<1> QED BY <1>8, <1>9, <1>10, <1>11, Zenon DEF ByName, all

(* The parts of a generated chain.                                         *)
RegionPart(c) == IF c.region # "" THEN <<<<"region", c.region>>>> ELSE << >>
ProfilePart(c, env, shared, defaultExists) ==
  IF ~ shared THEN << >>
  ELSE IF Aws!ProfileOf(c, env) # "" THEN <<<<"profile", Aws!ProfileOf(c, env)>>>>
  ELSE IF defaultExists THEN <<<<"profile", "default">>>> ELSE << >>
FilePart(shared) == IF shared THEN <<<<"credentials file", "">>>> ELSE << >>
StaticPart(c) ==
  IF c.accessKey # "" /\ c.secretKey # "" THEN <<<<"static", c.accessKey>>>> ELSE << >>
Way(c) ==
  IF c.tokenFile # "" THEN "web identity file"
  ELSE IF c.token # "" THEN "web identity token" ELSE "assume role"

LEMMA OnePart ==
  ASSUME NEW V, NEW name, NEW v \in V
  PROVE  PartOf(<<<<name, v>>>>, V, name) /\ PartOf(<< >>, V, name)
<1>1. <<name, v>> \in {name} \X V
  OBVIOUS
<1> DEFINE o == <<name, v>>
           U == {name} \X V
<1> HIDE DEF o, U
<1>2. o \in U
  BY <1>1 DEF o, U
<1>3. <<o>> \in Seq(U) /\ << >> \in Seq(U)
  BY <1>2
<1> QED BY <1>3 DEF o, U, PartOf

LEMMA GeneratedOptions ==
  ASSUME NEW c, NEW env, NEW shared, NEW defaultExists
  PROVE  ByName(Aws!generateAwsConfigOptions(c, env, shared, defaultExists), RegionPart(c),
                ProfilePart(c, env, shared, defaultExists), StaticPart(c), Way(c), Aws!RoleOptions(c))
<1> DEFINE V == {c.region, Aws!ProfileOf(c, env), "default", "", c.accessKey,
                 Aws!WebIdentity(c, c.tokenFile), Aws!WebIdentity(c, c.token), Aws!AssumeRole(c)}
           region == RegionPart(c)
           profile == ProfilePart(c, env, shared, defaultExists)
           file == FilePart(shared)
           static == StaticPart(c)
           role == Aws!RoleOptions(c)
<1>1. /\ c.region \in V /\ Aws!ProfileOf(c, env) \in V /\ "default" \in V /\ "" \in V
      /\ c.accessKey \in V /\ Aws!WebIdentity(c, c.tokenFile) \in V
      /\ Aws!WebIdentity(c, c.token) \in V /\ Aws!AssumeRole(c) \in V
  OBVIOUS
<1> HIDE DEF V
<1>2. PartOf(region, V, "region")
  BY <1>1, OnePart, Zenon DEF RegionPart
<1>3. PartOf(profile, V, "profile")
  BY <1>1, OnePart, Zenon DEF ProfilePart
<1>4. PartOf(file, V, "credentials file")
  BY <1>1, OnePart, Zenon DEF FilePart
<1>5. PartOf(static, V, "static")
  BY <1>1, OnePart, Zenon DEF StaticPart
<1>6. PartOf(role, V, Way(c)) /\ Way(c) \in RoleWays
  BY <1>1, OnePart, Zenon DEF Way, RoleWays, Aws!RoleOptions
<1>7. Aws!generateAwsConfigOptions(c, env, shared, defaultExists) =
        ChainOf(region, profile, file, static, role)
  <2>1. CASE shared
    BY <2>1, Zenon DEF ChainOf, RegionPart, ProfilePart, FilePart, StaticPart, Aws!SharedOptions,
                Aws!generateAwsConfigOptions
  <2>2. CASE ~ shared
    <3>1. << >> \o << >> = << >>
      OBVIOUS
    <3> QED BY <2>2, <3>1, Zenon DEF ChainOf, RegionPart, ProfilePart, FilePart, StaticPart,
                             Aws!generateAwsConfigOptions
  <2> QED BY <2>1, <2>2
<1> HIDE DEF region, profile, file, static, role
<1>8. ByName(ChainOf(region, profile, file, static, role), region, profile, static, Way(c), role)
  BY <1>2, <1>3, <1>4, <1>5, <1>6, OptionsByName, Zenon
<1> QED BY <1>7, <1>8 DEF region, profile, static, role

LEMMA AwsNamed == \A name : Aws!OptionsNamed(name) = NamedIn(Aws!returned.options, name)
<1>1. \A s : Aws!ToSet(s) = ToSet(s)
  BY DEF Aws!ToSet, ToSet
<1> QED BY <1>1, AwsOnly DEF Aws!OptionsNamed, NamedIn

(* What a chain that was generated came from.                              *)
LEMMA ChainGenerated ==
  ASSUME NEW c, NEW env, NEW call, Aws!GenerateCredentialChain(c, env, call).err = ""
  PROVE  /\ c.accessKey = "" <=> c.secretKey = ""
         /\ call.loads
         /\ Aws!GenerateCredentialChain(c, env, call).options =
              Aws!generateAwsConfigOptions(c, env, call.shared, call.defaultExists)
BY Zenon DEF Aws!GenerateCredentialChain, Aws!Error

(* The configuration that a caller's options and the environment make.     *)
MadeOf(c, given, env) ==
  /\ c.region = Aws!RegionOf(given, env)
  /\ c.accessKey = Aws!IfGiven(given, "access key")
  /\ c.secretKey = Aws!IfGiven(given, "secret key")
  /\ c.roleARN = Aws!OptionThenEnv(given, env, "role arn", "AWS_ROLE_ARN")
  /\ c.sessionName = Aws!OptionThenEnv(given, env, "session name", "AWS_ROLE_SESSION_NAME")
  /\ c.externalId = Aws!IfGiven(given, "external id")
  /\ c.tags = Aws!IfGiven(given, "tags")
  /\ c.tokenFile = Aws!OptionThenEnv(given, env, "token file", "AWS_WEB_IDENTITY_TOKEN_FILE")
  /\ c.token = Aws!IfGiven(given, "token")
  /\ c.profile = ""

NoRoleSettings(c) ==
  /\ c.sessionName = "" /\ c.externalId = "" /\ c.tags = "" /\ c.tokenFile = "" /\ c.token = ""

LEMMA SettingsOfRole ==
  ASSUME NEW c
  PROVE  (\E i \in DOMAIN Aws!RoleSettings(c) : Aws!RoleSettings(c)[i] # "") <=> ~ NoRoleSettings(c)
<1> DEFINE s == Aws!RoleSettings(c)
<1>1. /\ DOMAIN s = 1..5 /\ s[1] = c.sessionName /\ s[2] = c.externalId /\ s[3] = c.tags
      /\ s[4] = c.tokenFile /\ s[5] = c.token
  BY DEF Aws!RoleSettings
<1>2. \A i \in 1..5 : i = 1 \/ i = 2 \/ i = 3 \/ i = 4 \/ i = 5
  OBVIOUS
<1>3. 1 \in 1..5 /\ 2 \in 1..5 /\ 3 \in 1..5 /\ 4 \in 1..5 /\ 5 \in 1..5
  OBVIOUS
<1> HIDE DEF s
<1> QED BY <1>1, <1>2, <1>3, Zenon DEF NoRoleSettings, s

LEMMA ConfigMade ==
  ASSUME NEW given, NEW env
  PROVE  LET c == Aws!NewCredentialsConfig(given, env)
             noRole == Aws!OptionThenEnv(given, env, "role arn", "AWS_ROLE_ARN") = ""
         IN  /\ c.err = "" => MadeOf(c, given, env) /\ (noRole => NoRoleSettings(c))
             /\ given \subseteq Aws!BothKeys /\ env = {} => c.err = ""
<1> DEFINE made == [err |-> "", region |-> Aws!RegionOf(given, env),
                    accessKey |-> Aws!IfGiven(given, "access key"),
                    secretKey |-> Aws!IfGiven(given, "secret key"),
                    roleARN |-> Aws!OptionThenEnv(given, env, "role arn", "AWS_ROLE_ARN"),
                    sessionName |->
                      Aws!OptionThenEnv(given, env, "session name", "AWS_ROLE_SESSION_NAME"),
                    externalId |-> Aws!IfGiven(given, "external id"),
                    tags |-> Aws!IfGiven(given, "tags"),
                    tokenFile |->
                      Aws!OptionThenEnv(given, env, "token file", "AWS_WEB_IDENTITY_TOKEN_FILE"),
                    token |-> Aws!IfGiven(given, "token"), profile |-> ""]
           c == Aws!NewCredentialsConfig(given, env)
<1>1. MadeOf(made, given, env) /\ made.err = ""
  BY DEF MadeOf
<1>2. c = IF made.roleARN = ""
               /\ \E i \in DOMAIN Aws!RoleSettings(made) : Aws!RoleSettings(made)[i] # ""
          THEN Aws!Error("role setting without role") ELSE made
  BY DEF Aws!NewCredentialsConfig
<1> HIDE DEF made, c
<1>3. c = IF made.roleARN = "" /\ ~ NoRoleSettings(made)
          THEN Aws!Error("role setting without role") ELSE made
  BY <1>2, SettingsOfRole, Zenon
<1>4. ASSUME c.err = "" PROVE c = made /\ (made.roleARN = "" => NoRoleSettings(made))
  BY <1>3, <1>4, Zenon DEF Aws!Error
<1>5. made.roleARN = Aws!OptionThenEnv(given, env, "role arn", "AWS_ROLE_ARN")
  BY <1>1, Zenon DEF MadeOf
<1>6. ASSUME given \subseteq Aws!BothKeys, env = {} PROVE NoRoleSettings(made)
  <2>1. /\ "session name" \notin given /\ "external id" \notin given /\ "tags" \notin given
        /\ "token file" \notin given /\ "token" \notin given
    BY <1>6, Zenon DEF Aws!BothKeys
  <2> QED BY <1>1, <1>6, <2>1, Zenon DEF MadeOf, NoRoleSettings, Aws!IfGiven, Aws!OptionThenEnv
<1>7. ASSUME given \subseteq Aws!BothKeys, env = {} PROVE c.err = ""
  BY <1>1, <1>3, <1>6, <1>7, Zenon
<1> QED BY <1>1, <1>4, <1>5, <1>7, Zenon DEF c

LEMMA MadeWell ==
  ASSUME NEW given, NEW env, NEW c, c = Aws!NewCredentialsConfig(given, env), c.err = ""
  PROVE  MadeOf(c, given, env) /\ (c.roleARN = "" => NoRoleSettings(c))
<1> DEFINE noRole == Aws!OptionThenEnv(given, env, "role arn", "AWS_ROLE_ARN") = ""
<1>1. MadeOf(c, given, env) /\ (noRole => NoRoleSettings(c))
  BY ConfigMade, Zenon
<1>2. c.roleARN = "" <=> noRole
  BY <1>1, Zenon DEF MadeOf
<1> QED BY <1>1, <1>2, Zenon

LEMMA ChainsGiven ==
  ASSUME NEW x \in Aws!Inputs, x.fn = "chain" PROVE x.given \subseteq Aws!OptionName \cup {"region"}
<1>1. ASSUME NEW givens, NEW envs, NEW calls, x \in Aws!Chains(givens, envs, calls)
      PROVE  x.given \in givens
  BY <1>1 DEF Aws!Chains
<1>2. x \notin Aws!RetrieveInputs
  BY Zenon DEF Aws!RetrieveInputs
<1>3. x \notin Aws!ClientInputs
  BY Zenon DEF Aws!ClientInputs
<1>4. x \notin Aws!RegionInputs
  BY DEF Aws!RegionInputs
<1>5. x \in Aws!ChainInputs
  BY <1>2, <1>3, <1>4 DEF Aws!Inputs
<1>6. x.given \in SUBSET Aws!OptionName
      \/ x.given \in {{}, {"region"}, {"access key", "secret key"}}
  BY <1>1, <1>5, Zenon DEF Aws!ChainInputs
<1>7. {"access key", "secret key"} \subseteq Aws!OptionName
  BY DEF Aws!OptionName
<1> QED BY <1>6, <1>7, Zenon

(* The ways to a role that a chain names: the one of its configuration.    *)
LEMMA WaysToRole ==
  ASSUME NEW all, NEW region, NEW profile, NEW static, NEW c,
         ByName(all, region, profile, static, Way(c), Aws!RoleOptions(c))
  PROVE  (NamedIn(all, "web identity file") \o NamedIn(all, "web identity token"))
           \o NamedIn(all, "assume role") = Aws!RoleOptions(c)
<1> DEFINE role == Aws!RoleOptions(c)
           file == NamedIn(all, "web identity file")
           token == NamedIn(all, "web identity token")
           assume == NamedIn(all, "assume role")
<1>1. \E V : role \in Seq(V)
  <2> DEFINE V == {role[1]}
  <2>1. role = << >> \/ \E o : role = <<o>>
    BY Zenon DEF Aws!RoleOptions
  <2> HIDE DEF role
  <2>2. ASSUME NEW o, role = <<o>> PROVE role \in Seq({o}) /\ o = role[1]
    BY <2>2
  <2>3. role = << >> => role \in Seq(V)
    OBVIOUS
  <2> QED BY <2>1, <2>2, <2>3
<1>2. /\ file = IF Way(c) = "web identity file" THEN role ELSE << >>
      /\ token = IF Way(c) = "web identity token" THEN role ELSE << >>
      /\ assume = IF Way(c) = "assume role" THEN role ELSE << >>
  BY Zenon DEF ByName, RoleWays
<1>3. Way(c) \in {"web identity file", "web identity token", "assume role"}
  BY Zenon DEF Way
<1> HIDE DEF role, file, token, assume
<1>4. (role \o << >>) \o << >> = role /\ (<< >> \o role) \o << >> = role
      /\ (<< >> \o << >>) \o role = role
  BY <1>1
<1>5. (file \o token) \o assume = role
  BY <1>2, <1>3, <1>4, Zenon
<1> QED BY <1>5, Zenon DEF role, file, token, assume

(* What the only way to a role is given.                                   *)
RoleSettled(given, env, role) ==
  LET settings == role[1][2]
  IN  /\ "role arn" \in given => settings.roleARN = "option"
      /\ "role arn" \notin given => settings.roleARN = "env"
      /\ "session name" \in given => settings.sessionName = "option"
      /\ "session name" \notin given => settings.sessionName # "option"
      /\ role[1][1] = "assume role" =>
           /\ settings.externalId # "" <=> "external id" \in given
           /\ settings.tags # "" <=> "tags" \in given

TokenSettled(given, env, role) ==
  LET settings == role[1][2]
  IN  /\ "token file" \in given => role[1][1] = "web identity file" /\ settings.token = "option"
      /\ "token" \in given =>
           role[1][1] = IF "token file" \in given \/ "AWS_WEB_IDENTITY_TOKEN_FILE" \in env
                        THEN "web identity file" ELSE "web identity token"

OneWayTo(c, way) ==
  /\ Len(way) = 1
  /\ way[1][2].roleARN = c.roleARN /\ way[1][2].sessionName = c.sessionName
  /\ c.tokenFile # "" => way[1][1] = "web identity file" /\ way[1][2].token = c.tokenFile
  /\ c.tokenFile = "" /\ c.token # "" => way[1][1] = "web identity token"
  /\ way[1][1] = "assume role" =>
       way[1][2].externalId = c.externalId /\ way[1][2].tags = c.tags

LEMMA OneWay ==
  ASSUME NEW c, c.roleARN # "" PROVE OneWayTo(c, Aws!RoleOptions(c))
<1> DEFINE way == Aws!RoleOptions(c)
<1>1. ASSUME NEW name, NEW settings, way = <<<<name, settings>>>>
      PROVE  Len(way) = 1 /\ way[1][1] = name /\ way[1][2] = settings
  <2> HIDE DEF way
  <2> QED BY <1>1
<1>2. \A token : /\ Aws!WebIdentity(c, token).roleARN = c.roleARN
                /\ Aws!WebIdentity(c, token).sessionName = c.sessionName
                /\ Aws!WebIdentity(c, token).token = token
  BY DEF Aws!WebIdentity
<1>3. /\ Aws!AssumeRole(c).roleARN = c.roleARN /\ Aws!AssumeRole(c).sessionName = c.sessionName
      /\ Aws!AssumeRole(c).externalId = c.externalId /\ Aws!AssumeRole(c).tags = c.tags
  BY DEF Aws!AssumeRole
<1>4. ASSUME c.tokenFile # "" PROVE OneWayTo(c, way)
  <2>1. way = <<<<"web identity file", Aws!WebIdentity(c, c.tokenFile)>>>>
    BY <1>4, Zenon DEF Aws!RoleOptions
  <2>2. Len(way) = 1 /\ way[1][1] = "web identity file" /\ way[1][2] = Aws!WebIdentity(c, c.tokenFile)
    BY <1>1, <2>1, Zenon
  <2> HIDE DEF way
  <2>3. way[1][2].roleARN = c.roleARN /\ way[1][2].sessionName = c.sessionName
        /\ way[1][2].token = c.tokenFile
    BY <1>2, <2>2, Zenon
  <2>4. way[1][1] # "assume role"
    BY <2>2
  <2> QED BY <1>4, <2>2, <2>3, <2>4, Zenon DEF OneWayTo
<1>5. ASSUME c.tokenFile = "", c.token # "" PROVE OneWayTo(c, way)
  <2>1. way = <<<<"web identity token", Aws!WebIdentity(c, c.token)>>>>
    BY <1>5, Zenon DEF Aws!RoleOptions
  <2>2. Len(way) = 1 /\ way[1][1] = "web identity token" /\ way[1][2] = Aws!WebIdentity(c, c.token)
    BY <1>1, <2>1, Zenon
  <2> HIDE DEF way
  <2>3. way[1][2].roleARN = c.roleARN /\ way[1][2].sessionName = c.sessionName
    BY <1>2, <2>2, Zenon
  <2>4. way[1][1] # "assume role"
    BY <2>2
  <2> QED BY <1>5, <2>2, <2>3, <2>4, Zenon DEF OneWayTo
<1>6. ASSUME c.tokenFile = "", c.token = "" PROVE OneWayTo(c, way)
  <2>1. way = <<<<"assume role", Aws!AssumeRole(c)>>>>
    BY <1>6, Zenon DEF Aws!RoleOptions
  <2>2. Len(way) = 1 /\ way[1][2] = Aws!AssumeRole(c)
    BY <1>1, <2>1, Zenon
  <2> HIDE DEF way
  <2> QED BY <1>3, <1>6, <2>2, Zenon DEF OneWayTo
<1> QED BY <1>4, <1>5, <1>6, Zenon

LEMMA ChainSound ==
  ASSUME args \in Aws!Inputs, Aws!Succeeded("chain"), result = <<Aws!Call(args)>>
  PROVE  LET role == "role arn" \in args.given \/ "AWS_ROLE_ARN" \in args.env
         IN  /\ Len(Aws!Ways) = (IF role THEN 1 ELSE 0)
             /\ ~ role => args.given \subseteq {"region", "access key", "secret key"}
             /\ role => RoleSettled(args.given, args.env, Aws!Ways)
             /\ TokenSettled(args.given, args.env, Aws!Ways)
             /\ Len(Aws!OptionsNamed("static")) = (IF Aws!BothKeys \subseteq args.given THEN 1 ELSE 0)
             /\ "access key" \in args.given <=> "secret key" \in args.given
             /\ Len(Aws!OptionsNamed("region")) = 1
             /\ "region" \in args.given => Aws!OptionsNamed("region") = <<<<"region", "option">>>>
             /\ Len(Aws!OptionsNamed("profile")) <= 1
             /\ args.call.shared /\ "AWS_PROFILE" \in args.env =>
                  Aws!OptionsNamed("profile") = <<<<"profile", "env">>>>
<1> DEFINE given == args.given
           env == args.env
           call == args.call
           c == Aws!Made(args)
           chain == Aws!GenerateCredentialChain(c, env, call)
           all == Aws!returned.options
           region == RegionPart(c)
           profile == ProfilePart(c, env, call.shared, call.defaultExists)
           static == StaticPart(c)
           roles == Aws!RoleOptions(c)
<1>1. args.fn = "chain" /\ Aws!returned = Aws!Call(args) /\ Aws!returned.err = ""
  BY Zenon DEF Aws!Succeeded, Aws!returned
<1>2. c.err = "" /\ Aws!returned = chain
  BY <1>1, Zenon DEF Aws!Call
<1>3. c = Aws!NewCredentialsConfig(given, env)
  BY DEF Aws!Made
<1>4. MadeOf(c, given, env) /\ (c.roleARN = "" => NoRoleSettings(c))
  <2> HIDE DEF c, given, env
  <2> QED BY <1>2, <1>3, MadeWell, Zenon
<1> HIDE DEF c
<1>5. /\ c.accessKey = "" <=> c.secretKey = ""
      /\ all = Aws!generateAwsConfigOptions(c, env, call.shared, call.defaultExists)
  <2>1. chain.err = "" /\ all = chain.options
    BY <1>1, <1>2, Zenon
  <2> HIDE DEF all, chain, call, env
  <2>2. (c.accessKey = "" <=> c.secretKey = "") /\ chain.options =
          Aws!generateAwsConfigOptions(c, env, call.shared, call.defaultExists)
    BY <2>1, ChainGenerated, Zenon DEF chain
  <2> QED BY <2>1, <2>2, Zenon
<1> HIDE DEF all, chain
<1>6. ByName(all, region, profile, static, Way(c), roles)
  BY <1>5, GeneratedOptions, Zenon
<1>7. /\ Aws!OptionsNamed("region") = region /\ Aws!OptionsNamed("profile") = profile
      /\ Aws!OptionsNamed("static") = static
  BY <1>6, AwsNamed DEF ByName, all
<1>8. Aws!Ways = roles
  <2>1. (NamedIn(all, "web identity file") \o NamedIn(all, "web identity token"))
          \o NamedIn(all, "assume role") = roles
    BY <1>6, WaysToRole, Zenon
  <2> QED BY <2>1, AwsNamed, Zenon DEF all, Aws!Ways
<1>9. /\ c.region # "" /\ ("region" \in given => c.region = "option")
      /\ ("access key" \in given <=> c.accessKey # "")
      /\ ("secret key" \in given <=> c.secretKey # "")
      /\ (c.roleARN # "" <=> "role arn" \in given \/ "AWS_ROLE_ARN" \in env)
  BY <1>4, Zenon DEF MadeOf, Aws!RegionOf, Aws!IfGiven, Aws!OptionThenEnv
<1>10. c.roleARN = "" => given \subseteq {"region", "access key", "secret key"}
  <2>1. given \subseteq Aws!OptionName \cup {"region"}
    BY <1>1, ChainsGiven, Zenon
  <2>2. c.roleARN = "" => /\ "role arn" \notin given /\ "session name" \notin given
                          /\ "external id" \notin given /\ "tags" \notin given
                          /\ "token file" \notin given /\ "token" \notin given
    BY <1>4, Zenon DEF MadeOf, NoRoleSettings, Aws!IfGiven, Aws!OptionThenEnv
  <2> QED BY <2>1, <2>2, Zenon DEF Aws!OptionName
<1>11. /\ "access key" \in given <=> "secret key" \in given
       /\ Len(static) = (IF Aws!BothKeys \subseteq given THEN 1 ELSE 0)
  BY <1>5, <1>9, Zenon DEF StaticPart, Aws!BothKeys
<1>12. Len(region) = 1 /\ ("region" \in given => region = <<<<"region", "option">>>>)
  BY <1>9, Zenon DEF RegionPart
<1>13. /\ Len(profile) <= 1
       /\ call.shared /\ "AWS_PROFILE" \in env => profile = <<<<"profile", "env">>>>
  <2> HIDE DEF call, env
  <2>1. Len(profile) <= 1
    <3>1. Len(<< >>) = 0
      OBVIOUS
    <3>2. \A o : Len(<<o>>) = 1
      OBVIOUS
    <3> QED BY <3>1, <3>2 DEF ProfilePart
  <2>2. ASSUME call.shared, "AWS_PROFILE" \in env PROVE profile = <<<<"profile", "env">>>>
    <3>1. Aws!ProfileOf(c, env) = "env" /\ "env" # ""
      BY <2>2 DEF Aws!ProfileOf
    <3> QED BY <2>2, <3>1 DEF ProfilePart
  <2> QED BY <2>1, <2>2
<1>14. Len(roles) = (IF c.roleARN # "" THEN 1 ELSE 0)
  <2>1. Len(<< >>) = 0 /\ (c.roleARN = "" => roles = << >>)
    BY DEF Aws!RoleOptions
  <2>2. c.roleARN # "" => Len(roles) = 1
    BY OneWay, Zenon DEF OneWayTo
  <2> HIDE DEF roles
  <2> QED BY <2>1, <2>2, Zenon
<1>15. /\ c.roleARN = IF "role arn" \in given THEN "option"
                      ELSE IF "AWS_ROLE_ARN" \in env THEN "env" ELSE ""
       /\ c.sessionName = IF "session name" \in given THEN "option"
                          ELSE IF "AWS_ROLE_SESSION_NAME" \in env THEN "env" ELSE ""
       /\ c.tokenFile = IF "token file" \in given THEN "option"
                        ELSE IF "AWS_WEB_IDENTITY_TOKEN_FILE" \in env THEN "env" ELSE ""
       /\ c.externalId = IF "external id" \in given THEN "option" ELSE ""
       /\ c.tags = IF "tags" \in given THEN "option" ELSE ""
       /\ c.token = IF "token" \in given THEN "option" ELSE ""
  BY <1>4, Zenon DEF MadeOf, Aws!OptionThenEnv, Aws!IfGiven
<1>16. c.roleARN # "" => RoleSettled(given, env, roles)
  <2> SUFFICES ASSUME c.roleARN # "" PROVE RoleSettled(given, env, roles)
    OBVIOUS
  <2>1. /\ roles[1][2].roleARN = c.roleARN /\ roles[1][2].sessionName = c.sessionName
        /\ roles[1][1] = "assume role" =>
             roles[1][2].externalId = c.externalId /\ roles[1][2].tags = c.tags
    BY OneWay, Zenon DEF OneWayTo
  <2> HIDE DEF roles, given, env
  <2> QED BY <1>15, <2>1, Zenon DEF RoleSettled
<1>17. TokenSettled(given, env, roles)
  <2>1. "token file" \in given \/ "token" \in given => c.roleARN # ""
    BY <1>4, <1>15, Zenon DEF NoRoleSettings
  <2>2. c.roleARN # "" =>
          /\ c.tokenFile # "" =>
               roles[1][1] = "web identity file" /\ roles[1][2].token = c.tokenFile
          /\ c.tokenFile = "" /\ c.token # "" => roles[1][1] = "web identity token"
    BY OneWay, Zenon DEF OneWayTo
  <2> HIDE DEF roles, given, env
  <2> QED BY <1>15, <2>1, <2>2, Zenon DEF TokenSettled
<1> HIDE DEF region, profile, static, roles
<1> QED BY <1>7, <1>8, <1>9, <1>10, <1>11, <1>12, <1>13, <1>14, <1>16, <1>17, Zenon

LEMMA ClientSound ==
  ASSUME args \in Aws!Inputs, Aws!Succeeded("client"), result = <<Aws!Call(args)>>
  PROVE  /\ Aws!returned.by = "given" => ~ args.call.apiFails
         /\ Aws!returned.from = "chain" =>
              ("access key" \in args.given <=> "secret key" \in args.given) /\ args.call.loads
<1> DEFINE c == Aws!Made(args)
           given == args.given
           env == args.env
           call == args.call
           chain == Aws!GenerateCredentialChain(c, env, call)
<1>1. args.fn = "client" /\ Aws!returned = Aws!Client(c, env, call) /\ Aws!returned.err = ""
  BY Zenon DEF Aws!Succeeded, Aws!returned, Aws!Call
<1>2. args \in Aws!ClientInputs
  <2>1. args \notin Aws!RetrieveInputs
    BY <1>1, Zenon DEF Aws!RetrieveInputs
  <2>2. args \notin Aws!RegionInputs
    BY <1>1, Zenon DEF Aws!RegionInputs
  <2>3. \A givens, envs, calls : args \notin Aws!Chains(givens, envs, calls)
    BY <1>1, Zenon DEF Aws!Chains
  <2>4. args \notin Aws!ChainInputs
    BY <2>3, Zenon DEF Aws!ChainInputs
  <2> QED BY <2>1, <2>2, <2>4 DEF Aws!Inputs
<1>3. given \subseteq Aws!BothKeys /\ env = {}
  BY <1>2, Zenon DEF Aws!ClientInputs, Aws!BothKeys
<1>4. /\ Aws!returned.by = "given" => ~ call.apiFails
      /\ Aws!returned.from = "chain" => chain.err = ""
  <2> DEFINE made == [err |-> "", from |-> IF call.awsConfig THEN "given" ELSE "chain",
                      by |-> IF call.apiFunc THEN "given"
                             ELSE IF call.resolver THEN "sdk at resolver" ELSE "sdk"]
  <2>1. \A what : Aws!Error(what).err = what
    BY DEF Aws!Error
  <2>2. /\ ~ (~ call.awsConfig /\ chain.err # "") /\ ~ (call.apiFunc /\ call.apiFails)
        /\ Aws!returned = made
    BY <1>1, <2>1, Zenon DEF Aws!Client
  <2>3. made.by = "given" => call.apiFunc
    OBVIOUS
  <2>4. made.from = "chain" => ~ call.awsConfig
    OBVIOUS
  <2> HIDE DEF made, chain, call
  <2> QED BY <2>2, <2>3, <2>4, Zenon
<1>5. c = Aws!NewCredentialsConfig(given, env)
  BY DEF Aws!Made
<1> HIDE DEF c, given, env, call
<1>6. MadeOf(c, given, env)
  BY <1>3, <1>5, ConfigMade, Zenon
<1>7. Aws!returned.from = "chain" => (c.accessKey = "" <=> c.secretKey = "") /\ call.loads
  BY <1>4, ChainGenerated, Zenon
<1>8. Aws!returned.from = "chain" => ("access key" \in given <=> "secret key" \in given)
  BY <1>6, <1>7, Zenon DEF MadeOf, Aws!IfGiven
<1> QED BY <1>4, <1>7, <1>8, Zenon DEF given, call

LEMMA KeysRetrieved ==
  ASSUME Aws!Succeeded("retrieve"), result = <<Aws!Call(args)>>
  PROVE  /\ args.call.retrieved
         /\ "access key" \in args.given <=> "secret key" \in args.given
         /\ Len(Aws!OptionsNamed("static")) = (IF Aws!BothKeys \subseteq args.given THEN 1 ELSE 0)
<1> DEFINE given == args.given
           env == args.env
           call == args.call
           c == [accessKey |-> Aws!IfGiven(given, "access key"),
                 secretKey |-> Aws!IfGiven(given, "secret key"),
                 region |-> "", roleARN |-> "", tokenFile |-> "", token |-> "", profile |-> ""]
           chain == Aws!GenerateCredentialChain(c, env, call)
           all == Aws!returned.options
<1>1. Aws!returned = Aws!RetrieveCreds(given, env, call) /\ Aws!returned.err = ""
  BY Zenon DEF Aws!Succeeded, Aws!returned, Aws!Call
<1>2. /\ c.accessKey = Aws!IfGiven(given, "access key")
      /\ c.secretKey = Aws!IfGiven(given, "secret key")
  OBVIOUS
<1>3. Aws!returned = IF chain.err # "" THEN chain
                     ELSE IF ~ call.retrieved THEN Aws!Error("retrieve") ELSE chain
  BY <1>1, Zenon DEF Aws!RetrieveCreds
<1> HIDE DEF c, chain, given, env, call
<1>4. chain.err = "" /\ call.retrieved /\ Aws!returned = chain
  <2>1. chain.err = ""
    BY <1>1, <1>3, Zenon
  <2>2. Aws!Error("retrieve").err # ""
    BY DEF Aws!Error
  <2>3. call.retrieved
    BY <1>1, <1>3, <2>1, <2>2, Zenon
  <2> QED BY <1>3, <2>1, <2>3, Zenon
<1>5. /\ c.accessKey = "" <=> c.secretKey = ""
      /\ all = Aws!generateAwsConfigOptions(c, env, call.shared, call.defaultExists)
  <2>1. (c.accessKey = "" <=> c.secretKey = "") /\ chain.options =
          Aws!generateAwsConfigOptions(c, env, call.shared, call.defaultExists)
    BY <1>4, ChainGenerated, Zenon DEF chain
  <2> QED BY <1>4, <2>1, Zenon
<1>6. Aws!OptionsNamed("static") = StaticPart(c)
  <2> HIDE DEF all
  <2>1. ByName(all, RegionPart(c), ProfilePart(c, env, call.shared, call.defaultExists),
               StaticPart(c), Way(c), Aws!RoleOptions(c))
    BY <1>5, GeneratedOptions, Zenon
  <2>2. NamedIn(all, "static") = StaticPart(c)
    BY <2>1 DEF ByName
  <2> QED BY <2>2, AwsNamed DEF all
<1>7. /\ "access key" \in given <=> c.accessKey # ""
      /\ "secret key" \in given <=> c.secretKey # ""
  BY <1>2, Zenon DEF Aws!IfGiven
<1>8. Len(StaticPart(c)) = (IF Aws!BothKeys \subseteq given THEN 1 ELSE 0)
  <2>1. Aws!BothKeys \subseteq given <=> "access key" \in given /\ "secret key" \in given
    BY DEF Aws!BothKeys
  <2> QED BY <1>7, <2>1, Zenon DEF StaticPart
<1> QED BY <1>4, <1>5, <1>6, <1>7, <1>8, Zenon DEF given, call

LEMMA RegionSound ==
  ASSUME args \in Aws!Inputs, Aws!Succeeded("region"), result = <<Aws!Call(args)>>
  PROVE  /\ Aws!returned.region # "configured" => ~ args.configured /\ args.sdk # "error"
         /\ Aws!returned.region = "default" => args.sdk = "none" /\ args.metadata = "none"
<1>1. args.fn = "region" /\ Aws!returned = Aws!GetRegion(args) /\ Aws!returned.err = ""
  BY Zenon DEF Aws!Succeeded, Aws!returned, Aws!Call
<1>2. args \in Aws!RegionInputs
  <2>1. args \notin Aws!RetrieveInputs
    BY <1>1, Zenon DEF Aws!RetrieveInputs
  <2>2. args \notin Aws!ClientInputs
    BY <1>1, Zenon DEF Aws!ClientInputs
  <2>3. \A givens, envs, calls : args \notin Aws!Chains(givens, envs, calls)
    BY <1>1, Zenon DEF Aws!Chains
  <2>4. args \notin Aws!ChainInputs
    BY <2>3, Zenon DEF Aws!ChainInputs
  <2> QED BY <2>1, <2>2, <2>4 DEF Aws!Inputs
<1>3. args.sdk \in {"error", "region", "none"} /\ args.metadata \in {"error", "region", "none"}
  BY <1>2 DEF Aws!RegionInputs
<1> QED BY <1>1, <1>3, Zenon DEF Aws!GetRegion, Aws!Error

(* awsutil: a chain names exactly the way to the role that was configured, *)
(* with role and session name of the caller before the environment's; and  *)
(* static keys are used in pairs (generateAwsConfigOptions,                *)
(* GenerateCredentialChain, IAMClient, GetRegion).                         *)
THEOREM CredentialsAsConfigured == MCSpec => []CredentialsSound
<1>1. Answered => CredentialsSound
  <2> SUFFICES ASSUME Answered, subject = "credentials" PROVE Aws!CredentialsSound
    BY DEF CredentialsSound
  <2>1. args \in Aws!Inputs /\ result \in {<< >>, <<Aws!Call(args)>>}
    BY DEF Answered
  <2>2. ASSUME NEW fn, Aws!Succeeded(fn) PROVE result = <<Aws!Call(args)>>
    BY <2>1, <2>2, Zenon DEF Aws!Succeeded, Aws!Pending
  <2>3. Aws!Succeeded("client") =>
          /\ Aws!returned.by = "given" => ~ args.call.apiFails
          /\ Aws!returned.from = "chain" =>
               ("access key" \in args.given <=> "secret key" \in args.given) /\ args.call.loads
    BY <2>1, <2>2, ClientSound, Zenon
  <2>4. Aws!Succeeded("chain") =>
          LET role == "role arn" \in args.given \/ "AWS_ROLE_ARN" \in args.env
          IN  /\ Len(Aws!Ways) = (IF role THEN 1 ELSE 0)
              /\ ~ role => args.given \subseteq {"region", "access key", "secret key"}
              /\ role => RoleSettled(args.given, args.env, Aws!Ways)
              /\ TokenSettled(args.given, args.env, Aws!Ways)
              /\ Len(Aws!OptionsNamed("static"))
                   = (IF Aws!BothKeys \subseteq args.given THEN 1 ELSE 0)
              /\ "access key" \in args.given <=> "secret key" \in args.given
              /\ Len(Aws!OptionsNamed("region")) = 1
              /\ "region" \in args.given => Aws!OptionsNamed("region") = <<<<"region", "option">>>>
              /\ Len(Aws!OptionsNamed("profile")) <= 1
              /\ args.call.shared /\ "AWS_PROFILE" \in args.env =>
                   Aws!OptionsNamed("profile") = <<<<"profile", "env">>>>
    BY <2>1, <2>2, ChainSound, Zenon
  <2> QED BY <2>1, <2>2, <2>3, <2>4, KeysRetrieved, RegionSound, Zenon
          DEF Aws!CredentialsSound, RoleSettled, TokenSettled
<1> QED BY <1>1, Answers, PTL

-----------------------------------------------------------------------------
(* KvBuilder: a behaviour about the builder is one of its module.          *)
LEMMA BuilderStep ==
  ASSUME subject = "builder", [MCNext]_allVars
  PROVE  subject' = "builder" /\ [Builder!Next]_(Builder!vars)
BY DEF MCNext, NextCall, allVars, builderVars, Builder!vars

LEMMA BuilderStart ==
  ASSUME subject = "builder", MCInit PROVE Builder!Init
BY DEF MCInit, InitCall

LEMMA BuilderOnly == \A s, S : Builder!Only(s, S) = Only(s, S)
<1>1. ASSUME NEW s, NEW S PROVE Builder!Only(s, S) = Only(s, S)
  <2> DEFINE parts == [i \in DOMAIN s |-> IF s[i] \in S THEN <<s[i]>> ELSE << >>]
  <2>1. Builder!Only(s, S) = Builder!FlattenSeq(parts)
    BY DEF Builder!Only
  <2>2. Only(s, S) = FlattenSeq(parts)
    BY DEF Only
  <2> HIDE DEF parts
  <2>3. Builder!FlattenSeq(parts) = FlattenSeq(parts)
    BY DEF Builder!FlattenSeq, FlattenSeq
  <2> QED BY <2>1, <2>2, <2>3
<1> QED BY <1>1

-----------------------------------------------------------------------------
(* KvBuilder: the values of a map, and what it holds for a key.            *)
Given == {"@", "", "text", "file", "stdin"}
Texts == Given \cup {"json", "json1", "json2"}
Slice == Seq(Texts)
MapTyped(map) == \A k \in DOMAIN map : Builder!AsSlice(map[k]) \in Slice
Holds(map, key) == IF key \in DOMAIN map THEN Builder!AsSlice(map[key]) ELSE << >>

LEMMA HoldsTyped ==
  ASSUME NEW map, MapTyped(map), NEW key PROVE Holds(map, key) \in Slice
<1>1. << >> \in Slice
  BY DEF Slice
<1> QED BY <1>1 DEF Holds, MapTyped

LEMMA Slices ==
  /\ \A x \in Texts : Builder!AsSlice(Builder!One(x)) = <<x>>
  /\ \A of \in Slice : Builder!AsSlice(Builder!List(of)) = of
  /\ \A val \in Builder!JsonValue : Builder!AsSlice(val) \in Slice
<1>1. ASSUME NEW x \in Texts PROVE Builder!AsSlice(Builder!One(x)) = <<x>>
  BY Zenon DEF Texts, Given, Builder!AsSlice, Builder!One, Builder!EmptyMap, Builder!Null
<1>2. ASSUME NEW of \in Slice PROVE Builder!AsSlice(Builder!List(of)) = of
  BY Zenon DEF Builder!AsSlice, Builder!List, Builder!EmptyMap, Builder!Null, Slice
<1>3. ASSUME NEW val \in Builder!JsonValue PROVE Builder!AsSlice(val) \in Slice
  <2>1. CASE val \in {Builder!EmptyMap, Builder!Null}
    BY <2>1 DEF Builder!AsSlice, Slice
  <2>2. CASE val = Builder!One("json")
    <3>1. "json" \in Texts
      BY DEF Texts
    <3>2. <<"json">> \in Slice
      BY <3>1 DEF Slice
    <3> QED BY <2>2, <1>1, <3>1, <3>2
  <2>3. CASE val = Builder!List(<<"json1", "json2">>)
    <3>1. "json1" \in Texts /\ "json2" \in Texts
      BY DEF Texts
    <3>2. <<"json1", "json2">> \in Slice
      BY <3>1 DEF Slice
    <3> QED BY <2>3, <1>2, <3>2
  <2> QED BY <1>3, <2>1, <2>2, <2>3 DEF Builder!JsonValue
<1> QED BY <1>1, <1>2, <1>3

(* A value that is put comes last among those of its key.                  *)
LEMMA PutHolds ==
  ASSUME NEW map, MapTyped(map), NEW key, NEW v \in Texts
  PROVE  /\ MapTyped(Builder!Put(map, key, v))
         /\ \A k : Holds(Builder!Put(map, key, v), k) =
                     IF k = key THEN Holds(map, k) \o <<v>> ELSE Holds(map, k)
<1> DEFINE put == Builder!Put(map, key, v)
           new == IF key \in DOMAIN map THEN Builder!List(Append(Builder!AsSlice(map[key]), v))
                  ELSE Builder!One(v)
<1>1. DOMAIN put = DOMAIN map \cup {key}
  BY DEF Builder!Put
<1>2. put[key] = new
  BY <1>1 DEF Builder!Put
<1>3. \A k \in DOMAIN map : k # key => put[k] = map[k]
  BY <1>1 DEF Builder!Put
<1>4. Builder!AsSlice(new) = Holds(map, key) \o <<v>> /\ Holds(map, key) \o <<v>> \in Slice
  <2>1. CASE key \in DOMAIN map
    <3> DEFINE was == Builder!AsSlice(map[key])
    <3>1. was \in Slice /\ Holds(map, key) = was
      BY <2>1 DEF MapTyped, Holds
    <3> HIDE DEF was
    <3>2. Append(was, v) = was \o <<v>> /\ was \o <<v>> \in Slice
      BY <3>1 DEF Slice
    <3>3. new = Builder!List(was \o <<v>>)
      BY <2>1, <3>2 DEF was
    <3> QED BY <3>1, <3>2, <3>3, Slices
  <2>2. CASE key \notin DOMAIN map
    <3>1. Builder!AsSlice(new) = <<v>>
      BY <2>2, Slices
    <3>2. Holds(map, key) = << >>
      BY <2>2 DEF Holds
    <3>3. << >> \o <<v>> = <<v>> /\ <<v>> \in Slice
      BY DEF Slice
    <3> QED BY <3>1, <3>2, <3>3
  <2> QED BY <2>1, <2>2
<1> HIDE DEF put, new
<1>5. MapTyped(put)
  BY <1>1, <1>2, <1>3, <1>4 DEF MapTyped
<1>6. ASSUME NEW k PROVE Holds(put, k) = IF k = key THEN Holds(map, k) \o <<v>> ELSE Holds(map, k)
  BY <1>1, <1>2, <1>3, <1>4, Zenon DEF Holds
<1> QED BY <1>5, <1>6 DEF put

(* A document replaces what there is for what it says something of.        *)
SaysOf(doc, key) == doc.kind = "null" \/ (doc.kind = "object" /\ doc.key = key)
SaidIn(doc) == IF doc.kind = "object" THEN Builder!AsSlice(doc.val) ELSE << >>

LEMMA DecodedHolds ==
  ASSUME NEW map, MapTyped(map), NEW doc \in Builder!Document, doc.kind # "no object"
  PROVE  /\ MapTyped(Builder!Decoded(map, doc))
         /\ SaidIn(doc) \in Slice
         /\ \A k : Holds(Builder!Decoded(map, doc), k) =
                     IF SaysOf(doc, k) THEN SaidIn(doc) ELSE Holds(map, k)
<1> DEFINE new == Builder!Decoded(map, doc)
<1>1. CASE doc.kind = "object"
  <2>1. doc.val \in Builder!JsonValue
    BY <1>1, Zenon DEF Builder!Document
  <2>2. DOMAIN new = DOMAIN map \cup {doc.key}
    BY <1>1 DEF Builder!Decoded
  <2>3. new[doc.key] = doc.val
    BY <1>1, <2>2 DEF Builder!Decoded
  <2>4. \A k \in DOMAIN map : k # doc.key => new[k] = map[k]
    BY <1>1, <2>2 DEF Builder!Decoded
  <2>5. SaidIn(doc) = Builder!AsSlice(doc.val) /\ SaidIn(doc) \in Slice
    BY <1>1, <2>1, Slices DEF SaidIn
  <2>6. \A k : SaysOf(doc, k) <=> k = doc.key
    BY <1>1 DEF SaysOf
  <2> HIDE DEF new
  <2>7. MapTyped(new)
    BY <2>2, <2>3, <2>4, <2>5, Zenon DEF MapTyped
  <2>8. ASSUME NEW k PROVE Holds(new, k) = IF SaysOf(doc, k) THEN SaidIn(doc) ELSE Holds(map, k)
    BY <2>2, <2>3, <2>4, <2>5, <2>6, Zenon DEF Holds
  <2> QED BY <2>5, <2>7, <2>8, Zenon DEF new
<1>2. CASE doc.kind = "null"
  <2>1. new = << >> /\ SaidIn(doc) = << >> /\ << >> \in Slice /\ DOMAIN << >> = {}
    BY <1>2 DEF Builder!Decoded, SaidIn, Slice
  <2>2. \A k : SaysOf(doc, k)
    BY <1>2 DEF SaysOf
  <2> HIDE DEF new
  <2>3. MapTyped(new)
    BY <2>1, Zenon DEF MapTyped
  <2>4. \A k : Holds(new, k) = << >>
    BY <2>1, Zenon DEF Holds
  <2> QED BY <2>1, <2>2, <2>3, <2>4, Zenon DEF new
<1>3. doc.kind \in {"object", "null"}
  BY Zenon DEF Builder!Document
<1> QED BY <1>1, <1>2, <1>3, Zenon

-----------------------------------------------------------------------------
(* KvBuilder: what the arguments taken so far gave.                        *)
LastIn(S) == IF S = {} THEN 0 ELSE CHOOSE i \in S : \A j \in S : j <= i

LEMMA LastIsIn ==
  ASSUME NEW n \in Nat, NEW S, S \subseteq 1..n
  PROVE  LastIn(S) \in 0..n /\ (S # {} => LastIn(S) \in S)
<1>1. CASE S = {}
  BY <1>1 DEF LastIn
<1>2. CASE S # {}
  <2> DEFINE T == {n - i : i \in S}
  <2>1. T \subseteq Nat /\ T # {}
    <3>1. PICK i \in S : TRUE
      BY <1>2
    <3>2. n - i \in T
      BY <3>1
    <3>3. ASSUME NEW j \in S PROVE n - j \in Nat
      <4>1. j \in 1..n
        OBVIOUS
      <4> QED BY <4>1
    <3> QED BY <3>2, <3>3
  <2>2. PICK m \in T : \A t \in T : m <= t
    BY <2>1, Smallest
  <2>3. PICK i \in S : m = n - i
    BY <2>2
  <2>4. ASSUME NEW j \in S PROVE j <= i
    <3>1. m <= n - j
      BY <2>2
    <3> QED BY <2>3, <3>1
  <2>5. \E k \in S : \A j \in S : j <= k
    BY <2>3, <2>4
  <2>6. LastIn(S) \in S
    <3>1. LastIn(S) = CHOOSE k \in S : \A j \in S : j <= k
      BY <1>2 DEF LastIn
    <3> HIDE DEF T
    <3> QED BY <2>5, <3>1, Zenon
  <2>7. S \subseteq 0..n
    OBVIOUS
  <2> QED BY <2>6, <2>7, Zenon
<1> QED BY <1>1, <1>2

LEMMA LastAdded ==
  ASSUME NEW n \in Nat, NEW S, S \subseteq 1..n PROVE LastIn(S \cup {n + 1}) = n + 1
<1> DEFINE T == S \cup {n + 1}
<1>1. n + 1 \in T /\ \A j \in T : j <= n + 1
  OBVIOUS
<1>2. LastIn(T) = CHOOSE i \in T : \A j \in T : j <= i
  BY <1>1 DEF LastIn
<1>3. T \subseteq Nat
  OBVIOUS
<1> HIDE DEF T
<1>4. ASSUME NEW i \in T, \A j \in T : j <= i PROVE i = n + 1
  BY <1>1, <1>3, <1>4
<1> QED BY <1>1, <1>2, <1>4 DEF T

-----------------------------------------------------------------------------
(* KvBuilder: the arguments that were taken.                               *)
SaidAt(key) == {i \in DOMAIN log : Builder!Says(log[i], key)}
ValuesFor(key) == Only(SubSeq(log, Builder!LastSaid(key) + 1, Len(log)), Builder!ValuesOf(key))
Contents(values) == [i \in DOMAIN values |-> Builder!ContentOf(values[i].from)]

(* What is there to be put in front of what was given.                     *)
Before(key) ==
  IF Builder!LastSaid(key) = 0 THEN << >> ELSE Builder!SaidBy(log[Builder!LastSaid(key)])

LEMMA SinceIs ==
  ASSUME NEW key
  PROVE  /\ Builder!LastSaid(key) = LastIn(SaidAt(key))
         /\ Builder!Since(key) = Before(key) \o Contents(ValuesFor(key))
<1>1. Builder!LastSaid(key) = LastIn(SaidAt(key))
  BY Zenon DEF Builder!LastSaid, LastIn, SaidAt
<1> DEFINE rest == SubSeq(log, Builder!LastSaid(key) + 1, Len(log))
<1>2. Builder!Only(rest, Builder!ValuesOf(key)) = ValuesFor(key)
  BY BuilderOnly DEF ValuesFor
<1>3. Builder!Since(key) = Before(key) \o Contents(Builder!Only(rest, Builder!ValuesOf(key)))
  BY Zenon DEF Builder!Since, Before, Contents
<1> QED BY <1>1, <1>2, <1>3

LEMMA ContentsTyped ==
  ASSUME NEW key, NEW values \in Seq(Builder!Arg \cap Builder!ValuesOf(key))
  PROVE  /\ Contents(values) \in Slice
         /\ \A arg \in Builder!ValuesOf(key) :
              /\ Builder!ContentOf(arg.from) \in Texts
              /\ Contents(values \o <<arg>>) = Contents(values) \o <<Builder!ContentOf(arg.from)>>
<1>1. ASSUME NEW arg \in Builder!ValuesOf(key) PROVE Builder!ContentOf(arg.from) \in Texts
  <2>1. arg.from \in {"text", "escaped", "empty text", "file", "stdin"}
    BY Zenon DEF Builder!ValuesOf, Builder!Arg
  <2>2. Builder!ContentOf(arg.from) \in Given
    BY <2>1, Zenon DEF Builder!ContentOf, Given
  <2> QED BY <2>2 DEF Texts
<1> DEFINE g == [arg \in Builder!ValuesOf(key) |-> Builder!ContentOf(arg.from)]
<1>2. Takes(g, Builder!ValuesOf(key), Texts)
  BY <1>1 DEF Takes
<1>3. ASSUME NEW s \in Seq(Builder!ValuesOf(key)) PROVE Contents(s) = Mapped(g, s)
  <2>1. DOMAIN s = 1..Len(s) /\ \A i \in 1..Len(s) : s[i] \in Builder!ValuesOf(key)
    OBVIOUS
  <2> QED BY <2>1 DEF Contents, Mapped
<1>4. values \in Seq(Builder!ValuesOf(key))
  <2>1. Builder!Arg \cap Builder!ValuesOf(key) = Builder!ValuesOf(key)
    BY DEF Builder!ValuesOf
  <2> QED BY <2>1
<1>5. Contents(values) \in Slice
  BY <1>2, <1>3, <1>4, MappedType DEF Slice
<1>6. ASSUME NEW arg \in Builder!ValuesOf(key)
      PROVE  Contents(values \o <<arg>>) = Contents(values) \o <<Builder!ContentOf(arg.from)>>
  <2>1. <<arg>> \in Seq(Builder!ValuesOf(key)) /\ values \o <<arg>> \in Seq(Builder!ValuesOf(key))
    BY <1>4
  <2>2. g[arg] = Builder!ContentOf(arg.from)
    OBVIOUS
  <2> HIDE DEF g
  <2>3. Mapped(g, values \o <<arg>>) = Mapped(g, values) \o Mapped(g, <<arg>>)
    <3> DEFINE V == Builder!ValuesOf(key)
               last == <<arg>>
    <3>1. Takes(g, V, Texts) /\ values \in Seq(V) /\ last \in Seq(V)
      BY <1>2, <1>4, <2>1
    <3> HIDE DEF V, last
    <3>2. Mapped(g, values \o last) = Mapped(g, values) \o Mapped(g, last)
      BY <3>1, MappedConcat
    <3> QED BY <3>2 DEF last
  <2>4. Mapped(g, <<arg>>) = <<g[arg]>>
    BY MappedOne
  <2> QED BY <1>3, <1>4, <2>1, <2>2, <2>3, <2>4
<1> QED BY <1>1, <1>5, <1>6

(* The argument taken last, and those before it.                           *)
LEMMA LogGrows ==
  ASSUME log \in Seq(Builder!Arg), NEW arg \in Builder!Arg, log' = Append(log, arg)
  PROVE  /\ log' = log \o <<arg>> /\ log' \in Seq(Builder!Arg) /\ Len(log') = Len(log) + 1
         /\ Len(log) \in Nat /\ log'[Len(log) + 1] = arg
         /\ \A i \in 1..Len(log) : log'[i] = log[i] /\ log[i] \in Builder!Arg
OBVIOUS

LEMMA LastSaidTyped ==
  ASSUME log \in Seq(Builder!Arg), NEW key
  PROVE  /\ Builder!LastSaid(key) \in 0..Len(log) /\ SaidAt(key) \subseteq 1..Len(log)
         /\ Builder!LastSaid(key) # 0 =>
              Builder!Says(log[Builder!LastSaid(key)], key) /\ log[Builder!LastSaid(key)] \in Builder!Arg
<1>1. Len(log) \in Nat /\ DOMAIN log = 1..Len(log) /\ \A i \in 1..Len(log) : log[i] \in Builder!Arg
  OBVIOUS
<1>2. SaidAt(key) \subseteq 1..Len(log)
  BY <1>1 DEF SaidAt
<1>3. LastIn(SaidAt(key)) \in 0..Len(log) /\ (SaidAt(key) # {} => LastIn(SaidAt(key)) \in SaidAt(key))
  BY <1>1, <1>2, LastIsIn
<1>4. SaidAt(key) = {} => LastIn(SaidAt(key)) = 0
  BY DEF LastIn
<1>5. LastIn(SaidAt(key)) \in SaidAt(key) =>
        Builder!Says(log[LastIn(SaidAt(key))], key) /\ LastIn(SaidAt(key)) \in 1..Len(log)
  BY <1>2 DEF SaidAt
<1> QED BY <1>1, <1>2, <1>3, <1>4, <1>5, SinceIs

LEMMA SameBelow ==
  ASSUME NEW n \in Nat, NEW A, NEW B, A \subseteq 1..n, B \subseteq 1..n \cup {n + 1},
         n + 1 \notin B, \A i \in 1..n : i \in B <=> i \in A
  PROVE  B = A
<1>1. B \subseteq 1..n
  OBVIOUS
<1> QED BY <1>1, Zenon

LEMMA LastSaidMoves ==
  ASSUME log \in Seq(Builder!Arg), NEW arg \in Builder!Arg, log' = Append(log, arg), NEW key
  PROVE  Builder!LastSaid(key)' =
           IF Builder!Says(arg, key) THEN Len(log) + 1 ELSE Builder!LastSaid(key)
<1>1. DOMAIN log = 1..Len(log) /\ DOMAIN log' = 1..Len(log) + 1
  BY LogGrows
<1>2. SaidAt(key)' = {i \in DOMAIN log' : Builder!Says(log'[i], key)}
  BY DEF SaidAt, Builder!Says, Builder!IsDocument
<1>3. SaidAt(key)' = IF Builder!Says(arg, key) THEN SaidAt(key) \cup {Len(log) + 1} ELSE SaidAt(key)
  <2>1. ASSUME NEW i \in 1..Len(log) PROVE i \in SaidAt(key)' <=> i \in SaidAt(key)
    <3>1. log'[i] = log[i] /\ i \in DOMAIN log /\ i \in DOMAIN log'
      BY <1>1, LogGrows
    <3> QED BY <1>2, <3>1 DEF SaidAt
  <2>2. Len(log) + 1 \in SaidAt(key)' <=> Builder!Says(arg, key)
    <3>1. Len(log) + 1 \in DOMAIN log' /\ log'[Len(log) + 1] = arg
      BY <1>1, LogGrows
    <3> QED BY <1>2, <3>1
  <2>3. SaidAt(key) \subseteq 1..Len(log) /\ SaidAt(key)' \subseteq 1..Len(log) + 1 /\ Len(log) \in Nat
    BY <1>1, LogGrows DEF SaidAt
  <2>4. SaidAt(key)' \subseteq 1..Len(log) \cup {Len(log) + 1}
    BY <2>3
  <2>5. CASE Builder!Says(arg, key)
    BY <2>1, <2>2, <2>3, <2>4, <2>5
  <2>6. CASE ~ Builder!Says(arg, key)
    <3>1. Len(log) + 1 \notin SaidAt(key)'
      BY <2>2, <2>6
    <3> QED BY <2>1, <2>3, <2>4, <2>6, <3>1, SameBelow
  <2> QED BY <2>5, <2>6
<1>4. SaidAt(key) \subseteq 1..Len(log) /\ Len(log) \in Nat
  BY <1>1, LogGrows DEF SaidAt
<1>5. Builder!LastSaid(key)' = LastIn(SaidAt(key)')
  BY Zenon DEF Builder!LastSaid, LastIn, SaidAt
<1>6. LastIn(SaidAt(key) \cup {Len(log) + 1}) = Len(log) + 1
  BY <1>4, LastAdded
<1> QED BY <1>3, <1>5, <1>6, SinceIs

LEMMA ValuesTypedFor ==
  ASSUME log \in Seq(Builder!Arg), NEW key
  PROVE  ValuesFor(key) \in Seq(Builder!Arg \cap Builder!ValuesOf(key))
<1>1. SubSeq(log, Builder!LastSaid(key) + 1, Len(log)) \in Seq(Builder!Arg)
  <2>1. Builder!LastSaid(key) \in 0..Len(log)
    BY LastSaidTyped
  <2> HIDE DEF Builder!LastSaid
  <2> QED BY <2>1
<1> QED BY <1>1, OnlyType DEF ValuesFor

LEMMA SliceTakenOver ==
  ASSUME NEW R, NEW s \in Seq(R), NEW x \in R, NEW m \in 0..Len(s)
  PROVE  SubSeq(s \o <<x>>, m + 1, Len(s) + 1) = SubSeq(s, m + 1, Len(s)) \o <<x>>
<1> DEFINE n == Len(s)
           t == s \o <<x>>
           a == SubSeq(s, m + 1, n)
           b == <<x>>
           c == SubSeq(t, m + 1, n + 1)
<1>1. n \in Nat /\ m \in Nat /\ m <= n
  OBVIOUS
<1>2. t \in Seq(R) /\ Len(t) = n + 1 /\ t[n + 1] = x /\ \A i \in 1..n : t[i] = s[i]
  OBVIOUS
<1>3. b \in Seq(R) /\ Len(b) = 1 /\ b[1] = x
  OBVIOUS
<1>4. a \in Seq(R) /\ Len(a) = n - m /\ \A i \in 1..n - m : a[i] = s[m + i]
  BY <1>1
<1> HIDE DEF a, b, t
<1>5. c \in Seq(R) /\ Len(c) = n + 1 - m /\ \A i \in 1..n + 1 - m : c[i] = t[m + i]
  BY <1>1, <1>2
<1> HIDE DEF c
<1>6. ASSUME NEW i \in 1..Len(a) PROVE c[i] = a[i]
  <2>1. i \in 1..n - m /\ i \in 1..n + 1 - m /\ m + i \in 1..n
    BY <1>1, <1>4
  <2> QED BY <1>2, <1>4, <1>5, <2>1
<1>7. ASSUME NEW i \in 1..Len(b) PROVE c[Len(a) + i] = b[i]
  <2>1. i = 1 /\ Len(a) + i \in 1..n + 1 - m /\ m + (Len(a) + i) = n + 1
    BY <1>1, <1>3, <1>4
  <2> QED BY <1>2, <1>3, <1>5, <2>1
<1>8. Len(c) = Len(a) + Len(b)
  BY <1>1, <1>3, <1>4, <1>5
<1>9. c = a \o b
  BY <1>3, <1>4, <1>5, <1>6, <1>7, <1>8, ConcatIs
<1> QED BY <1>9 DEF a, b, c, t

LEMMA SliceOverTheEnd ==
  ASSUME NEW s, NEW n \in Nat PROVE SubSeq(s, n + 1, n) = << >>
OBVIOUS

(* A document that says something of a key starts the list of its values   *)
(* anew; a value of the key is added to it, and nothing else counts.       *)
LEMMA SinceMoves ==
  ASSUME log \in Seq(Builder!Arg), NEW arg \in Builder!Arg, log' = Append(log, arg), NEW key
  PROVE  /\ Builder!Says(arg, key) => Builder!Since(key)' = Builder!SaidBy(arg) \o << >>
         /\ arg \in Builder!ValuesOf(key) =>
              \E b, c : /\ Builder!Since(key) = b \o c /\ c \in Slice
                       /\ Builder!Since(key)' = b \o (c \o <<Builder!ContentOf(arg.from)>>)
                       /\ b = Before(key)
         /\ ~ Builder!Says(arg, key) /\ arg \notin Builder!ValuesOf(key) =>
              Builder!Since(key)' = Builder!Since(key)
<1> DEFINE n == Len(log)
           last == Builder!LastSaid(key)
           V == Builder!ValuesOf(key)
<1>1. /\ log' = log \o <<arg>> /\ n \in Nat /\ Len(log') = n + 1 /\ log'[n + 1] = arg
      /\ \A i \in 1..n : log'[i] = log[i]
  BY LogGrows
<1>2. /\ ValuesFor(key)' = Only(SubSeq(log', Builder!LastSaid(key)' + 1, Len(log')), V)
      /\ Before(key)' = IF Builder!LastSaid(key)' = 0 THEN << >>
                        ELSE Builder!SaidBy(log'[Builder!LastSaid(key)'])
      /\ Builder!Since(key)' = Before(key)' \o Contents(ValuesFor(key)')
  <2>1. ValuesFor(key)' = Only(SubSeq(log', Builder!LastSaid(key)' + 1, Len(log')), V)
    BY Zenon DEF ValuesFor
  <2>2. Before(key)' = IF Builder!LastSaid(key)' = 0 THEN << >>
                        ELSE Builder!SaidBy(log'[Builder!LastSaid(key)'])
    BY Zenon DEF Before
  <2>3. Builder!Since(key)' = Before(key)' \o Contents(ValuesFor(key)')
    <3> DEFINE rest == SubSeq(log', Builder!LastSaid(key)' + 1, Len(log'))
    <3>1. Builder!Only(rest, V) = ValuesFor(key)'
      BY <2>1, BuilderOnly
    <3>2. Builder!Since(key)' = Before(key)' \o Contents(Builder!Only(rest, V))
      BY Zenon DEF Builder!Since, Before, Contents
    <3> QED BY <3>1, <3>2
  <2> QED BY <2>1, <2>2, <2>3
<1>3. last \in 0..n
  BY LastSaidTyped
<1>4. ASSUME Builder!Says(arg, key) PROVE Builder!Since(key)' = Builder!SaidBy(arg) \o << >>
  <2>1. Builder!LastSaid(key)' = n + 1
    BY <1>4, LastSaidMoves
  <2>2. Before(key)' = Builder!SaidBy(arg)
    BY <1>1, <1>2, <2>1
  <2>3. SubSeq(log', (n + 1) + 1, n + 1) = << >>
    BY <1>1, SliceOverTheEnd
  <2>4. ValuesFor(key)' = << >>
    BY <1>1, <1>2, <2>1, <2>3, OnlyEmpty
  <2>5. Contents(<< >>) = << >>
    BY DEF Contents
  <2> QED BY <1>2, <2>2, <2>4, <2>5
<1>5. ASSUME ~ Builder!Says(arg, key)
      PROVE  Before(key)' = Before(key) /\ ValuesFor(key)' = ValuesFor(key) \o Kept(arg, V)
  <2>1. Builder!LastSaid(key)' = last
    BY <1>5, LastSaidMoves
  <2>2. last # 0 => log'[last] = log[last]
    BY <1>1, <1>3
  <2>3. Before(key)' = Before(key)
    BY <1>2, <2>1, <2>2 DEF Before
  <2>4. SubSeq(log', last + 1, n + 1) = SubSeq(log, last + 1, n) \o <<arg>>
    BY <1>1, <1>3, SliceTakenOver
  <2>5. SubSeq(log, last + 1, n) \in Seq(Builder!Arg)
    BY <1>1, <1>3
  <2>6. Only(SubSeq(log, last + 1, n) \o <<arg>>, V) = Only(SubSeq(log, last + 1, n), V) \o Kept(arg, V)
    BY <2>5, OnlyAppend
  <2>7. ValuesFor(key)' = Only(SubSeq(log', last + 1, n + 1), V)
    BY <1>1, <1>2, <2>1
  <2>8. ValuesFor(key) = Only(SubSeq(log, last + 1, n), V)
    BY DEF ValuesFor
  <2> QED BY <2>3, <2>4, <2>6, <2>7, <2>8
<1>6. ValuesFor(key) \in Seq(Builder!Arg \cap V)
  BY ValuesTypedFor
<1>7. ASSUME arg \in V
      PROVE  \E b, c : /\ Builder!Since(key) = b \o c /\ c \in Slice
                      /\ Builder!Since(key)' = b \o (c \o <<Builder!ContentOf(arg.from)>>)
                      /\ b = Before(key)
  <2>1. ~ Builder!Says(arg, key)
    BY <1>7, Zenon DEF Builder!ValuesOf, Builder!Says, Builder!IsDocument
  <2>2. Kept(arg, V) = <<arg>>
    BY <1>7 DEF Kept
  <2>3. Contents(ValuesFor(key)') = Contents(ValuesFor(key)) \o <<Builder!ContentOf(arg.from)>>
    BY <1>5, <1>6, <1>7, <2>1, <2>2, ContentsTyped
  <2>4. Contents(ValuesFor(key)) \in Slice
    BY <1>6, ContentsTyped
  <2> QED BY <1>2, <1>5, <2>1, <2>3, <2>4, SinceIs
<1>8. ASSUME ~ Builder!Says(arg, key), arg \notin V PROVE Builder!Since(key)' = Builder!Since(key)
  <2>1. Kept(arg, V) = << >>
    BY <1>8 DEF Kept
  <2>2. ValuesFor(key) \o << >> = ValuesFor(key)
    BY <1>6
  <2> QED BY <1>2, <1>5, <1>8, <2>1, <2>2, SinceIs
<1> QED BY <1>4, <1>7, <1>8

LEMMA BeforeTyped ==
  ASSUME log \in Seq(Builder!Arg), NEW key PROVE Before(key) \in Slice
<1>1. CASE Builder!LastSaid(key) = 0
  BY <1>1 DEF Before, Slice
<1>2. CASE Builder!LastSaid(key) # 0
  <2> DEFINE arg == log[Builder!LastSaid(key)]
  <2>1. Before(key) = Builder!SaidBy(arg) /\ arg \in Builder!Arg /\ Builder!Says(arg, key)
    BY <1>2, LastSaidTyped DEF Before
  <2> HIDE DEF arg
  <2>2. arg.doc \in Builder!Document
    BY <2>1, Zenon DEF Builder!Says, Builder!IsDocument, Builder!Arg
  <2>3. arg.doc.kind = "object" => arg.doc.val \in Builder!JsonValue
    BY <2>2, Zenon DEF Builder!Document
  <2>4. << >> \in Slice
    BY DEF Slice
  <2> QED BY <2>1, <2>3, <2>4, Slices DEF Builder!SaidBy
<1> QED BY <1>1, <1>2

-----------------------------------------------------------------------------
(* KvBuilder: no step changes that the map holds what was given since the  *)
(* last document, in its order; and stdin is given once.                   *)
HoldsAll == \A key \in Key : Builder!Since(key) = Holds(built, key)

StdinOnce ==
  /\ stdin \in BOOLEAN /\ reads \in {0, 1} /\ (~ stdin => reads = 0)
  /\ \A i \in 1..Len(log) : Builder!FromStdin(log[i]) => stdin
  /\ \A i, j \in 1..Len(log) : Builder!FromStdin(log[i]) /\ Builder!FromStdin(log[j]) => i = j

BuilderInv == log \in Seq(Builder!Arg) /\ MapTyped(built) /\ HoldsAll /\ StdinOnce

LEMMA BuilderInit == Builder!Init => BuilderInv
<1> SUFFICES ASSUME Builder!Init PROVE BuilderInv
  OBVIOUS
<1>1. log = << >> /\ built = << >> /\ ~ stdin /\ stdin \in BOOLEAN /\ reads = 0
  BY DEF Builder!Init
<1>2. log \in Seq(Builder!Arg) /\ Len(log) = 0 /\ DOMAIN built = {}
  BY <1>1
<1>3. MapTyped(built)
  BY <1>2 DEF MapTyped
<1>4. ASSUME NEW key \in Key PROVE Builder!Since(key) = Holds(built, key)
  <2>1. Builder!LastSaid(key) = 0
    BY <1>2, LastSaidTyped
  <2>2. SubSeq(log, 0 + 1, 0) = << >>
    BY SliceOverTheEnd
  <2>3. ValuesFor(key) = << >>
    BY <1>2, <2>1, <2>2, OnlyEmpty DEF ValuesFor
  <2>4. Contents(<< >>) = << >> /\ << >> \o << >> = << >>
    BY DEF Contents
  <2>5. Before(key) = << >>
    BY <2>1 DEF Before
  <2>6. Builder!Since(key) = << >>
    BY <2>3, <2>4, <2>5, SinceIs
  <2> QED BY <1>2, <2>6 DEF Holds
<1>5. StdinOnce
  BY <1>1, <1>2 DEF StdinOnce
<1> QED BY <1>2, <1>3, <1>4, <1>5 DEF BuilderInv, HoldsAll

(* What one argument makes of the map, if it does not fail.                *)
Builds(arg, map) ==
  \/ arg.form = "empty" /\ map = built
  \/ /\ Builder!IsDocument(arg) /\ arg.doc.kind # "no object"
     /\ map = Builder!Decoded(built, arg.doc)
  \/ arg.form = "value" /\ map = Builder!Put(built, arg.key, Builder!ContentOf(arg.from))

LEMMA AddIs ==
  ASSUME NEW arg \in Builder!Arg, Builder!Add(arg)
  PROVE  /\ \/ log' = log /\ built' = built
            \/ \E map : Builds(arg, map) /\ built' = map /\ log' = Append(log, arg)
         /\ \/ UNCHANGED <<stdin, reads>> /\ (Builder!FromStdin(arg) => log' = log)
            \/ ~ stdin /\ stdin' = TRUE /\ reads' = reads + 1
<1>1. CASE arg.form = "empty"
  <2>1. Builder!Taken(arg, built) /\ UNCHANGED <<stdin, reads>>
    BY <1>1 DEF Builder!Add
  <2>2. ~ Builder!FromStdin(arg)
    BY <1>1 DEF Builder!FromStdin
  <2> QED BY <1>1, <2>1, <2>2, Zenon DEF Builder!Taken, Builds
<1>2. CASE arg.form = "word"
  <2>1. Builder!Failed /\ UNCHANGED <<stdin, reads>>
    BY <1>2 DEF Builder!Add
  <2> QED BY <2>1 DEF Builder!Failed
<1>3. CASE arg.form = "value"
  <2> DEFINE map == Builder!Put(built, arg.key, Builder!ContentOf(arg.from))
  <2>1. Builder!AddValue(arg) /\ Builds(arg, map)
    BY <1>3 DEF Builder!Add, Builds
  <2>2. \/ ~ Builder!FromStdin(arg) /\ UNCHANGED <<stdin, reads>> /\ (Builder!Taken(arg, map) \/ Builder!Failed)
        \/ Builder!ConsumeStdin(arg, arg.readable, map)
    BY <2>1 DEF Builder!AddValue
  <2> HIDE DEF map
  <2> QED BY <2>1, <2>2 DEF Builder!ConsumeStdin, Builder!Taken, Builder!Failed
<1>4. CASE arg.form \in {"stdin document", "file document"}
  <2> DEFINE map == Builder!Decoded(built, arg.doc)
             fine == arg.doc.kind # "no object"
  <2>1. Builder!AddDocument(arg) /\ (fine => Builds(arg, map))
    BY <1>4, Zenon DEF Builder!Add, Builds, Builder!IsDocument
  <2>2. \/ /\ ~ Builder!FromStdin(arg) /\ UNCHANGED <<stdin, reads>>
           /\ (fine /\ Builder!Taken(arg, map)) \/ Builder!Failed
        \/ Builder!ConsumeStdin(arg, fine, map)
    BY <2>1, Zenon DEF Builder!AddDocument
  <2> HIDE DEF map
  <2> QED BY <2>1, <2>2, Zenon DEF Builder!ConsumeStdin, Builder!Taken, Builder!Failed
<1>5. arg.form \in {"empty", "word", "value", "stdin document", "file document"}
  BY Zenon DEF Builder!Arg
<1> QED BY <1>1, <1>2, <1>3, <1>4, <1>5, Zenon

LEMMA TakenKeeps ==
  ASSUME BuilderInv, NEW arg \in Builder!Arg, NEW map, Builds(arg, map),
         built' = map, log' = Append(log, arg)
  PROVE  MapTyped(built') /\ HoldsAll'
<1>1. log \in Seq(Builder!Arg) /\ MapTyped(built) /\ \A key \in Key : Builder!Since(key) = Holds(built, key)
  BY DEF BuilderInv, HoldsAll
<1>2. CASE arg.form = "empty" /\ map = built
  <2>1. \A key : ~ Builder!Says(arg, key) /\ arg \notin Builder!ValuesOf(key)
    BY <1>2 DEF Builder!Says, Builder!IsDocument, Builder!ValuesOf
  <2>2. \A key : Builder!Since(key)' = Builder!Since(key)
    BY <1>1, <2>1, SinceMoves
  <2> QED BY <1>1, <1>2, <2>2 DEF HoldsAll
<1>3. CASE /\ Builder!IsDocument(arg) /\ arg.doc.kind # "no object"
           /\ map = Builder!Decoded(built, arg.doc)
  <2>1. arg.doc \in Builder!Document
    BY <1>3, Zenon DEF Builder!IsDocument, Builder!Arg
  <2>2. \A key : /\ Builder!Says(arg, key) <=> SaysOf(arg.doc, key)
                /\ arg \notin Builder!ValuesOf(key)
    BY <1>3, Zenon DEF Builder!Says, SaysOf, Builder!IsDocument, Builder!ValuesOf
  <2>3. /\ MapTyped(map) /\ SaidIn(arg.doc) \in Slice
        /\ \A k : Holds(map, k) = IF SaysOf(arg.doc, k) THEN SaidIn(arg.doc) ELSE Holds(built, k)
    BY <1>1, <1>3, <2>1, DecodedHolds, Zenon
  <2>4. Builder!SaidBy(arg) = SaidIn(arg.doc)
    BY DEF Builder!SaidBy, SaidIn
  <2>5. SaidIn(arg.doc) \o << >> = SaidIn(arg.doc)
    BY <2>3 DEF Slice
  <2>6. ASSUME NEW key \in Key PROVE Builder!Since(key)' = Holds(map, key)
    <3>1. CASE Builder!Says(arg, key)
      BY <1>1, <2>2, <2>3, <2>4, <2>5, <3>1, SinceMoves
    <3>2. CASE ~ Builder!Says(arg, key)
      BY <1>1, <2>2, <2>3, <3>2, SinceMoves
    <3> QED BY <3>1, <3>2
  <2> QED BY <2>3, <2>6 DEF HoldsAll
<1>4. CASE arg.form = "value" /\ map = Builder!Put(built, arg.key, Builder!ContentOf(arg.from))
  <2> DEFINE v == Builder!ContentOf(arg.from)
  <2>1. \A key : /\ ~ Builder!Says(arg, key)
                /\ arg \in Builder!ValuesOf(key) <=> arg.key = key
    BY <1>4 DEF Builder!Says, Builder!IsDocument, Builder!ValuesOf
  <2>2. v \in Texts
    <3>1. << >> \in Seq(Builder!Arg \cap Builder!ValuesOf(arg.key))
      OBVIOUS
    <3> QED BY <2>1, <3>1, ContentsTyped
  <2> HIDE DEF v
  <2>3. /\ MapTyped(map)
        /\ \A k : Holds(map, k) = IF k = arg.key THEN Holds(built, k) \o <<v>> ELSE Holds(built, k)
    <3>1. map = Builder!Put(built, arg.key, v)
      BY <1>4 DEF v
    <3> DEFINE k0 == arg.key
               put == Builder!Put(built, k0, v)
    <3> HIDE DEF k0
    <3>2. /\ MapTyped(put)
          /\ \A k : Holds(put, k) = IF k = k0 THEN Holds(built, k) \o <<v>> ELSE Holds(built, k)
      BY <1>1, <2>2, PutHolds
    <3>3. map = put
      BY <3>1 DEF k0
    <3> HIDE DEF put
    <3> QED BY <3>2, <3>3 DEF k0
  <2>4. ASSUME NEW key \in Key PROVE Builder!Since(key)' = Holds(map, key)
    <3>1. CASE key = arg.key
      <4>1. PICK b, c : /\ Builder!Since(key) = b \o c /\ c \in Slice
                        /\ Builder!Since(key)' = b \o (c \o <<v>>) /\ b = Before(key)
        <5>1. arg \in Builder!ValuesOf(key)
          BY <2>1, <3>1
        <5>2. \E b, c : /\ Builder!Since(key) = b \o c /\ c \in Slice
                       /\ Builder!Since(key)' = b \o (c \o <<Builder!ContentOf(arg.from)>>)
                       /\ b = Before(key)
          BY <1>1, <5>1, SinceMoves, Zenon
        <5> QED BY <5>2, Zenon DEF v
      <4>2. b \in Slice
        BY <1>1, <4>1, BeforeTyped
      <4>3. b \o (c \o <<v>>) = (b \o c) \o <<v>>
        BY <2>2, <4>1, <4>2 DEF Slice
      <4> QED BY <1>1, <2>3, <3>1, <4>1, <4>3
    <3>2. CASE key # arg.key
      <4>1. Builder!Since(key)' = Builder!Since(key)
        <5>1. ~ Builder!Says(arg, key) /\ arg \notin Builder!ValuesOf(key)
          BY <1>4, <3>2 DEF Builder!Says, Builder!IsDocument, Builder!ValuesOf
        <5> QED BY <1>1, <5>1, SinceMoves
      <4> QED BY <1>1, <2>3, <3>2, <4>1
    <3> QED BY <3>1, <3>2
  <2> QED BY <2>3, <2>4 DEF HoldsAll
<1> QED BY <1>2, <1>3, <1>4, Zenon DEF Builds

LEMMA StdinKept ==
  ASSUME BuilderInv, NEW arg \in Builder!Arg, Builder!Add(arg) PROVE StdinOnce'
<1>1. /\ log \in Seq(Builder!Arg) /\ stdin \in BOOLEAN /\ reads \in {0, 1} /\ (~ stdin => reads = 0)
      /\ \A i \in 1..Len(log) : Builder!FromStdin(log[i]) => stdin
      /\ \A i, j \in 1..Len(log) : Builder!FromStdin(log[i]) /\ Builder!FromStdin(log[j]) => i = j
  BY DEF BuilderInv, StdinOnce
<1>2. (stdin' = stdin /\ reads' = reads) \/ (~ stdin /\ stdin' = TRUE /\ reads' = reads + 1)
  BY AddIs
<1>3. stdin' \in BOOLEAN /\ reads' \in {0, 1} /\ (~ stdin' => reads' = 0) /\ (stdin => stdin')
  <2>1. CASE stdin' = stdin /\ reads' = reads
    BY <1>1, <2>1
  <2>2. CASE ~ stdin /\ stdin' = TRUE /\ reads' = reads + 1
    BY <1>1, <2>2
  <2> QED BY <1>2, <2>1, <2>2
<1>4. CASE log' = log
  BY <1>1, <1>3, <1>4 DEF StdinOnce
<1>5. CASE log' = Append(log, arg) /\ log' # log
  <2>1. /\ Len(log) \in Nat /\ Len(log') = Len(log) + 1 /\ log'[Len(log) + 1] = arg
        /\ \A i \in 1..Len(log) : log'[i] = log[i]
    BY <1>1, <1>5, LogGrows
  <2>2. Builder!FromStdin(arg) => ~ stdin /\ stdin'
    BY <1>5, AddIs
  <2>3. \A i \in 1..Len(log') : i \in 1..Len(log) \/ i = Len(log) + 1
    BY <2>1
  <2>4. ASSUME NEW i \in 1..Len(log'), Builder!FromStdin(log'[i]) PROVE stdin'
    BY <1>1, <1>3, <2>1, <2>2, <2>3, <2>4
  <2>5. ASSUME NEW i \in 1..Len(log'), NEW j \in 1..Len(log'),
               Builder!FromStdin(log'[i]), Builder!FromStdin(log'[j])
        PROVE  i = j
    BY <1>1, <2>1, <2>2, <2>3, <2>5
  <2>6. StdinOnce' <=>
          /\ stdin' \in BOOLEAN /\ reads' \in {0, 1} /\ (~ stdin' => reads' = 0)
          /\ \A i \in 1..Len(log') : Builder!FromStdin(log'[i]) => stdin'
          /\ \A i, j \in 1..Len(log') : Builder!FromStdin(log'[i]) /\ Builder!FromStdin(log'[j]) => i = j
    BY DEF StdinOnce, Builder!FromStdin
  <2> QED BY <1>3, <2>4, <2>5, <2>6, Zenon
<1> QED BY <1>4, <1>5, AddIs

LEMMA BuilderPreserved ==
  ASSUME BuilderInv, [Builder!Next]_(Builder!vars) PROVE BuilderInv'
<1>1. CASE UNCHANGED Builder!vars
  <2>1. log' = log /\ built' = built /\ stdin' = stdin /\ reads' = reads
    BY <1>1 DEF Builder!vars
  <2>2. HoldsAll'
    <3>1. \A key : Builder!Since(key)' = Builder!Since(key)
      BY <2>1 DEF Builder!Since, Builder!LastSaid
    <3> QED BY <2>1, <3>1 DEF BuilderInv, HoldsAll
  <2> QED BY <2>1, <2>2 DEF BuilderInv, StdinOnce
<1>2. ASSUME NEW arg \in Builder!Arg, Builder!Add(arg) PROVE BuilderInv'
  <2>1. StdinOnce'
    BY <1>2, StdinKept
  <2>2. log' \in Seq(Builder!Arg) /\ MapTyped(built') /\ HoldsAll'
    <3>1. CASE log' = log /\ built' = built
      <4>1. \A key : Builder!Since(key)' = Builder!Since(key)
        BY <3>1 DEF Builder!Since, Builder!LastSaid
      <4> QED BY <3>1, <4>1 DEF BuilderInv, HoldsAll
    <3>2. CASE \E map : Builds(arg, map) /\ built' = map /\ log' = Append(log, arg)
      BY <3>2, LogGrows, TakenKeeps DEF BuilderInv
    <3> QED BY <1>2, <3>1, <3>2, AddIs
  <2> QED BY <2>1, <2>2 DEF BuilderInv
<1> QED BY <1>1, <1>2 DEF Builder!Next

(* kv-builder: the map holds for every key all that was given for it since *)
(* a document last replaced it, in that order, and nothing of an argument  *)
(* that failed; stdin is read once (Builder.Add).                          *)
THEOREM GivenIsHeld == MCSpec => []NothingForgotten
<1> DEFINE Inv == subject = "builder" => BuilderInv
<1>1. MCInit => Inv
  BY BuilderStart, BuilderInit
<1>2. Inv /\ [MCNext]_allVars => Inv'
  <2> SUFFICES ASSUME Inv, [MCNext]_allVars, subject' = "builder" PROVE BuilderInv'
    OBVIOUS
  <2>1. subject = "builder"
    BY DEF MCNext, NextCall, allVars
  <2> QED BY <2>1, BuilderStep, BuilderPreserved
<1>3. Inv => NothingForgotten
  <2> SUFFICES ASSUME BuilderInv PROVE Builder!NothingForgotten
    BY DEF NothingForgotten
  <2>1. DOMAIN log = 1..Len(log)
    BY DEF BuilderInv
  <2>2. \A i, j \in DOMAIN log : Builder!FromStdin(log[i]) /\ Builder!FromStdin(log[j]) => i = j
    BY <2>1 DEF BuilderInv, StdinOnce
  <2>3. reads <= 1
    BY DEF BuilderInv, StdinOnce
  <2>4. \A key \in Key :
          Builder!Since(key) = IF key \in DOMAIN built THEN Builder!AsSlice(built[key]) ELSE << >>
    BY Zenon DEF BuilderInv, HoldsAll, Holds
  <2> QED BY <2>2, <2>3, <2>4 DEF Builder!NothingForgotten
<1> QED BY <1>1, <1>2, <1>3, PTL DEF MCSpec

-----------------------------------------------------------------------------
(* ParseUtil: machine integers.                                            *)

(* What a type holds is left alone, and half a type above it is negative.  *)
LEMMA Wraps ==
  ASSUME NEW n \in Int
  PROVE  /\ Parse!Wrapped(n) \in Parse!Int64
         /\ \E k \in Int : Parse!Wrapped(n) = n + k * (2 * Half64)
         /\ n \in Parse!Int64 => Parse!Wrapped(n) = n
         /\ n \in Half64 .. 2 * Half64 - 1 => Parse!Wrapped(n) < 0
<1> DEFINE d == 2 * Half64
           x == n + Half64
           r == x % d
           q == x \div d
<1>1. Half64 \in Nat \ {0} /\ d \in Nat \ {0} /\ x \in Int
  BY NumbersAssumption
<1>2. q \in Int /\ r \in 0 .. d - 1 /\ x = d * q + r
  BY <1>1, Divided
<1>3. Parse!Wrapped(n) = r - Half64
  BY DEF Parse!Wrapped
<1>4. r - Half64 \in Parse!Int64
  BY <1>1, <1>2 DEF Parse!Int64, Parse!IntRange
<1>5. r - Half64 = n + (-q) * d
  <2>1. x = n + Half64
    OBVIOUS
  <2> HIDE DEF x, q, r, d
  <2>2. (-q) * d = -(d * q)
    BY <1>1, <1>2
  <2> QED BY <1>1, <1>2, <2>1, <2>2
<1>6. ASSUME n \in Parse!Int64 PROVE r = x
  <2>1. x \in 0 .. d - 1
    BY <1>1, <1>6 DEF Parse!Int64, Parse!IntRange
  <2>2. (d * 0 + x) % d = x
    BY <1>1, <2>1, DividedOnce
  <2>3. d * 0 + x = x
    BY <1>1
  <2> QED BY <2>2, <2>3
<1>7. ASSUME n \in Half64 .. d - 1 PROVE r = x - d
  <2>1. x - d \in 0 .. d - 1
    BY <1>1, <1>7
  <2>2. (d * 1 + (x - d)) % d = x - d
    BY <1>1, <2>1, DividedOnce
  <2>3. d * 1 + (x - d) = x
    BY <1>1
  <2> QED BY <2>2, <2>3
<1>8. n \in Parse!Int64 => r - Half64 = n
  BY <1>1, <1>6
<1>9. n \in Half64 .. d - 1 => r - Half64 < 0
  BY <1>1, <1>7
<1>10. -q \in Int
  BY <1>2
<1> HIDE DEF r, q, x
<1> QED BY <1>3, <1>4, <1>5, <1>8, <1>9, <1>10

LEMMA Absolute ==
  ASSUME NEW a \in Int
  PROVE  Parse!Magnitude(a) \in Nat /\ (a = Parse!Magnitude(a) \/ a = - Parse!Magnitude(a))
         /\ (a < 0 => a = - Parse!Magnitude(a)) /\ (a >= 0 => a = Parse!Magnitude(a))
BY DEF Parse!Magnitude

(* A quotient towards zero that is positive is the product's factor but    *)
(* for a rest that is smaller than the divisor.                            *)
LEMMA QuotientOf ==
  ASSUME NEW x \in Int, NEW a \in Int, a # 0, NEW b \in Nat \ {0}, Parse!Quo(x, a) = b
  PROVE  x - a * b < Parse!Magnitude(a) /\ - Parse!Magnitude(a) < x - a * b
<1> DEFINE d == Parse!Magnitude(a)
           y == Parse!Magnitude(x)
           q == y \div d
           r == y % d
<1>1. d \in Nat \ {0} /\ y \in Nat
  BY Absolute DEF Parse!Magnitude
<1> HIDE DEF d, y
<1>2. q \in Int /\ r \in 0 .. d - 1 /\ y = d * q + r
  <2>1. y \in Int
    BY <1>1
  <2>2. y \div d \in Int /\ y % d \in 0 .. d - 1 /\ y = d * (y \div d) + (y % d)
    BY <1>1, <2>1, Divided, Zenon
  <2> QED BY <2>2, Zenon
<1>4. (x < 0 <=> a < 0) => b = q
  BY DEF Parse!Quo, d, y
<1>5. ~ (x < 0 <=> a < 0) => b = -q
  BY DEF Parse!Quo, d, y
<1>6. (a < 0 => a = -d) /\ (a >= 0 => a = d) /\ (x < 0 => x = -y) /\ (x >= 0 => x = y)
  BY Absolute DEF d, y
<1> HIDE DEF q, r
<1>7. q >= 0
  <2>1. ASSUME q <= -1 PROVE FALSE
    <3>1. d * q <= -d
      BY <1>1, <1>2, <2>1
    <3> QED BY <3>1, <1>1, <1>2
  <2> QED BY <2>1, <1>2
<1>8. b = q /\ (x < 0 <=> a < 0)
  BY <1>2, <1>4, <1>5, <1>7
<1>9. CASE a < 0
  <2>1. a = -d /\ x = -y
    BY <1>6, <1>8, <1>9
  <2>2. a * b = -(d * q)
    BY <1>1, <1>2, <1>8, <2>1
  <2>3. x - a * b = -r
    BY <1>1, <1>2, <2>1, <2>2
  <2> QED BY <1>1, <1>2, <2>3 DEF d
<1>10. CASE a >= 0
  <2>1. a = d /\ x = y
    BY <1>6, <1>8, <1>10
  <2>2. x - a * b = r
    BY <1>1, <1>2, <1>8, <2>1
  <2> QED BY <1>1, <1>2, <2>2 DEF d
<1> QED BY <1>9, <1>10

(* No multiple of m other than 0 is smaller than m.                        *)
LEMMA NoMultiple ==
  ASSUME NEW k \in Int, NEW m \in Nat \ {0}, k * m < m, - m < k * m PROVE k = 0
<1>1. ASSUME k >= 1 PROVE FALSE
  <2>1. k * m >= m
    BY <1>1
  <2> QED BY <2>1
<1>2. ASSUME k <= -1 PROVE FALSE
  <2>1. k * m <= -m
    BY <1>2
  <2> QED BY <2>1
<1> QED BY <1>1, <1>2

(* overflowMul: the product, or an error.                                  *)
LEMMA ProductExact ==
  ASSUME NEW a \in Parse!Int64, NEW b \in Nat \ {0}, ~ Parse!overflowMul(a, b).err
  PROVE  Parse!overflowMul(a, b).val = a * b
<1> DEFINE x == Parse!Wrapped(a * b)
           d == Parse!Magnitude(a)
<1>1. a \in Int /\ a * b \in Int /\ Half64 \in Nat \ {0}
  BY NumbersAssumption DEF Parse!Int64, Parse!IntRange
<1>2. x \in Int
  BY <1>1, Wraps, NumbersAssumption DEF Parse!Int64, Parse!IntRange
<1>3. PICK k \in Int : x = a * b + k * (2 * Half64)
  BY <1>1, Wraps
<1>4. CASE a = 0
  <2>1. a * b = 0
    BY <1>4
  <2>2. 0 \in Parse!Int64
    BY NumbersAssumption DEF Parse!Int64, Parse!IntRange
  <2>3. x = 0
    BY <1>1, <2>1, <2>2, Wraps
  <2> HIDE DEF x
  <2>4. Parse!overflowMul(a, b) = Parse!Ok(x)
    BY <1>4 DEF Parse!overflowMul, x
  <2> QED BY <2>1, <2>3, <2>4 DEF Parse!Ok
<1>5. CASE a # 0
  <2>1. Parse!Quo(x, a) = b
    BY <1>5 DEF Parse!overflowMul, Parse!Error
  <2>2. Parse!overflowMul(a, b) = Parse!Ok(x)
    BY <2>1 DEF Parse!overflowMul
  <2>3. d \in Nat /\ d <= Half64
    BY <1>1 DEF Parse!Int64, Parse!IntRange, Parse!Magnitude
  <2> HIDE DEF x, d
  <2>4. x - a * b < d /\ -d < x - a * b
    BY <1>1, <1>2, <1>5, <2>1, QuotientOf DEF d
  <2>5. k * (2 * Half64) < 2 * Half64 /\ - (2 * Half64) < k * (2 * Half64)
    BY <1>1, <1>2, <1>3, <2>3, <2>4
  <2>6. k = 0
    <3>1. 2 * Half64 \in Nat \ {0}
      BY <1>1
    <3> QED BY <2>5, <3>1, NoMultiple
  <2>7. x = a * b
    BY <1>1, <1>3, <2>6
  <2> QED BY <2>2, <2>7 DEF Parse!Ok
<1> QED BY <1>4, <1>5

-----------------------------------------------------------------------------
(* ParseUtil: what is given, by its kind.                                  *)
IsScalar(in) ==
  \/ in.kind = "string" /\ in.text \in Parse!Texts
  \/ in.kind = "json" /\ in.text \in Parse!JsonNumbers
  \/ in.kind \in {"int32", "int64", "uint32"} /\ in.n \in Parse!Int64
  \/ in.kind = "uint64" /\ in.n \in 0 .. 2 * Half64 - 1
  \/ in.kind = "float" /\ in.n \in -2 * Half64 .. 2 * (Half64 - 1)
  \/ in.kind \in {"nil", "other"} /\ in.n = 0

LEMMA Scalars == ASSUME NEW in \in Parse!Scalar PROVE IsScalar(in)
<1>1. Half64 \in Nat /\ Half32 \in Nat /\ 2 * Half32 <= Half64
  BY NumbersAssumption
<1>2. ASSUME NEW n \in Parse!IntRange(Half32) PROVE n \in Parse!Int64
  BY <1>1, <1>2 DEF Parse!IntRange, Parse!Int64
<1>3. ASSUME NEW n \in Parse!UintRange(Half32) PROVE n \in Parse!Int64
  BY <1>1, <1>3 DEF Parse!UintRange, Parse!IntRange, Parse!Int64
<1>4. \/ in \in [kind : {"string"}, text : Parse!Texts]
      \/ in \in [kind : {"json"}, text : Parse!JsonNumbers]
      \/ in \in Parse!Integral
      \/ in \in Parse!Typed("float", -2 * Half64 .. 2 * (Half64 - 1))
      \/ in \in Parse!Typed("nil", {0}) \/ in \in Parse!Typed("other", {0})
  BY Zenon DEF Parse!Scalar
<1>5. CASE in \in Parse!Integral
  <2>1. \/ in.kind = "int32" /\ in.n \in Parse!IntRange(Half32)
        \/ in.kind = "int64" /\ in.n \in Parse!Int64
        \/ in.kind = "uint32" /\ in.n \in Parse!UintRange(Half32)
        \/ in.kind = "uint64" /\ in.n \in Parse!UintRange(Half64)
    BY <1>5 DEF Parse!Integral, Parse!Typed
  <2>2. Parse!UintRange(Half64) = 0 .. 2 * Half64 - 1
    BY DEF Parse!UintRange
  <2> QED BY <1>2, <1>3, <2>1, <2>2 DEF IsScalar
<1>6. CASE in \in Parse!Typed("float", -2 * Half64 .. 2 * (Half64 - 1))
  BY <1>6 DEF Parse!Typed, IsScalar
<1>7. CASE in \in Parse!Typed("nil", {0}) \/ in \in Parse!Typed("other", {0})
  BY <1>7 DEF Parse!Typed, IsScalar
<1>8. CASE in \in [kind : {"string"}, text : Parse!Texts]
  BY <1>8 DEF IsScalar
<1>9. CASE in \in [kind : {"json"}, text : Parse!JsonNumbers]
  BY <1>9 DEF IsScalar
<1> QED BY <1>4, <1>5, <1>6, <1>7, <1>8, <1>9

LEMMA TextForms ==
  ASSUME NEW text \in Parse!Texts
  PROVE  /\ text.n \in Int
         /\ text.form \in {"number", "days", "duration", "time", "empty", "fraction", "garbage"}
         /\ text.form \in {"days", "duration", "time"} => text.n \in Parse!Int64
         /\ text.form \in {"empty", "fraction", "garbage"} => text.n = 0
<1>1. \/ text.form = "number" /\ text.n \in -2 * Half64 .. 2 * Half64 + 1
      \/ text.form \in {"days", "duration", "time"} /\ text.n \in Parse!Int64
      \/ text.form \in {"empty", "fraction", "garbage"} /\ text.n = 0
  BY DEF Parse!Texts
<1>2. -2 * Half64 .. 2 * Half64 + 1 \subseteq Int /\ Parse!Int64 \subseteq Int /\ 0 \in Int
  BY NumbersAssumption DEF Parse!Int64, Parse!IntRange
<1> QED BY <1>1, <1>2

LEMMA ScalarTexts ==
  ASSUME NEW in \in Parse!Scalar
  PROVE  /\ Parse!IsText(in) => in.text \in Parse!Texts
         /\ Parse!IsInt(in) => in.n \in Int
         /\ Parse!IsInt(in) /\ ~ Parse!TooLarge(in) => in.n \in Parse!Int64
         /\ Parse!IsInt(in) /\ in.n \notin Parse!Int64 => in.n \in Half64 .. 2 * Half64 - 1
         /\ in.kind = "float" => in.n \in -2 * Half64 .. 2 * (Half64 - 1)
         /\ in.kind = "nil" => in.n = 0
         /\ in.kind \in {"string", "json", "int32", "int64", "uint32", "uint64", "float", "nil", "other"}
<1>1. IsScalar(in)
  BY Scalars
<1>2. Half64 \in Nat \ {0}
  BY NumbersAssumption
<1>3. CASE in.kind \in {"int32", "int64", "uint32"} /\ in.n \in Parse!Int64
  BY <1>2, <1>3 DEF Parse!IsText, Parse!IsInt, Parse!Int64, Parse!IntRange
<1>4. CASE in.kind = "uint64" /\ in.n \in 0 .. 2 * Half64 - 1
  <2>1. in.n >= Half64 \/ in.n \in Parse!Int64
    BY <1>2, <1>4 DEF Parse!Int64, Parse!IntRange
  <2> QED BY <1>2, <1>4, <2>1 DEF Parse!IsText, Parse!IsInt, Parse!Int64, Parse!IntRange, Parse!TooLarge
<1>5. CASE in.kind = "string" /\ in.text \in Parse!Texts
  BY <1>5 DEF Parse!IsText, Parse!IsInt
<1>6. CASE in.kind = "json" /\ in.text \in Parse!JsonNumbers
  BY <1>6 DEF Parse!IsText, Parse!IsInt, Parse!JsonNumbers
<1>7. CASE in.kind = "float" /\ in.n \in -2 * Half64 .. 2 * (Half64 - 1)
  BY <1>7 DEF Parse!IsText, Parse!IsInt
<1>8. CASE in.kind \in {"nil", "other"} /\ in.n = 0
  BY <1>8 DEF Parse!IsText, Parse!IsInt
<1> QED BY <1>1, <1>3, <1>4, <1>5, <1>6, <1>7, <1>8 DEF IsScalar

LEMMA ScalarGiven ==
  ASSUME NEW fn \in {"int", "duration", "time", "range"}, args \in Parse!Inputs, args.fn = fn
  PROVE  /\ args.in \in Parse!Scalar
         /\ fn = "range" => args.min \in Parse!Bounds /\ args.max \in Parse!Bounds
<1>1. \/ args \in [fn : {"int", "duration", "time"}, in : Parse!Scalar]
      \/ args \in [fn : {"range"}, in : Parse!Scalar, min : Parse!Bounds, max : Parse!Bounds]
      \/ args.fn \in {"capacity", "slice", "addrs", "path"}
  BY Zenon DEF Parse!Inputs
<1> QED BY <1>1

LEMMA ParseReturned ==
  ASSUME NEW fn, Parse!Succeeded(fn), result \in {<< >>, <<Parse!Call(args)>>}
  PROVE  args.fn = fn /\ Parse!returned = Parse!Call(args) /\ ~ Parse!returned.err
<1>1. args.fn = fn /\ result # << >> /\ ~ Parse!returned.err
  BY DEF Parse!Succeeded, Parse!Pending
<1>2. result = <<Parse!Call(args)>>
  BY <1>1
<1> QED BY <1>1, <1>2, Zenon DEF Parse!returned

(* A number that was parsed is the one given, or has wrapped around.       *)
LEMMA ParsedInt ==
  ASSUME NEW in \in Parse!Scalar, ~ Parse!ParseInt(in).err
  PROVE  /\ Parse!ParseInt(in).val \in Parse!Int64
         /\ Parse!ParseInt(in).val >= 0 => Parse!ParseInt(in).val = Parse!Given(in)
<1>0. Half64 \in Nat \ {0}
  BY NumbersAssumption
<1>1. CASE Parse!IsInt(in)
  <2>1. Parse!ParseInt(in).val = Parse!Wrapped(in.n)
    BY <1>1 DEF Parse!ParseInt, Parse!Ok
  <2>2. Parse!Given(in) = in.n
    BY <1>1 DEF Parse!Given, Parse!IsText, Parse!IsInt
  <2>3. in.n \in Int /\ (in.n \in Parse!Int64 \/ in.n \in Half64 .. 2 * Half64 - 1)
    BY <1>1, ScalarTexts
  <2>4. Parse!Wrapped(in.n) \in Parse!Int64
    BY <2>3, Wraps
  <2>5. in.n \in Parse!Int64 => Parse!Wrapped(in.n) = in.n
    BY <2>3, Wraps
  <2>6. in.n \in Half64 .. 2 * Half64 - 1 => Parse!Wrapped(in.n) < 0
    BY <2>3, Wraps
  <2>7. Parse!Wrapped(in.n) \in Int
    BY <1>0, <2>4 DEF Parse!Int64, Parse!IntRange
  <2> QED BY <2>1, <2>2, <2>3, <2>4, <2>5, <2>6, <2>7
<1>2. CASE ~ Parse!IsInt(in)
  <2>1. Parse!IsText(in) /\ in.text \in Parse!Texts
    BY <1>2, ScalarTexts DEF Parse!ParseInt, Parse!Error
  <2>2. Parse!Given(in) = in.text.n
    BY <2>1 DEF Parse!Given
  <2>3. CASE in.text.form = "empty"
    <3>1. Parse!ParseInt(in).val = 0
      BY <1>2, <2>1, <2>3 DEF Parse!ParseInt, Parse!Ok
    <3>2. in.text.n = 0
      BY <2>1, <2>3, TextForms
    <3>3. 0 \in Parse!Int64
      BY <1>0 DEF Parse!Int64, Parse!IntRange
    <3> QED BY <2>2, <3>1, <3>2, <3>3
  <2>4. CASE in.text.form # "empty"
    <3>1. in.text.n \in Parse!Int64 /\ Parse!ParseInt(in).val = in.text.n
      BY <1>2, <2>1, <2>4 DEF Parse!ParseInt, Parse!Ok, Parse!Error, Parse!ParsesAsInt
    <3> QED BY <2>2, <3>1
  <2> QED BY <2>3, <2>4
<1> QED BY <1>1, <1>2

(* SafeParseIntRange: what is in the range and not negative has not        *)
(* wrapped.                                                                *)
LEMMA RangeExact ==
  ASSUME args \in Parse!Inputs, result \in {<< >>, <<Parse!Call(args)>>} PROVE Parse!NonNegativeExact
<1> SUFFICES ASSUME Parse!Succeeded("range"), args.min >= 0
             PROVE  /\ Parse!returned.val = Parse!Given(args.in)
                    /\ args.min <= Parse!returned.val /\ Parse!returned.val <= args.max
  BY DEF Parse!NonNegativeExact
<1> DEFINE parsed == Parse!ParseInt(args.in)
<1>1. args.fn = "range" /\ Parse!returned = Parse!Call(args) /\ ~ Parse!returned.err
  BY ParseReturned
<1>2. Parse!returned = Parse!SafeParseIntRange(args.in, args.min, args.max)
  BY <1>1 DEF Parse!Call
<1>3. ~ parsed.err /\ ~ (parsed.val < args.min) /\ ~ (parsed.val > args.max) /\ Parse!returned = parsed
  BY <1>1, <1>2 DEF Parse!SafeParseIntRange, Parse!Error
<1>4. args.in \in Parse!Scalar /\ args.min \in Parse!Bounds /\ args.max \in Parse!Bounds
  BY <1>1, ScalarGiven
<1>5. parsed.val \in Parse!Int64 /\ (parsed.val >= 0 => parsed.val = Parse!Given(args.in))
  BY <1>3, <1>4, ParsedInt
<1>6. parsed.val \in Int /\ args.min \in Int /\ args.max \in Int
  BY <1>4, <1>5, NumbersAssumption DEF Parse!Bounds, Parse!Int64, Parse!IntRange
<1> HIDE DEF parsed
<1> QED BY <1>3, <1>5, <1>6

DurationUnit(in) ==
  IF ~ Parse!IsText(in) THEN Second
  ELSE CASE in.text.form = "days" -> Day
         [] in.text.form = "duration" -> 1
         [] OTHER -> Second

(* ParseDurationSecond, by the kind of what is given.                      *)
LEMMA DurationExact ==
  ASSUME NEW in \in Parse!Scalar, ~ Parse!TooLarge(in), ~ Parse!ParseDurationSecond(in).err
  PROVE  Parse!ParseDurationSecond(in).val = Parse!Given(in) * DurationUnit(in)
<1>0. Half64 \in Nat \ {0} /\ Second \in Nat \ {0} /\ Day \in Nat \ {0}
  BY NumbersAssumption
<1>1. in.kind \in {"string", "json", "int32", "int64", "uint32", "uint64", "float", "nil", "other"}
  BY ScalarTexts
<1>2. CASE in.kind = "nil"
  <2>1. Parse!ParseDurationSecond(in) = Parse!Ok(0)
    BY <1>2 DEF Parse!ParseDurationSecond, Parse!IsText, Parse!IsInt
  <2>2. Parse!Given(in) = 0 /\ DurationUnit(in) = Second
    BY <1>2, ScalarTexts DEF Parse!Given, DurationUnit, Parse!IsText
  <2> QED BY <1>0, <2>1, <2>2 DEF Parse!Ok
<1>3. CASE Parse!IsText(in)
  <2>1. in.text \in Parse!Texts /\ Parse!Given(in) = in.text.n
    BY <1>3, ScalarTexts DEF Parse!Given
  <2>2. /\ in.text.n \in Int
        /\ in.text.form \in {"number", "days", "duration", "time", "empty", "fraction", "garbage"}
        /\ in.text.form \in {"days", "duration", "time"} => in.text.n \in Parse!Int64
        /\ in.text.form = "empty" => in.text.n = 0
    BY <2>1, TextForms
  <2>k. in.kind \in {"string", "json"}
    BY <1>3 DEF Parse!IsText
  <2>3. CASE in.text.form = "empty"
    <3>1. Parse!ParseDurationSecond(in) = Parse!Ok(0)
      BY <1>3, <2>k, <2>3 DEF Parse!ParseDurationSecond, Parse!IsInt, Parse!ParsesAsInt
    <3>2. DurationUnit(in) = Second
      BY <1>3, <2>3 DEF DurationUnit
    <3> QED BY <1>0, <2>1, <2>2, <2>3, <3>1, <3>2 DEF Parse!Ok
  <2>4. CASE in.text.form = "days"
    <3>1. Parse!ParseDurationSecond(in) = Parse!overflowMul(in.text.n, Day)
      BY <1>3, <2>k, <2>4 DEF Parse!ParseDurationSecond, Parse!IsInt, Parse!ParsesAsInt
    <3>2. DurationUnit(in) = Day
      BY <1>3, <2>4 DEF DurationUnit
    <3>3. Parse!overflowMul(in.text.n, Day).val = in.text.n * Day
      BY <1>0, <2>2, <2>4, <3>1, ProductExact
    <3> QED BY <2>1, <3>1, <3>2, <3>3
  <2>5. CASE in.text.form = "duration"
    <3>1. Parse!ParseDurationSecond(in) = Parse!Ok(in.text.n)
      BY <1>3, <2>k, <2>5 DEF Parse!ParseDurationSecond, Parse!IsInt, Parse!ParsesAsInt
    <3>2. DurationUnit(in) = 1
      BY <1>3, <2>5 DEF DurationUnit
    <3> QED BY <2>1, <2>2, <3>1, <3>2 DEF Parse!Ok
  <2>6. CASE in.text.form = "number"
    <3>1. Parse!ParsesAsInt(in.text)
      BY <1>3, <2>k, <2>6 DEF Parse!ParseDurationSecond, Parse!IsInt, Parse!Error
    <3>2. in.text.n \in Parse!Int64
      BY <3>1 DEF Parse!ParsesAsInt
    <3>3. Parse!ParseDurationSecond(in) = Parse!overflowMul(in.text.n, Second)
      BY <1>3, <2>k, <2>6, <3>1 DEF Parse!ParseDurationSecond, Parse!IsInt
    <3>4. DurationUnit(in) = Second
      BY <1>3, <2>6 DEF DurationUnit
    <3>5. Parse!overflowMul(in.text.n, Second).val = in.text.n * Second
      BY <1>0, <3>2, <3>3, ProductExact
    <3> QED BY <2>1, <3>3, <3>4, <3>5
  <2>7. CASE in.text.form \in {"time", "fraction", "garbage"}
    <3>1. Parse!ParseDurationSecond(in) = Parse!Error
      BY <1>3, <2>k, <2>7 DEF Parse!ParseDurationSecond, Parse!IsInt, Parse!ParsesAsInt
    <3> QED BY <3>1 DEF Parse!Error
  <2> QED BY <2>2, <2>3, <2>4, <2>5, <2>6, <2>7
<1>4. CASE Parse!IsInt(in)
  <2>1. in.n \in Parse!Int64 /\ Parse!Given(in) = in.n /\ DurationUnit(in) = Second
    BY <1>4, ScalarTexts DEF Parse!Given, DurationUnit, Parse!IsText, Parse!IsInt
  <2>2. in.n \in Int
    BY <1>4, ScalarTexts
  <2>3. Parse!Wrapped(in.n) = in.n
    BY <2>1, <2>2, Wraps
  <2>4. Parse!ParseDurationSecond(in) = Parse!overflowMul(in.n, Second)
    BY <1>4, <2>3 DEF Parse!ParseDurationSecond, Parse!IsText, Parse!IsInt
  <2>5. Parse!overflowMul(in.n, Second).val = in.n * Second
    BY <1>0, <2>1, <2>4, ProductExact
  <2> QED BY <2>1, <2>4, <2>5
<1>5. CASE in.kind = "float"
  <2> DEFINE whole == Parse!Quo(in.n, 2)
  <2>1. Parse!Given(in) = whole /\ DurationUnit(in) = Second
    BY <1>5 DEF Parse!Given, DurationUnit, Parse!IsText
  <2>2. whole \in Parse!Int64
    <3>1. in.n \in -2 * Half64 .. 2 * (Half64 - 1)
      BY <1>5, ScalarTexts
    <3> QED BY <1>0, <3>1 DEF Parse!Quo, Parse!Magnitude, Parse!Int64, Parse!IntRange
  <2>3. Parse!ParseDurationSecond(in) = Parse!overflowMul(whole, Second)
    BY <1>5 DEF Parse!ParseDurationSecond, Parse!IsText, Parse!IsInt
  <2> HIDE DEF whole
  <2>4. Parse!overflowMul(whole, Second).val = whole * Second
    BY <1>0, <2>2, <2>3, ProductExact
  <2> QED BY <2>1, <2>3, <2>4
<1>6. CASE in.kind = "other"
  <2>1. Parse!ParseDurationSecond(in) = Parse!Error
    BY <1>6 DEF Parse!ParseDurationSecond, Parse!IsText, Parse!IsInt
  <2> QED BY <2>1 DEF Parse!Error
<1> QED BY <1>1, <1>2, <1>3, <1>4, <1>5, <1>6 DEF Parse!IsText, Parse!IsInt

LEMMA DurationsAre ==
  ASSUME args \in Parse!Inputs, result \in {<< >>, <<Parse!Call(args)>>} PROVE Parse!DurationsExact
<1> SUFFICES ASSUME Parse!Succeeded("duration"), ~ Parse!TooLarge(args.in)
             PROVE  Parse!returned.val = Parse!Given(args.in) * DurationUnit(args.in)
  BY DEF Parse!DurationsExact, DurationUnit
<1>1. args.fn = "duration" /\ Parse!returned = Parse!Call(args) /\ ~ Parse!returned.err
  BY ParseReturned
<1>2. Parse!returned = Parse!ParseDurationSecond(args.in)
  BY <1>1 DEF Parse!Call
<1>3. args.in \in Parse!Scalar
  BY <1>1, ScalarGiven
<1> QED BY <1>1, <1>2, <1>3, DurationExact

-----------------------------------------------------------------------------
(* ParseUtil: lists.  Keeping some elements is one operator.               *)
ParseSymbols == \A s, S : Parse!Only(s, S) = Only(s, S)

LEMMA ParseOnly == ParseSymbols
<1>1. ASSUME NEW s, NEW S PROVE Parse!Only(s, S) = Only(s, S)
  <2> DEFINE parts == [i \in DOMAIN s |-> IF s[i] \in S THEN <<s[i]>> ELSE << >>]
  <2>1. Parse!Only(s, S) = Parse!FlattenSeq(parts)
    BY DEF Parse!Only
  <2>2. Only(s, S) = FlattenSeq(parts)
    BY DEF Only
  <2> HIDE DEF parts
  <2>3. Parse!FlattenSeq(parts) = FlattenSeq(parts)
    BY DEF Parse!FlattenSeq, FlattenSeq
  <2> QED BY <2>1, <2>2, <2>3
<1> QED BY <1>1 DEF ParseSymbols

(* The lists that are given, and their elements.                           *)
LEMMA ListGiven ==
  ASSUME args \in Parse!Inputs, args.fn = "slice", Parse!IsList(args.in)
  PROVE  /\ args.in.kind \in {"slice", "list", "commas"} /\ args.in.of \in Seq(Parse!Element)
         /\ args.in.kind = "slice" => \/ \A i \in 1..Len(args.in.of) : args.in.of[i].kind = "uint64"
                                      \/ \A i \in 1..Len(args.in.of) : args.in.of[i].kind = "string"
         /\ args.min \in {-1, 0} /\ args.elements \in {0, 1}
<1> DEFINE in == args.in
           Numbers == {v \in Parse!Element : v.kind = "uint64"}
<1>1. args \in [fn : {"slice"}, in : Parse!Lists \cup Parse!Scalar, min : {-1, 0},
                max : {Half64 - 1}, elements : {0, 1}]
  <2>1. \/ args \in [fn : {"slice"}, in : Parse!Lists \cup Parse!Scalar, min : {-1, 0},
                     max : {Half64 - 1}, elements : {0, 1}]
        \/ args.fn \in {"int", "duration", "time", "range", "capacity", "addrs", "path"}
    BY Zenon DEF Parse!Inputs
  <2> QED BY <2>1
<1>2. in \in Parse!Lists \cup Parse!Scalar /\ args.min \in {-1, 0} /\ args.elements \in {0, 1}
  BY <1>1
<1>3. in \notin Parse!Scalar
  BY ScalarTexts DEF Parse!IsList
<1>4. ASSUME NEW kind, NEW S \in SUBSET Parse!Element, in \in Parse!Several(kind, S)
      PROVE  in.kind = kind /\ in.of \in Seq(Parse!Element) /\ \A i \in 1..Len(in.of) : in.of[i] \in S
  <2>1. in.kind = kind /\ in.of \in Parse!SeqOf(S, MaxLen)
    BY <1>4 DEF Parse!Several
  <2>2. PICK m \in 0..MaxLen : in.of \in [1..m -> S]
    BY <2>1 DEF Parse!SeqOf
  <2>3. m \in Nat
    BY <2>2, NumbersAssumption
  <2> HIDE DEF in
  <2>4. in.of \in Seq(S) /\ Len(in.of) = m
    BY <2>2, <2>3
  <2>5. in.of \in Seq(Parse!Element)
    BY <2>2, <2>3
  <2> QED BY <2>1, <2>2, <2>4, <2>5
<1> HIDE DEF in
<1>5. Numbers \in SUBSET Parse!Element /\ Parse!Strings \in SUBSET Parse!Element
  BY DEF Parse!Strings
<1>6. \/ in \in Parse!Several("slice", Numbers) \/ in \in Parse!Several("slice", Parse!Strings)
      \/ in \in Parse!Several("list", Parse!Element) \/ in \in Parse!Several("commas", Parse!Strings)
  BY <1>2, <1>3 DEF Parse!Lists
<1>7. CASE in \in Parse!Several("slice", Numbers)
  <2> HIDE DEF Numbers
  <2>1. in.kind = "slice" /\ in.of \in Seq(Parse!Element) /\ \A i \in 1..Len(in.of) : in.of[i] \in Numbers
    BY <1>4, <1>5, <1>7
  <2>2. \A i \in 1..Len(in.of) : in.of[i].kind = "uint64"
    BY <2>1 DEF Numbers
  <2> QED BY <1>2, <2>1, <2>2 DEF in
<1>8. CASE in \in Parse!Several("slice", Parse!Strings)
  <2>1. in.kind = "slice" /\ in.of \in Seq(Parse!Element)
        /\ \A i \in 1..Len(in.of) : in.of[i] \in Parse!Strings
    BY <1>4, <1>5, <1>8
  <2>2. \A i \in 1..Len(in.of) : in.of[i].kind = "string"
    BY <2>1 DEF Parse!Strings
  <2> QED BY <1>2, <2>1, <2>2 DEF in
<1>9. CASE in \in Parse!Several("list", Parse!Element)
  <2>1. in.kind = "list" /\ in.of \in Seq(Parse!Element)
    BY <1>4, <1>9
  <2> QED BY <1>2, <2>1 DEF in
<1>10. CASE in \in Parse!Several("commas", Parse!Strings)
  <2>1. in.kind = "commas" /\ in.of \in Seq(Parse!Element)
    BY <1>4, <1>5, <1>10
  <2> QED BY <1>2, <2>1 DEF in
<1> QED BY <1>6, <1>7, <1>8, <1>9, <1>10

(* What an element is as text is a value, and says the same number.        *)
Textual == [v \in Parse!Element |-> Parse!AsText(v)]
Filled == {v \in Parse!Element : Parse!IsText(v) => v.text.form # "empty"}

LEMMA TextualSays ==
  ASSUME NEW v \in Parse!Element
  PROVE  /\ Textual[v] = Parse!AsText(v) /\ Textual[v] \in Parse!Scalar
         /\ v \in Filled <=> Textual[v] \in Parse!NotEmpty
         /\ v.kind = "string" => Textual[v] = v
         /\ ~ Parse!ParseInt(Textual[v]).err => Parse!Given(Textual[v]) = Parse!Given(v)
<1> DEFINE t == Parse!AsText(v)
<1>1. Textual[v] = t
  BY DEF Textual
<1>2. v \in Parse!Scalar /\ v.kind \in {"string", "uint64", "float"}
  BY DEF Parse!Element
<1>3. Half64 \in Nat \ {0}
  BY NumbersAssumption
<1>4. CASE v.kind = "string"
  <2>1. t = v
    BY <1>4 DEF Parse!AsText, Parse!IsText
  <2>2. v \in Filled <=> v \in Parse!NotEmpty
    BY <1>2, <1>4 DEF Filled, Parse!NotEmpty, Parse!IsText
  <2> HIDE DEF t
  <2> QED BY <1>1, <1>2, <2>1, <2>2 DEF t
<1>5. CASE v.kind # "string"
  <2> DEFINE number(n) == [kind |-> "string", text |-> [form |-> "number", n |-> n]]
             fraction == [kind |-> "string", text |-> [form |-> "fraction", n |-> 0]]
  <2>1. ASSUME NEW n \in -2 * Half64 .. 2 * Half64 + 1
        PROVE  /\ number(n) \in Parse!Scalar /\ number(n) \in Parse!NotEmpty
               /\ Parse!Given(number(n)) = n
    <3>1. [form |-> "number", n |-> n] \in Parse!Texts
      BY DEF Parse!Texts
    <3>2. number(n) \in Parse!Scalar
      BY <3>1 DEF Parse!Scalar
    <3> QED BY <3>2 DEF Parse!NotEmpty, Parse!IsText, Parse!Given
  <2>2. fraction \in Parse!Scalar /\ fraction \in Parse!NotEmpty /\ Parse!ParseInt(fraction).err
    <3>1. [form |-> "fraction", n |-> 0] \in Parse!Texts
      BY DEF Parse!Texts
    <3>2. fraction \in Parse!Scalar
      BY <3>1 DEF Parse!Scalar
    <3> QED BY <3>2 DEF Parse!NotEmpty, Parse!IsText, Parse!ParseInt, Parse!IsInt, Parse!ParsesAsInt, Parse!Error
  <2>3. v \in Filled
    BY <1>2, <1>5 DEF Filled, Parse!IsText
  <2>4. CASE v.kind = "uint64"
    <3>1. IsScalar(v)
      BY <1>2, Scalars
    <3>2. v.n \in 0 .. 2 * Half64 - 1
      BY <2>4, <3>1 DEF IsScalar
    <3>3. v.n \in -2 * Half64 .. 2 * Half64 + 1
      BY <1>3, <3>2
    <3>4. t = number(v.n)
      BY <2>4 DEF Parse!AsText, Parse!IsText
    <3>5. Parse!Given(v) = v.n
      BY <2>4 DEF Parse!Given, Parse!IsText
    <3> HIDE DEF t, number, fraction
    <3> QED BY <1>1, <2>1, <2>3, <2>4, <3>3, <3>4, <3>5 DEF t
  <2>5. CASE v.kind = "float"
    <3>1. v.n \in -2 * Half64 .. 2 * (Half64 - 1)
      BY <1>2, <2>5, ScalarTexts
    <3>2. Parse!Given(v) = Parse!Quo(v.n, 2)
      BY <2>5 DEF Parse!Given, Parse!IsText
    <3>3. CASE v.n % 2 = 0
      <4>1. t = number(v.n \div 2)
        BY <2>5, <3>3 DEF Parse!AsText, Parse!IsText
      <4>2. v.n \div 2 = Parse!Quo(v.n, 2)
        BY <1>3, <3>1, <3>3 DEF Parse!Quo, Parse!Magnitude
      <4>3. v.n \div 2 \in -2 * Half64 .. 2 * Half64 + 1
        BY <1>3, <3>1, <3>3
      <4> HIDE DEF t, number, fraction
      <4> QED BY <1>1, <2>1, <2>3, <2>5, <3>2, <4>1, <4>2, <4>3 DEF t
    <3>4. CASE v.n % 2 # 0
      <4>1. t = fraction
        BY <2>5, <3>4 DEF Parse!AsText, Parse!IsText
      <4> HIDE DEF t, number, fraction
      <4> QED BY <1>1, <2>2, <2>3, <2>5, <4>1 DEF t
    <3> QED BY <3>3, <3>4
  <2> QED BY <1>2, <1>5, <2>4, <2>5
<1> QED BY <1>4, <1>5

(* A list without an error is what each element was parsed to.             *)
LEMMA EachParsed ==
  ASSUME NEW s \in Seq(Parse!Scalar), ~ Parse!AllOrError(Parse!Each(Parse!ParseInt, s)).err
  PROVE  /\ \A i \in 1..Len(s) : ~ Parse!ParseInt(s[i]).err
         /\ Parse!AllOrError(Parse!Each(Parse!ParseInt, s)).val = [i \in 1..Len(s) |-> Parse!ParseInt(s[i]).val]
<1> DEFINE parsed == Parse!Each(Parse!ParseInt, s)
<1>1. DOMAIN parsed = 1..Len(s) /\ \A i \in 1..Len(s) : parsed[i] = Parse!ParseInt(s[i])
  BY DEF Parse!Each
<1> HIDE DEF parsed
<1>2. ~ \E i \in DOMAIN parsed : parsed[i].err
  BY DEF Parse!AllOrError, Parse!Error, parsed
<1>3. Parse!AllOrError(parsed).val = [i \in DOMAIN parsed |-> parsed[i].val]
  BY <1>2 DEF Parse!AllOrError, Parse!Ok
<1>4. [i \in DOMAIN parsed |-> parsed[i].val] = [i \in 1..Len(s) |-> Parse!ParseInt(s[i]).val]
  BY <1>1
<1>5. \A i \in 1..Len(s) : ~ Parse!ParseInt(s[i]).err
  BY <1>1, <1>2
<1> QED BY <1>3, <1>4, <1>5 DEF parsed

(* A list without a negative number has the numbers that were given.       *)
LEMMA NoneNegative ==
  ASSUME NEW s \in Seq(Parse!Scalar), \A i \in 1..Len(s) : ~ Parse!ParseInt(s[i]).err,
         \A i \in 1..Len(s) : Parse!ParseInt(s[i]).val >= 0
  PROVE  \A i \in 1..Len(s) : Parse!ParseInt(s[i]).val = Parse!Given(s[i])
<1> TAKE i \in 1..Len(s)
<1>1. s[i] \in Parse!Scalar
  OBVIOUS
<1> QED BY <1>1, ParsedInt

(* ParseIntSlice of a list, by the way it is parsed.                       *)
LEMMA SliceWays ==
  ASSUME NEW in, in.kind \in {"slice", "list", "commas"}, in.of \in Seq(Parse!Element),
         ~ Parse!ParseIntSlice(in).err
  PROVE  \/ /\ in.kind = "slice"
            /\ Parse!ParseIntSlice(in) = Parse!AllOrError(Parse!Each(Parse!ParseInt, in.of))
         \/ /\ in.kind = "slice" => Parse!AllOrError(Parse!Each(Parse!ParseInt, in.of)).err
            /\ Parse!ParseIntSlice(in)
                 = Parse!AllOrError(Parse!Each(Parse!ParseInt, Only(Mapped(Textual, in.of), Parse!NotEmpty)))
<1> DEFINE direct == Parse!ParseDirectIntSlice(in)
           texts == Parse!ParseCommaStringSlice(in)
           final == Parse!AllOrError(Parse!Each(Parse!ParseInt, Parse!Only(texts.val, Parse!NotEmpty)))
<1>1. Parse!IsList(in) /\ in.kind # "nil" /\ ~ Parse!IsText(in) /\ in.kind # "other"
  BY DEF Parse!IsList, Parse!IsText
<1>2. Parse!ParseIntSlice(in)
        = IF ~ direct.err THEN direct ELSE IF texts.err THEN Parse!Error ELSE final
  BY <1>1 DEF Parse!ParseIntSlice, Parse!Error
<1>3. texts = Parse!Ok(Parse!Each(Parse!AsText, in.of))
  BY <1>1 DEF Parse!ParseCommaStringSlice
<1>4. Parse!Each(Parse!AsText, in.of) = Mapped(Textual, in.of)
  <2>1. \A i \in 1..Len(in.of) : in.of[i] \in Parse!Element
    OBVIOUS
  <2>2. \A i \in 1..Len(in.of) : Textual[in.of[i]] = Parse!AsText(in.of[i])
    BY <2>1 DEF Textual
  <2>3. DOMAIN in.of = 1..Len(in.of)
    OBVIOUS
  <2> QED BY <2>2, <2>3 DEF Mapped, Parse!Each
<1>5. final = Parse!AllOrError(Parse!Each(Parse!ParseInt, Only(Mapped(Textual, in.of), Parse!NotEmpty)))
  <2>1. texts.val = Mapped(Textual, in.of)
    BY <1>3, <1>4 DEF Parse!Ok
  <2> HIDE DEF texts
  <2> QED BY <2>1, ParseOnly, Zenon DEF ParseSymbols
<1>6. ~ texts.err
  BY <1>3 DEF Parse!Ok
<1> HIDE DEF texts, final
<1>7. CASE in.kind = "slice"
  <2>1. direct = Parse!AllOrError(Parse!Each(Parse!ParseInt, in.of))
    BY <1>7 DEF Parse!ParseDirectIntSlice
  <2> HIDE DEF direct
  <2>2. CASE direct.err
    BY <1>2, <1>5, <1>6, <1>7, <2>1, <2>2
  <2>3. CASE ~ direct.err
    BY <1>2, <1>7, <2>1, <2>3
  <2> QED BY <2>2, <2>3
<1>8. CASE in.kind # "slice"
  <2>1. direct.err
    BY <1>8 DEF Parse!ParseDirectIntSlice, Parse!Error
  <2> HIDE DEF direct
  <2> QED BY <1>2, <1>5, <1>6, <1>8, <2>1
<1> QED BY <1>7, <1>8

KeptOf(in) == IF in.kind = "slice" THEN in.of ELSE Only(in.of, Filled)

(* A list of numbers has the number of each element, in order.             *)
LEMMA SliceExact ==
  ASSUME NEW in, in.kind \in {"slice", "list", "commas"}, in.of \in Seq(Parse!Element),
         in.kind = "slice" => \/ \A i \in 1..Len(in.of) : in.of[i].kind = "uint64"
                              \/ \A i \in 1..Len(in.of) : in.of[i].kind = "string",
         ~ Parse!ParseIntSlice(in).err,
         \A i \in DOMAIN Parse!ParseIntSlice(in).val : ~ (Parse!ParseIntSlice(in).val[i] < 0)
  PROVE  Parse!ParseIntSlice(in).val = Parse!Each(Parse!Given, KeptOf(in))
<1> DEFINE of == in.of
           val == Parse!ParseIntSlice(in).val
           all == Mapped(Textual, of)
           texts == Only(all, Parse!NotEmpty)
           kept == Only(of, Filled)
<1>0. Parse!Element \subseteq Parse!Scalar
  BY DEF Parse!Element
<1>1. of \in Seq(Parse!Scalar)
  BY <1>0
<1>2. ASSUME NEW s \in Seq(Parse!Scalar),
             Parse!ParseIntSlice(in) = Parse!AllOrError(Parse!Each(Parse!ParseInt, s))
      PROVE  /\ \A i \in 1..Len(s) : ~ Parse!ParseInt(s[i]).err
             /\ val = [i \in 1..Len(s) |-> Parse!Given(s[i])]
  <2>1. /\ \A i \in 1..Len(s) : ~ Parse!ParseInt(s[i]).err
        /\ val = [i \in 1..Len(s) |-> Parse!ParseInt(s[i]).val]
    BY <1>2, EachParsed
  <2>2. \A i \in 1..Len(s) : Parse!ParseInt(s[i]).val >= 0
    <3> TAKE i \in 1..Len(s)
    <3>1. i \in DOMAIN val /\ val[i] = Parse!ParseInt(s[i]).val
      BY <2>1
    <3>2. ~ (Parse!ParseInt(s[i]).val < 0)
      BY <3>1
    <3>3. s[i] \in Parse!Scalar /\ ~ Parse!ParseInt(s[i]).err
      BY <2>1
    <3>4. Parse!ParseInt(s[i]).val \in Int
      BY <3>3, ParsedInt, NumbersAssumption DEF Parse!Int64, Parse!IntRange
    <3> QED BY <3>2, <3>4
  <2>3. \A i \in 1..Len(s) : Parse!ParseInt(s[i]).val = Parse!Given(s[i])
    BY <2>1, <2>2, NoneNegative
  <2> HIDE DEF val
  <2> QED BY <2>1, <2>3
<1>3. Takes(Textual, Parse!Element, Parse!Scalar)
  BY TextualSays DEF Takes
<1>4. {v \in Parse!Element : Textual[v] \in Parse!NotEmpty} = Filled
  BY TextualSays DEF Filled
<1>5. texts = Mapped(Textual, kept)
  BY <1>3, <1>4, OnlyMapped
<1>6. kept \in Seq(Parse!Element)
  BY OnlyType
<1>7. /\ texts \in Seq(Parse!Scalar) /\ Len(texts) = Len(kept)
      /\ \A i \in 1..Len(kept) : texts[i] = Textual[kept[i]]
  BY <1>3, <1>5, <1>6, MappedType
<1>8. CASE in.kind = "slice" /\ Parse!ParseIntSlice(in) = Parse!AllOrError(Parse!Each(Parse!ParseInt, of))
  <2>1. val = [i \in 1..Len(of) |-> Parse!Given(of[i])]
    BY <1>1, <1>2, <1>8
  <2>2. KeptOf(in) = of /\ DOMAIN of = 1..Len(of)
    BY <1>8 DEF KeptOf
  <2> QED BY <2>1, <2>2 DEF Parse!Each
<1>9. CASE /\ in.kind = "slice" => Parse!AllOrError(Parse!Each(Parse!ParseInt, of)).err
           /\ Parse!ParseIntSlice(in) = Parse!AllOrError(Parse!Each(Parse!ParseInt, texts))
  <2>1. /\ \A i \in 1..Len(texts) : ~ Parse!ParseInt(texts[i]).err
        /\ val = [i \in 1..Len(texts) |-> Parse!Given(texts[i])]
    <3> HIDE DEF texts, val, of
    <3> QED BY <1>2, <1>7, <1>9
  <2>2. in.kind # "slice"
    <3> SUFFICES ASSUME in.kind = "slice" PROVE FALSE
      OBVIOUS
    <3>1. PICK i \in 1..Len(of) : Parse!ParseInt(of[i]).err
      <4> DEFINE parsed == Parse!Each(Parse!ParseInt, of)
      <4>1. DOMAIN parsed = 1..Len(of) /\ \A i \in 1..Len(of) : parsed[i] = Parse!ParseInt(of[i])
        BY DEF Parse!Each
      <4>2. Parse!AllOrError(parsed).err
        BY <1>9
      <4> HIDE DEF parsed
      <4>3. \E i \in DOMAIN parsed : parsed[i].err
        BY <4>2 DEF Parse!AllOrError, Parse!Ok
      <4> QED BY <4>1, <4>3
    <3>2. of[i].kind # "uint64" /\ of[i] \in Parse!Element
      BY <3>1 DEF Parse!ParseInt, Parse!IsInt, Parse!Ok
    <3>3. of[i].kind = "string"
      BY <3>2
    <3>4. of[i] \in Filled
      BY <3>1, <3>2, <3>3 DEF Filled, Parse!ParseInt, Parse!IsInt, Parse!IsText, Parse!Ok
    <3>5. PICK j \in 1..Len(kept) : kept[j] = of[i]
      BY <3>4, OnlyKeeps
    <3>6. Textual[of[i]] = of[i]
      BY <3>2, <3>3, TextualSays
    <3> HIDE DEF texts, kept, of
    <3>7. texts[j] = of[i] /\ j \in 1..Len(texts)
      BY <1>7, <3>5, <3>6
    <3> QED BY <2>1, <3>1, <3>7
  <2>3. KeptOf(in) = kept /\ DOMAIN kept = 1..Len(kept)
    BY <1>6, <2>2 DEF KeptOf
  <2>4. ASSUME NEW i \in 1..Len(kept) PROVE Parse!Given(texts[i]) = Parse!Given(kept[i])
    <3>1. kept[i] \in Parse!Element
      BY <1>6
    <3>2. texts[i] = Textual[kept[i]] /\ ~ Parse!ParseInt(texts[i]).err
      <4> HIDE DEF texts, kept
      <4> QED BY <1>7, <2>1
    <3> HIDE DEF texts, kept
    <3> QED BY <3>1, <3>2, TextualSays
  <2>5. Parse!Each(Parse!Given, kept) = [i \in 1..Len(kept) |-> Parse!Given(kept[i])]
    BY <2>3 DEF Parse!Each
  <2>6. [i \in 1..Len(texts) |-> Parse!Given(texts[i])] = [i \in 1..Len(kept) |-> Parse!Given(kept[i])]
    <3> HIDE DEF texts, kept
    <3> QED BY <1>7, <2>4
  <2> QED BY <2>1, <2>3, <2>5, <2>6
<1> HIDE DEF val, texts
<1> QED BY <1>8, <1>9, SliceWays DEF texts

(* Lists of numbers and of addresses.                                      *)
LEMMA ListsAre ==
  ASSUME args \in Parse!Inputs, result \in {<< >>, <<Parse!Call(args)>>} PROVE Parse!ListsWhole
<1>1. ASSUME Parse!Succeeded("slice"), Parse!IsList(args.in), args.min >= 0
      PROVE  Parse!returned.val = Parse!Each(Parse!Given, KeptOf(args.in))
  <2> DEFINE in == args.in
             parsed == Parse!ParseIntSlice(in)
  <2>1. args.fn = "slice" /\ Parse!returned = Parse!Call(args) /\ ~ Parse!returned.err
    BY <1>1, ParseReturned
  <2>2. Parse!returned = Parse!SafeParseIntSliceRange(in, args.min, args.max, args.elements)
    BY <2>1 DEF Parse!Call
  <2>3. /\ in.kind \in {"slice", "list", "commas"} /\ in.of \in Seq(Parse!Element)
        /\ in.kind = "slice" => \/ \A i \in 1..Len(in.of) : in.of[i].kind = "uint64"
                                \/ \A i \in 1..Len(in.of) : in.of[i].kind = "string"
        /\ args.min = 0
    BY <1>1, <2>1, ListGiven
  <2>4. ~ parsed.err /\ Parse!returned = parsed /\ \A i \in DOMAIN parsed.val : ~ (parsed.val[i] < 0)
    BY <2>1, <2>2, <2>3 DEF Parse!SafeParseIntSliceRange, Parse!Error
  <2> QED BY <2>3, <2>4, SliceExact
<1>2. ASSUME Parse!Succeeded("addrs") PROVE Parse!returned.val = args.in.of
  <2>1. args.fn = "addrs" /\ Parse!returned = Parse!Call(args) /\ ~ Parse!returned.err
    BY <1>2, ParseReturned
  <2>2. Parse!returned = Parse!ParseAddrs(args.in)
    BY <2>1 DEF Parse!Call
  <2> QED BY <2>1, <2>2 DEF Parse!ParseAddrs, Parse!Error, Parse!Ok
<1>3. Parse!Each(Parse!Given, KeptOf(args.in))
        = LET kept == IF args.in.kind = "slice" THEN args.in.of
                      ELSE Parse!Only(args.in.of, {v \in Parse!Element : Parse!IsText(v) => v.text.form # "empty"})
          IN  Parse!Each(Parse!Given, kept)
  BY ParseOnly, Zenon DEF ParseSymbols, KeptOf, Filled
<1> QED BY <1>1, <1>2, <1>3 DEF Parse!ListsWhole

(* ParseUtil: paths.                                                       *)
LEMMA PathsAre ==
  ASSUME args \in Parse!Inputs, result \in {<< >>, <<Parse!Call(args)>>} PROVE Parse!PathsOrErrors
<1> SUFFICES ASSUME args.fn = "path", result # << >>
             PROVE  /\ Parse!returned.err # "" => Parse!returned.val.from \in {"path", "nothing"}
                    /\ Parse!returned.err = "" /\ args.must => Parse!returned.val.from # "path"
  BY DEF Parse!PathsOrErrors, Parse!Pending
<1>1. Parse!returned
        = Parse!parsePath(args.scheme, args.spaces, args.found, args.must, args.noTrim, args.errMissing)
  BY DEF Parse!returned, Parse!Call
<1>2. args.scheme \in {"unparsable", "file", "env", "string", "other"}
  <2>1. \/ args \in [fn : {"path"}, scheme : {"unparsable", "file", "env", "string", "other"},
                     spaces : BOOLEAN, found : BOOLEAN, must : BOOLEAN, noTrim : BOOLEAN, errMissing : BOOLEAN]
        \/ args.fn \in {"int", "duration", "time", "range", "capacity", "slice", "addrs"}
    BY Zenon DEF Parse!Inputs
  <2> QED BY <2>1
<1>3. CASE args.scheme = "unparsable"
  BY <1>1, <1>3 DEF Parse!parsePath, Parse!From
<1>4. CASE args.scheme = "file"
  BY <1>1, <1>4 DEF Parse!parsePath, Parse!From
<1>5. CASE args.scheme = "env"
  BY <1>1, <1>5 DEF Parse!parsePath, Parse!From
<1>6. CASE args.scheme = "string"
  BY <1>1, <1>6 DEF Parse!parsePath, Parse!From
<1>7. CASE args.scheme = "other"
  BY <1>1, <1>7 DEF Parse!parsePath, Parse!From
<1> QED BY <1>2, <1>3, <1>4, <1>5, <1>6, <1>7

(* parseutil: a number, a duration or a list that comes back without an    *)
(* error is what was given, for integers of any width and any units: a     *)
(* duration that would not fit is refused, a number that wrapped around is *)
(* negative and never passes a range from 0, a list has an entry for each  *)
(* element given, in order, and a URL names a value or an error.           *)
THEOREM NumbersExact == MCSpec => []ExactOrRefused
<1>1. Answered => ExactOrRefused
  <2> SUFFICES ASSUME args \in Parse!Inputs, result \in {<< >>, <<Parse!Call(args)>>}
               PROVE  Parse!ExactOrRefused
    BY DEF Answered, ExactOrRefused
  <2> QED BY DurationsAre, RangeExact, ListsAre, PathsAre DEF Parse!ExactOrRefused
<1> QED BY <1>1, Answers, PTL
=============================================================================

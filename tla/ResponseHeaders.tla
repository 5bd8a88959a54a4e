--------------------------- MODULE ResponseHeaders ---------------------------
(***************************************************************************)
(* listenerutil: custom response headers.  parseCustomResponseHeaders      *)
(* turns a configuration into header maps by status (parse.go); the        *)
(* ResponseWriter of WrapCustomHeadersHandler puts them on a response      *)
(* whenever its handler writes a status, or writes none (handler.go).      *)
(***************************************************************************)
EXTENDS Integers

CONSTANTS
  Csp,               \* the standard header whose value depends on the request
  Standard,          \* the headers the parser adds, Csp among them
  Other,             \* further header names
  Hundreds, Exact,   \* the numbers n in the statuses "nxx" and "n" of a configuration
  Status             \* what a handler writes

Name == Standard \cup Other

(* A header value is where it comes from; None: no value at all.           *)
None == <<"none", 0>>
Custom(status) == <<"custom", status>>
Handlers == <<"handler", 0>>

Text == {[form |-> "default", n |-> 0]} \cup [form : {"hundreds"}, n : Hundreds]
        \cup [form : {"exact"}, n : Exact]

Invalid == -1

ConvertStatusCode(text) ==
  CASE text.form = "default"                           -> 0
    [] text.form = "hundreds" /\ text.n \in 1..5       -> text.n
    [] text.form = "exact" /\ text.n \in 100..599      -> text.n
    [] OTHER                                           -> Invalid

(* What a group says of a name: it is a partial function to "a value" or   *)
(* no value (parseHeaderValues drops blank ones).                          *)
Group == UNION {[names -> BOOLEAN] : names \in SUBSET Name}

ValidText == {text \in Text : ConvertStatusCode(text) # Invalid}

(* The configuration: not there, of another shape than the parser asks     *)
(* for, or groups by status.  "unparsed" is a ListenerConfig that a        *)
(* program made itself, without header maps.                               *)
Raw ==
  [kind : {"absent", "malformed", "unparsed"}]
  \cup [kind : {"list"}, groups : UNION {[texts -> Group] : texts \in SUBSET ValidText}]
  \cup [kind : {"list"}, groups : UNION {[{text} -> Group] : text \in Text}]

VARIABLES
  raw, ui, option,   \* what is configured, for UI or API requests; the option of ParseListeners
  pc,
  headers,           \* the ResponseWriter's header maps by status, nil if there are none
  header,            \* wrapped.Header()
  headerWritten,
  sent,              \* the status and the headers that went out, if they did
  own, informed      \* history: the handler's own headers; was there a 1xx response?

vars == <<raw, ui, option, pc, headers, header, headerWritten, sent, own, informed>>

Nil == << >>
NotSent == [status |-> 0]

Init ==
  /\ raw \in Raw /\ ui \in BOOLEAN /\ option \in BOOLEAN
  /\ option => ui                             \* the headers of the API are parsed without it
  /\ pc = "parse" /\ headers = Nil /\ headerWritten = FALSE
  /\ header = [n \in Name |-> None] /\ own = header
  /\ sent = NotSent /\ informed = FALSE

-----------------------------------------------------------------------------
DefaultValue(n, withOption) ==
  IF n # Csp THEN <<"standard", 0>>
  ELSE IF ~ ui THEN <<"api", 0>> ELSE IF withOption THEN <<"option", 0>> ELSE <<"ui", 0>>

(* The parsed groups, by status number.                                    *)
Parsed(groups) ==
  [status \in {ConvertStatusCode(text) : text \in DOMAIN groups} |->
     LET group == groups[CHOOSE text \in DOMAIN groups : ConvertStatusCode(text) = status]
     IN  [n \in DOMAIN group |-> IF group[n] THEN Custom(status) ELSE None]]

(* The default group gets each standard header it does not name; one it    *)
(* names without a value is taken out.  The option is not looked at here.  *)
WithDefaults(group) ==
  [n \in (DOMAIN group \cup Standard)
           \ {m \in Standard \cap DOMAIN group : group[m] = None} |->
     IF n \in DOMAIN group THEN group[n] ELSE DefaultValue(n, FALSE)]

ParseFails ==
  \/ raw.kind = "malformed"
  \/ raw.kind = "list" /\ \E text \in DOMAIN raw.groups : ConvertStatusCode(text) = Invalid

(* h[0] is a nil map if no group is the default one: the first standard    *)
(* header assigned to it panics.                                           *)
ParsePanics ==
  raw.kind = "list" /\ \A text \in DOMAIN raw.groups : text.form # "default"

parseCustomResponseHeaders ==
  /\ pc = "parse"
  /\ IF ParseFails
       THEN pc' = "error" /\ UNCHANGED headers
       ELSE IF ParsePanics
       THEN pc' = "panicked" /\ UNCHANGED headers
       ELSE /\ pc' = "serving"
            /\ headers' = CASE raw.kind = "unparsed" -> Nil
                            [] raw.kind = "absent" ->
                                 [s \in {0} |-> [n \in Standard |-> DefaultValue(n, option)]]
                            [] raw.kind = "list" ->
                                 [Parsed(raw.groups) EXCEPT ![0] = WithDefaults(@)]
  /\ UNCHANGED <<raw, ui, option, header, headerWritten, sent, own, informed>>

-----------------------------------------------------------------------------
Setter(h, status) ==
  IF status \notin DOMAIN headers THEN h
  ELSE [n \in Name |-> IF n \in DOMAIN headers[status] THEN headers[status][n] ELSE h[n]]

(* A mutant: the general groups are set over the specific ones.            *)
SetGeneralLast(h, status) ==
  IF headers = Nil \/ status \notin 100..599 THEN h
  ELSE Setter(Setter(Setter(h, status), status \div 100), 0)

setCustomResponseHeaders(h, status) ==
  IF headers = Nil \/ status \notin 100..599 THEN h
  ELSE Setter(Setter(Setter(h, 0), status \div 100), status)

(* net/http: the first final status goes out with the headers as they are  *)
(* then; an informational one goes out at once and is not the last.        *)
Informational(status) == status \in 100..199 /\ status # 101

Send(status, h) ==
  IF sent # NotSent \/ Informational(status) THEN sent ELSE [status |-> status, header |-> h]

Written(status) ==
  LET h == setCustomResponseHeaders(header, status)
  IN  /\ headerWritten' = TRUE /\ header' = h
      /\ sent' = Send(status, h)
      /\ informed' = (informed \/ (sent = NotSent /\ Informational(status)))
      /\ UNCHANGED <<raw, ui, option, headers, own>>

(* The handler sets a header of its own (w.Header() is the wrapped one).   *)
SetOwn(n) ==
  /\ pc = "serving" /\ own[n] = None /\ sent = NotSent
  /\ own' = [own EXCEPT ![n] = Handlers]
  /\ header' = [header EXCEPT ![n] = Handlers]
  /\ UNCHANGED <<raw, ui, option, pc, headers, headerWritten, sent, informed>>

WriteHeader(status) == pc = "serving" /\ Written(status) /\ UNCHANGED pc

(* Data without a status is a 200; the wrapped Write sends one itself if   *)
(* none went out yet.                                                      *)
WriteImplicitly ==
  IF headerWritten
    THEN sent' = Send(200, header)
         /\ UNCHANGED <<raw, ui, option, headers, header, headerWritten, own, informed>>
    ELSE Written(200)

Write == pc = "serving" /\ WriteImplicitly /\ UNCHANGED pc

(* The handler returned; the server sends what the handler did not.        *)
Return == pc = "serving" /\ pc' = "done" /\ WriteImplicitly

Next ==
  \/ parseCustomResponseHeaders
  \/ \E n \in Name : SetOwn(n)
  \/ \E status \in Status : WriteHeader(status)
  \/ Write
  \/ Return

Spec == Init /\ [][Next]_vars

-----------------------------------------------------------------------------
(* The groups of the configuration that name n and apply to status, and    *)
(* the most specific of them.                                              *)
Naming(n, status) ==
  IF raw.kind # "list" THEN {}
  ELSE {text \in DOMAIN raw.groups :
          /\ n \in DOMAIN raw.groups[text]
          /\ \/ text.form = "exact" /\ text.n = status
             \/ text.form = "hundreds" /\ status \in 100 * text.n .. 100 * text.n + 99
             \/ text.form = "default"}

Deciding(texts) ==
  LET exact == {t \in texts : t.form = "exact"}
      hundreds == {t \in texts : t.form = "hundreds"}
  IN  IF exact # {} THEN CHOOSE t \in exact : TRUE
      ELSE IF hundreds # {} THEN CHOOSE t \in hundreds : TRUE ELSE CHOOSE t \in texts : TRUE

OptionHeeded == option /\ raw.kind = "absent"

Expected(n, status) ==
  LET texts == Naming(n, status)
      text == Deciding(texts)
  IN  IF raw.kind = "unparsed" \/ status \notin 100..599 THEN own[n]
      ELSE IF texts = {} THEN IF n \in Standard THEN DefaultValue(n, OptionHeeded) ELSE own[n]
      ELSE IF raw.groups[text][n] THEN Custom(text.n)
      ELSE IF text.form = "default" /\ n \in Standard THEN own[n] ELSE None

(* handler.go: a response leaves with the headers its status is configured *)
(* to have, whatever the handler set, wrote or left to the end and in      *)
(* whatever order: the most specific group that names a header decides,    *)
(* also to take it away, then the standard value, then the handler.  The   *)
(* option's value is the standard one only where nothing is configured:    *)
(* parse.go:528 passes it over otherwise, against options.go:31-32.  A 1xx *)
(* response before it leaves its own headers behind and is excluded.       *)
HeadersAsConfigured ==
  sent # NotSent /\ ~ informed => \A n \in Name : sent.header[n] = Expected(n, sent.status)

(* parse.go:449: the parser "also adds the default headers values", so any *)
(* list of valid groups gives header maps with them.                       *)
DefaultsAdded == pc # "panicked"
=============================================================================

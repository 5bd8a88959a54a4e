------------------------------- MODULE Listeners -------------------------------
(***************************************************************************)
(* listenerutil and tlsutil: from the configuration of listeners to the    *)
(* TLS settings they serve with (ParseListeners, TLSConfig), and the TLS   *)
(* settings of clients.  A configured field is absent, or of a kind its    *)
(* parser tells apart; a parsed field names the field it came from.        *)
(***************************************************************************)
EXTENDS Integers, Sequences, SequencesExt

CONSTANT MaxListeners    \* bound

VARIABLES args, result

vars == <<args, result>>

Pending == << >>

Error(what) == [err |-> "refused", at |-> what]

-----------------------------------------------------------------------------
(* The fields in the order they are parsed, with the kind of parser.       *)
Field(name, parser) == [name |-> name, parser |-> parser]

Bools(names) == [i \in DOMAIN names |-> Field(names[i], "bool")]

BaseValues ==
  <<Field("address", "template"), Field("cluster_address", "template"),
    Field("type", "type"), Field("purpose", "list")>>

RequestParameters ==
  <<Field("max_request_size", "nonnegative"), Field("max_request_duration", "nonnegative"),
    Field("require_request_header", "bool")>>

TLSParameters ==
  <<Field("tls_disable", "bool"), Field("tls_cipher_suites", "list")>>
  \o Bools(<<"tls_prefer_server_cipher_suites", "tls_require_and_verify_client_cert",
             "tls_disable_client_certs">>)

HTTPTimeouts ==
  <<Field("http_read_timeout", "duration"), Field("http_read_header_timeout", "duration"),
    Field("http_write_timeout", "duration"), Field("http_idle_timeout", "duration")>>

ProxyProtocol == <<Field("proxy_protocol_authorized_addrs", "proxy")>>

XForwardedFor ==
  <<Field("x_forwarded_for_authorized_addrs", "list"), Field("x_forwarded_for_hop_skips", "nonnegative")>>
  \o Bools(<<"x_forwarded_for_reject_not_authorized", "x_forwarded_for_reject_not_present">>)

Telemetry == Bools(<<"unauthenticated_metrics_access">>)

CORS ==
  Bools(<<"cors_enabled", "cors_disable_default_allowed_origin_values">>)
  \o <<Field("cors_allowed_origins", "origins"), Field("cors_allowed_headers", "any")>>

HTTPHeaders ==
  <<Field("custom_api_response_headers", "headers"), Field("custom_ui_response_headers", "headers")>>

Fields ==
  BaseValues \o RequestParameters \o TLSParameters \o HTTPTimeouts \o ProxyProtocol
  \o XForwardedFor \o Telemetry \o CORS \o HTTPHeaders

Names == {Fields[i].name : i \in DOMAIN Fields}

(* What is configured.  The type of a listener that names none is the key  *)
(* of its block; "none" is an empty list of addresses, "mixed" a wildcard  *)
(* among other origins.  Headers without a default entry, which panic, are *)
(* ResponseHeaders' subject.                                               *)
Configured == {"absent", "bad", "negative", "none", "mixed", "good"}

Meaningful(parser) ==
  {"absent", "good"} \cup
  (CASE parser \in {"nonnegative", "duration"} -> {"bad", "negative"}
     [] parser = "proxy"                       -> {"bad", "none"}
     [] parser = "origins"                     -> {"mixed"}
     [] parser = "any"                         -> {}
     [] OTHER                                  -> {"bad"})

(* A mutant: a negative number is as good as any.                          *)
RefusedIfBad(field, raw, l) == raw = "bad"

Refused(field, raw, l) ==
  \/ raw = "bad"
  \/ field.parser = "nonnegative" /\ raw = "negative"
  \/ field.parser = "origins" /\ raw = "mixed"
  \/ field.parser = "proxy" /\ raw = "none" /\ l.behavior = "authorized only"
  \/ field.parser = "type" /\ raw = "absent" /\ ~ l.keyed

ParsedField(field, raw) ==
  IF raw # "absent" THEN <<field.name, raw>>
  ELSE CASE field.parser = "type"    -> <<field.name, "key">>
         [] field.parser = "headers" -> <<field.name, "standard">>
         [] OTHER                    -> <<field.name, "zero">>

RawOf(l, name) == IF name \in DOMAIN l.set THEN l.set[name] ELSE "absent"

RefusedFields(l) == {i \in DOMAIN Fields : Refused(Fields[i], RawOf(l, Fields[i].name), l)}

ParseListener(l) ==
  [name \in Names |->
     ParsedField(Fields[CHOOSE i \in DOMAIN Fields : Fields[i].name = name], RawOf(l, name))]

(* The first field of the first listener that is refused ends it all.      *)
ParseListeners(list) ==
  LET failing == {i \in DOMAIN list : RefusedFields(list[i]) # {}}
      first == CHOOSE i \in failing : \A j \in failing : i <= j
      field == CHOOSE f \in RefusedFields(list[first]) :
                 \A g \in RefusedFields(list[first]) : f <= g
  IN  IF failing # {} THEN Error(<<first, Fields[field].name>>)
      ELSE [err |-> "", listeners |-> [i \in DOMAIN list |-> ParseListener(list[i])]]

-----------------------------------------------------------------------------
(* TLSLookup: versions by name, 0 for a name that is not there.            *)
Version == {"", "tls10", "tls11", "tls12", "tls13", "other"}

TLSLookup(v) ==
  CASE v = "tls10" -> 10 [] v = "tls11" -> 11 [] v = "tls12" -> 12 [] v = "tls13" -> 13 [] OTHER -> 0

(* The certificate getter that loads: the first without a passphrase, the  *)
(* second with the one that was asked for.                                 *)
Getter(load) ==
  CASE load = "loads" -> "plain" [] load = "loads with passphrase" -> "with passphrase" [] OTHER -> "none"

Orelse(v, default) == IF v = "" THEN default ELSE v

(* One warning if HTTP/2 forbids some of the cipher suites, another if all *)
(* of them.                                                                *)
Warning(ciphers) ==
  IF "bad" \notin ToSet(ciphers) THEN "none"
  ELSE IF "fine" \notin ToSet(ciphers) THEN "all" ELSE "some"

TLSConfig(l) ==
  LET min == TLSLookup(Orelse(l.min, "tls12"))
      max == TLSLookup(Orelse(l.max, "tls13"))
  IN  IF l.disable THEN [err |-> "", tls |-> "disabled"]
      ELSE IF Getter(l.load) = "none" THEN Error("certificate")
      ELSE IF min = 0 \/ max = 0 \/ max < min THEN Error("version")
      ELSE IF l.require /\ l.ca \in {"unreadable", "invalid"} THEN Error("ca")
      ELSE IF l.noClientCerts /\ l.require THEN Error("exclusive")
      ELSE [err |-> "", tls |-> "enabled", min |-> min, max |-> max,
            served |-> Getter(l.load), reload |-> Getter(l.load),
            warning |-> Warning(l.ciphers),
            clientAuth |-> IF l.require THEN "require and verify"
                           ELSE IF l.noClientCerts THEN "none" ELSE "request",
            clientCAs |-> IF l.require /\ l.ca = "valid" THEN "configured" ELSE "system"]

-----------------------------------------------------------------------------
(* Clients.  A certificate or key is "", "bad" or "good"; a CA may also be *)
(* unreadable where it is a file.                                          *)
Present(x) == x # ""

PairGiven(c) == Present(c.cert) /\ Present(c.key)
PairLoads(c) == c.cert = "good" /\ c.key = "good"
NothingGiven(c) == ~ Present(c.ca) /\ ~ PairGiven(c)

ClientSettings(c, pool, min, skip) ==
  [err |-> "", roots |-> pool, min |-> min, skipVerify |-> skip,
   certificate |-> PairGiven(c)]

(* Bytes of a CA that are no certificate leave an empty pool.              *)
ClientTLSConfig(c) ==
  IF NothingGiven(c) \/ (PairGiven(c) /\ ~ PairLoads(c)) THEN Error("params")
  ELSE ClientSettings(c, CASE c.ca = "" -> "system" [] c.ca = "good" -> "ca" [] OTHER -> "nothing", 12, FALSE)

LoadClientTLSConfig(c) ==
  IF \/ NothingGiven(c) \/ (PairGiven(c) /\ ~ PairLoads(c))
     \/ c.ca \in {"bad", "unreadable"}
  THEN Error("params")
  ELSE ClientSettings(c, IF c.ca = "" THEN "system" ELSE "ca", 12, FALSE)

SetupTLSConfig(c) ==
  LET min == IF c.minSet THEN TLSLookup(c.min) ELSE 12
  IN  IF \/ c.address = "bad" \/ c.skip = "bad" \/ min = 0
         \/ Present(c.cert) # Present(c.key)
         \/ PairGiven(c) /\ ~ PairLoads(c)
         \/ c.ca \in {"bad", "unreadable"}
      THEN Error("params")
      ELSE ClientSettings(c, IF c.ca = "" THEN "system" ELSE "ca", min, c.skip = "true")

-----------------------------------------------------------------------------
(* Listeners with up to two fields set; TLS settings of all kinds.         *)
OneListener ==
  LET sets == UNION {{[n \in {Fields[i].name, Fields[j].name} |->
                         IF n = Fields[i].name THEN a ELSE b] :
                        a \in Meaningful(Fields[i].parser), b \in Meaningful(Fields[j].parser)} :
                      i, j \in DOMAIN Fields}
  IN  [set : sets, keyed : BOOLEAN, behavior : {"", "authorized only"}]

(* In a list of several, each has at most one field that is not absent.    *)
InList ==
  [set : UNION {{[n \in {name} |-> raw] : raw \in {"good", "bad"}} : name \in {"address", "tls_disable"}},
   keyed : BOOLEAN, behavior : {""}]

ServerSettings ==
  [fn : {"server"}, disable : BOOLEAN, min : Version, max : Version, require : BOOLEAN,
   load : {"loads", "loads with passphrase", "wrong passphrase", "cannot be read"},
   ca : {"", "unreadable", "invalid", "valid"}, noClientCerts : BOOLEAN,
   ciphers : {<< >>, <<"fine">>, <<"bad">>, <<"bad", "fine">>}]

ClientFiles ==
  [fn : {"client bytes", "client files"}, ca : {"", "bad", "unreadable", "good"},
   cert : {"", "bad", "good"}, key : {"", "bad", "good"}]

ClientConf ==
  [fn : {"client conf"}, ca : {"", "bad", "unreadable", "good"}, cert : {"", "bad", "good"},
   key : {"", "bad", "good"}, minSet : BOOLEAN, min : Version, skip : {"", "bad", "true", "false"},
   address : {"host and port", "host", "bad"}]

ParseInputs ==
  [fn : {"parse"}, list : {<<l>> : l \in OneListener} \cup SeqOf(InList, MaxListeners)]

ClientInputs ==
  {c \in ClientFiles : c.fn = "client files" \/ c.ca # "unreadable"} \cup ClientConf

Inputs == ParseInputs \cup ServerSettings \cup ClientInputs

Call(a) ==
  CASE a.fn = "parse"        -> ParseListeners(a.list)
    [] a.fn = "server"       -> TLSConfig(a)
    [] a.fn = "client bytes" -> ClientTLSConfig(a)
    [] a.fn = "client files" -> LoadClientTLSConfig(a)
    [] a.fn = "client conf"  -> SetupTLSConfig(a)

Init == args \in Inputs /\ result = Pending

Return == result = Pending /\ result' = <<Call(args)>> /\ UNCHANGED args

Next == Return

Spec == Init /\ [][Next]_vars

-----------------------------------------------------------------------------
returned == result[1]

Called(fn) == args.fn = fn /\ result # Pending
Succeeded(fn) == Called(fn) /\ returned.err = ""

(* A listener is taken as it was configured or the whole list is refused:  *)
(* every field of every listener has its own value, no limit is negative,  *)
(* and the response headers are there even if they are not configured.     *)
AllOrNothing ==
  /\ Succeeded("parse") =>
       /\ Len(returned.listeners) = Len(args.list)
       /\ \A i \in DOMAIN args.list, name \in Names :
            LET raw == RawOf(args.list[i], name)
            IN  /\ raw \in {"absent", returned.listeners[i][name][2]}
                /\ raw # "bad" /\ returned.listeners[i][name][1] = name
                /\ raw = "negative" => name \notin {"max_request_size", "max_request_duration",
                                                    "x_forwarded_for_hop_skips"}
                /\ raw = "absent" => (returned.listeners[i][name][2] = "standard" <=>
                                        name \in {HTTPHeaders[1].name, HTTPHeaders[2].name})
  /\ Called("parse") /\ returned.err # "" =>
       \E i \in DOMAIN args.list : returned.at[1] = i /\ \A j \in 1..i - 1 : RefusedFields(args.list[j]) = {}

(* listener.go: what is served is what is reloaded, with versions that are *)
(* in order, client certificates either asked for, required and verified,  *)
(* or not, and a CA file that was configured either used or an error.      *)
ServedConsistently ==
  Succeeded("server") /\ returned.tls = "enabled" =>
    /\ returned.min <= returned.max /\ returned.min \in 10..13 /\ returned.max \in 10..13
    /\ returned.served = returned.reload /\ returned.served # "none"
    /\ returned.clientAuth = "none" => ~ args.require
    /\ args.require => returned.clientAuth = "require and verify"
                       /\ (returned.clientCAs = "configured" <=> args.ca # "")

(* tlsutil: a client never leaves out a CA it was given; it leaves out a   *)
(* certificate without its key, or an error says so.                       *)
ClientsVerify ==
  \A fn \in {"client bytes", "client files", "client conf"} :
    Succeeded(fn) =>
      /\ returned.roots = "system" <=> args.ca = ""
      /\ returned.certificate <=> PairGiven(args)
      /\ returned.min < 12 \/ returned.skipVerify => fn = "client conf"

(* The three parts are above.                                              *)
ListenersSound == AllOrNothing /\ ServedConsistently /\ ClientsVerify
=============================================================================

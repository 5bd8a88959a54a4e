------------------------------ MODULE Credentials ------------------------------
(***************************************************************************)
(* awsutil without the rotation (RotateKeys): from options and environment *)
(* to a CredentialsConfig, from that to the options of the AWS SDK's       *)
(* configuration, to clients, and the region.  A setting is named for      *)
(* where it came from, "" if it is nowhere.                                *)
(***************************************************************************)
EXTENDS Integers, Sequences, SequencesExt, Lists

VARIABLES args, result

vars == <<args, result>>

Pending == << >>

Error(what) == [err |-> what]

-----------------------------------------------------------------------------
(* What a caller may give as an option, and what the environment may hold. *)
OptionName == {"role arn", "session name", "external id", "tags", "token file", "token",
               "access key", "secret key"}
EnvName == {"AWS_ROLE_ARN", "AWS_ROLE_SESSION_NAME", "AWS_WEB_IDENTITY_TOKEN_FILE", "AWS_PROFILE"}

OptionThenEnv(given, env, option, variable) ==
  IF option \in given THEN "option" ELSE IF variable \in env THEN "env" ELSE ""

IfGiven(given, option) == IF option \in given THEN "option" ELSE ""

RegionOf(given, env) ==
  IF "region" \in given THEN "option"
  ELSE IF "AWS_REGION" \in env THEN "AWS_REGION"
  ELSE IF "AWS_DEFAULT_REGION" \in env THEN "AWS_DEFAULT_REGION" ELSE "us-east-1"

(* A mutant: the token is not looked at.                                   *)
RoleSettingsButToken(c) == <<c.sessionName, c.externalId, c.tags, c.tokenFile>>

(* What makes no sense without a role.                                     *)
RoleSettings(c) == <<c.sessionName, c.externalId, c.tags, c.tokenFile, c.token>>

NewCredentialsConfig(given, env) ==
  LET c == [err |-> "",
            region |-> RegionOf(given, env),
            accessKey |-> IfGiven(given, "access key"), secretKey |-> IfGiven(given, "secret key"),
            roleARN |-> OptionThenEnv(given, env, "role arn", "AWS_ROLE_ARN"),
            sessionName |-> OptionThenEnv(given, env, "session name", "AWS_ROLE_SESSION_NAME"),
            externalId |-> IfGiven(given, "external id"), tags |-> IfGiven(given, "tags"),
            tokenFile |-> OptionThenEnv(given, env, "token file", "AWS_WEB_IDENTITY_TOKEN_FILE"),
            token |-> IfGiven(given, "token"), profile |-> ""]
  IN  IF c.roleARN = "" /\ \E i \in DOMAIN RoleSettings(c) : RoleSettings(c)[i] # ""
      THEN Error("role setting without role") ELSE c

(* The profile of the shared credentials: AWS_PROFILE takes the place of   *)
(* the one in the configuration, and stays there; without either, the      *)
(* "default" one if the SDK finds it.                                      *)
ProfileOf(c, env) == IF "AWS_PROFILE" \in env THEN "env" ELSE c.profile

SharedOptions(c, env, defaultExists) ==
  (IF ProfileOf(c, env) # "" THEN <<<<"profile", ProfileOf(c, env)>>>>
   ELSE IF defaultExists THEN <<<<"profile", "default">>>> ELSE << >>)
  \o <<<<"credentials file", "">>>>

(* Three ways to a role, and what each is given.                           *)
WebIdentity(c, token) ==
  [roleARN |-> c.roleARN, sessionName |-> c.sessionName, token |-> token]

AssumeRole(c) ==
  [roleARN |-> c.roleARN, sessionName |-> c.sessionName, externalId |-> c.externalId, tags |-> c.tags]

RoleOptions(c) ==
  IF c.roleARN = "" THEN << >>
  ELSE IF c.tokenFile # "" THEN <<<<"web identity file", WebIdentity(c, c.tokenFile)>>>>
  ELSE IF c.token # "" THEN <<<<"web identity token", WebIdentity(c, c.token)>>>>
  ELSE <<<<"assume role", AssumeRole(c)>>>>

generateAwsConfigOptions(c, env, shared, defaultExists) ==
  (IF c.region # "" THEN <<<<"region", c.region>>>> ELSE << >>)
  \o (IF shared THEN SharedOptions(c, env, defaultExists) ELSE << >>)
  \o (IF c.accessKey # "" /\ c.secretKey # "" THEN <<<<"static", c.accessKey>>>> ELSE << >>)
  \o RoleOptions(c)

(* loads: LoadDefaultConfig works; provider: WithCredentialsProvider.      *)
GenerateCredentialChain(c, env, call) ==
  IF (c.accessKey = "") # (c.secretKey = "") THEN Error("static credentials")
  ELSE IF ~ call.loads THEN Error("load")
  ELSE [err |-> "",
        options |-> generateAwsConfigOptions(c, env, call.shared, call.defaultExists),
        provider |-> IF call.provider THEN "given" ELSE "sdk",
        config |-> [c EXCEPT !.profile = IF call.shared THEN ProfileOf(c, env) ELSE @]]

(* RetrieveCreds: keys only, and what they are for must answer.            *)
RetrieveCreds(given, env, call) ==
  LET c == [accessKey |-> IfGiven(given, "access key"), secretKey |-> IfGiven(given, "secret key"),
            region |-> "", roleARN |-> "", tokenFile |-> "", token |-> "", profile |-> ""]
      chain == GenerateCredentialChain(c, env, call)
  IN  IF chain.err # "" THEN chain
      ELSE IF ~ call.retrieved THEN Error("retrieve") ELSE chain

(* IAMClient and STSClient: a given configuration, or the chain; a given   *)
(* constructor, which may fail, or the SDK's with the resolver of the      *)
(* configuration.                                                          *)
Client(c, env, call) ==
  LET chain == GenerateCredentialChain(c, env, call)
  IN  IF ~ call.awsConfig /\ chain.err # "" THEN Error("chain")
      ELSE IF call.apiFunc /\ call.apiFails THEN Error("constructor")
      ELSE [err |-> "", from |-> IF call.awsConfig THEN "given" ELSE "chain",
            by |-> IF call.apiFunc THEN "given" ELSE IF call.resolver THEN "sdk at resolver" ELSE "sdk"]

(* region.go: what is configured, then what the SDK reads, then what the   *)
(* instance's metadata say, then the default.                              *)
GetRegion(r) ==
  IF r.configured THEN [err |-> "", region |-> "configured"]
  ELSE IF r.sdk = "error" THEN Error("configuration")
  ELSE IF r.sdk = "region" THEN [err |-> "", region |-> "sdk"]
  ELSE IF r.metadata = "error" THEN Error("metadata")
  ELSE [err |-> "", region |-> IF r.metadata = "region" THEN "metadata" ELSE "default"]

-----------------------------------------------------------------------------
Usual == [shared |-> TRUE, defaultExists |-> FALSE, loads |-> TRUE, provider |-> FALSE]

Chains(given, env, calls) == [fn : {"chain"}, given : given, env : env, call : calls]

ChainInputs ==
  Chains(SUBSET OptionName, SUBSET EnvName, {Usual})
  \cup Chains({{}, {"region"}, {"access key", "secret key"}},
              SUBSET {"AWS_REGION", "AWS_DEFAULT_REGION", "AWS_PROFILE"},
              [shared : BOOLEAN, defaultExists : BOOLEAN, loads : BOOLEAN, provider : BOOLEAN])

RetrieveInputs ==
  [fn : {"retrieve"}, given : SUBSET {"access key", "secret key"}, env : SUBSET {"AWS_PROFILE"},
   call : [shared : BOOLEAN, defaultExists : BOOLEAN, loads : BOOLEAN, provider : BOOLEAN,
           retrieved : BOOLEAN]]

ClientInputs ==
  [fn : {"client"}, given : SUBSET {"access key", "secret key"}, env : {{}},
   call : [shared : {TRUE}, defaultExists : {FALSE}, loads : BOOLEAN, provider : {FALSE},
           awsConfig : BOOLEAN, apiFunc : BOOLEAN, apiFails : BOOLEAN, resolver : BOOLEAN]]

RegionInputs ==
  [fn : {"region"}, configured : BOOLEAN, sdk : {"error", "region", "none"},
   metadata : {"error", "region", "none"}]

Inputs == ChainInputs \cup RetrieveInputs \cup ClientInputs \cup RegionInputs

Made(a) == NewCredentialsConfig(a.given, a.env)

Call(a) ==
  CASE a.fn = "chain"    -> IF Made(a).err # "" THEN Made(a)
                            ELSE GenerateCredentialChain(Made(a), a.env, a.call)
    [] a.fn = "retrieve" -> RetrieveCreds(a.given, a.env, a.call)
    [] a.fn = "client"   -> Client(Made(a), a.env, a.call)
    [] a.fn = "region"   -> GetRegion(a)

Init == args \in Inputs /\ result = Pending

Return == result = Pending /\ result' = <<Call(args)>> /\ UNCHANGED args

Next == Return

Spec == Init /\ [][Next]_vars

-----------------------------------------------------------------------------
returned == result[1]

Succeeded(fn) == args.fn = fn /\ result # Pending /\ returned.err = ""

OptionsNamed(name) == Only(returned.options, {o \in ToSet(returned.options) : o[1] = name})

BothKeys == {"access key", "secret key"}

Ways ==
  OptionsNamed("web identity file") \o OptionsNamed("web identity token") \o OptionsNamed("assume role")

(* awsutil: a chain names exactly one way to the role that was configured, *)
(* none without a role, and no setting of a role is silently dropped for   *)
(* want of one; static keys are used in pairs or refused.  Role, session   *)
(* name, token file and region are what the caller gave, and the           *)
(* environment's only where the caller gave none; external id and tags go  *)
(* with a role that is assumed without a token; the profile is the         *)
(* environment's.  A token is used where neither names a file: one that    *)
(* the caller gave gives way to the environment's file (lines 231-242,     *)
(* against the comment at 232-234).                                        *)
CredentialsSound ==
  /\ Succeeded("chain") =>
       LET role == "role arn" \in args.given \/ "AWS_ROLE_ARN" \in args.env
           settings == Ways[1][2]
       IN  /\ Len(Ways) = (IF role THEN 1 ELSE 0)
           /\ ~ role => args.given \subseteq {"region", "access key", "secret key"}
           /\ role => /\ "role arn" \in args.given => settings.roleARN = "option"
                      /\ "role arn" \notin args.given => settings.roleARN = "env"
                      /\ "session name" \in args.given => settings.sessionName = "option"
                      /\ "session name" \notin args.given => settings.sessionName # "option"
           /\ role /\ Ways[1][1] = "assume role" =>
                /\ settings.externalId # "" <=> "external id" \in args.given
                /\ settings.tags # "" <=> "tags" \in args.given
           /\ "token file" \in args.given =>
                Ways[1][1] = "web identity file" /\ settings.token = "option"
           /\ "token" \in args.given =>
                Ways[1][1] = IF "token file" \in args.given
                                \/ "AWS_WEB_IDENTITY_TOKEN_FILE" \in args.env
                             THEN "web identity file" ELSE "web identity token"
           /\ Len(OptionsNamed("static")) = (IF BothKeys \subseteq args.given THEN 1 ELSE 0)
           /\ "access key" \in args.given <=> "secret key" \in args.given
           /\ Len(OptionsNamed("region")) = 1
           /\ "region" \in args.given => OptionsNamed("region") = <<<<"region", "option">>>>
           /\ Len(OptionsNamed("profile")) <= 1
           /\ args.call.shared /\ "AWS_PROFILE" \in args.env =>
                OptionsNamed("profile") = <<<<"profile", "env">>>>
  /\ Succeeded("client") =>
       /\ returned.by = "given" => ~ args.call.apiFails
       /\ returned.from = "chain" =>
            ("access key" \in args.given <=> "secret key" \in args.given) /\ args.call.loads
  /\ Succeeded("retrieve") =>
       /\ args.call.retrieved
       /\ "access key" \in args.given <=> "secret key" \in args.given
       /\ Len(OptionsNamed("static")) = (IF BothKeys \subseteq args.given THEN 1 ELSE 0)
  /\ Succeeded("region") =>
       /\ returned.region # "configured" => ~ args.configured /\ args.sdk # "error"
       /\ returned.region = "default" => args.sdk = "none" /\ args.metadata = "none"
=============================================================================

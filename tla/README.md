# A TLA+ model of go-secure-stdlib

go-secure-stdlib is a collection of Go packages shared by HashiCorp's servers. It
has no main program: every package keeps some state of its own, or none, and is
called, often from many goroutines, by a server. The packages hardly call each other
(listeners use reloadutil, tlsutil, parseutil and strutil; configutil uses pluginutil,
parseutil, strutil and listenerutil), so the project has one module per package, or
per part of one, and four modules that put independent ones into one model-checking run.

Paths are relative to the repository. "Line" numbers in the modules refer to the
source file named in the module's header.

## 1. Inventory

| Component | State | Operations | What makes it hard | What makes it correct |
|---|---|---|---|---|
| `nonceutil` encrypted nonces (`encrypted_nonce.go`) | AES key, atomic `nextCounter` and `minCounter`, maps `maxIssued`, `redeemedTokens` under `issueLock` | `Get`, `Redeem`, `Tidy`, `Initialize` | counters, clock and maps are touched at different moments by racing goroutines; forgetting by second; wall clock; restarts | accepted at most once; an unused, unexpired nonce is good; memory bounded by the validity; nothing outstanding when all are used |
| `nonceutil` sync.Map nonces (`sync_map_nonce.go`) | `sync.Map`, atomics `nextExpiry`, `issued` | `Get`, `Redeem`, `Tidy` | no lock at all; `Range` concurrent with the rest | as above, with the exact expiry |
| `permitpool` | a buffered channel | `New`, `Acquire`, `Release`, `CurrentPermits` | cancellation against hand-over of a permit | limit, exact count, nobody waits in vain or for ever |
| `regexp` | two weak maps and their inverse, under a lock | `CompileInterned`, `CompilePOSIXInterned`, `Must...`, the cleanup | the collector clears weak pointers long before the cleanup runs | same pattern, same object; no entry leaks |
| `fileutil` | cached bytes and their expiry, under a RWMutex | `ReadFile` | check under the read lock, act under the write lock | bounded staleness, no going back, errors change nothing |
| `reloadutil` | certificate, under a RWMutex | `Reload`, `GetCertificate` | two files are read one after the other while somebody replaces them; installs in another order than reads | what is installed lay on disk at one moment; never older than when the reload began; the newest in the end |
| `gatedwriter` | flag and buffer, under a lock | `Write`, `Flush` | partial writes, failed flushes | bytes once each, in order |
| `awsutil` rotation (`rotate.go`) | configured key; remotely, the user's keys | `RotateKeys`, `CreateAccessKey`, `DeleteAccessKey` | four remote calls that fail, lose answers or take effect late; a timeout around a retry loop | working credentials; overwritten only after the deletion; the new key deleted if the old one is kept; it ends |
| `awsutil` credentials (`generate_credentials.go`, `region.go`, `clients.go`) | none | `NewCredentialsConfig`, `GenerateCredentialChain`, `GetRegion`, `IAMClient`, `STSClient` | options, environment and files combine; half-given pairs and conflicts | one way to one role, the one configured, or an error |
| `plugincontainer` | container ID, cancel function, pipes | `Start`, `Wait`, `Kill`, reattaching, the log goroutine | every Docker request can fail; the daemon removes containers by itself; tags move; the host crashes | the pinned image; stopped after `Kill`; no reader blocked for ever |
| `pluginutil`, `configutil/kms.go` | temporary directory, executable, process; a cleanup function that grows | `BuildPluginMap`, `configureWrapper`, `CreatePlugin`, `cleanup` | failure at any step, cleanup on error and again by the caller; a file replaced between its check and its execution | everything made is torn down, in a safe order; what was checked is what runs |
| `configutil` configuration | none | `ParseConfig`, `parseKMS`, `filterKMSes`, `Merge`, `EncryptDecrypt` | limits per kind of block, disabled blocks, marked values replaced in place, match by match, while their lengths change | every block taken or an error; merging is associative; no marked value is left readable, and decryption gives back the file |
| `listenerutil` X-Forwarded-For | none between requests | `WrapForwardedForHandler`, `TrustedFromXForwardedFor` | counting hops from the end of a list that clients can lengthen at the front | clients cannot choose another address of the header; each reject setting rejects what it says |
| `listenerutil` listeners, `tlsutil` | none | `ParseListeners`, `TLSConfig`, `ClientTLSConfig` | a field may be absent, of several types, or bad | taken as configured or refused; what is served is what is reloaded |
| `listenerutil` response headers | headers and a flag per response | `ParseCustomResponseHeaders`, the `ResponseWriter` | the status is written late, twice, or never | the most specific group decides |
| `listenerutil` Unix sockets | the file at a path, its owner and mode | `UnixSocketListener`, `Close` | files left by dead processes; failure after `Listen` | a listener has its own file, as configured |
| `random`, `base62` | a charset computed by the first `Generate` | `ParsePolicy`, `Generate`, the rules, base62's `Random` | rejection sampling; a generator shared by callers; a context that ends | the rules hold; no character is likelier |
| `password` | the terminal's mode, a goroutine that reads | `Read` | SIGINT against the read | not echoed; the mode restored; the whole line |
| `kv-builder` | the map under construction, whether stdin was read | `Add`, `Map` | keys repeated, values from files, stdin and JSON | all that was given, in order |
| `parseutil`, `strutil` | none | parsing of numbers, durations, capacities, addresses, paths; lists as sets | widths, signs, products; case, spaces, order | what is returned is what was given; sets stay sets, nil and empty lists included |
| `toggledlogger`, `httputil`, `cryptoutil`, `mlock`, `temperror` | none or one flag | - | - | not modelled (section 7) |

Interactions: all of them are calls, callbacks or shared state inside one package,
plus the outside world: clock, disk, terminal, Docker daemon, IAM, garbage collector,
clients. In each module the outside world is a set of actions of its own, mapped as
external.

## 2. Modules

State machines:

* `NonceService` - the abstract service: what a strict nonce service promises whoever
  implements it. A nonce is issued once, accepted at most once and, once lapsed, never
  comes back. When nonces lapse is left open: they expire, restarts and tidying drop them.
* `EncryptedNonce` - `encrypted_nonce.go`. `Get` is `GetIncrement` (the atomic Add),
  `GetStamp` (the clock), then `GetFail` or `GetRecord` (encryption; the critical section
  of `recordCounterForTime`). `Redeem` is `RedeemStart` (clock, decryption, expiry),
  `RedeemCheck` (the unlocked look at `minCounter`) and `RedeemLocked` (the critical
  section, with its deferred tidying). `Tidy` is one critical section. `Tick`, `StepBack`
  and `Restart` are the environment. The loop of `tidySequentialNonces` is characterised
  by `CanReach`: the walk gets as far as counter m. A token is what was sealed, with the
  key it was sealed with: GCM is taken to be unforgeable. The nonce's random bytes play
  no part in the code's decisions.
* `MCEncryptedNonce` - symmetry of the goroutines, used where only safety is checked.
* `SyncMapNonce` - `sync_map_nonce.go`, one action per access to the map or an atomic.
* `PermitPool` - `permitpool.go`. The channel is its length and the queue of blocked
  senders, with Go's rules: first come first served, and a receive lets the first sender
  in within the same step.
* `RegexpIntern` - `regexp.go`. Compilation and cleanup are critical sections;
  collecting an object and running its cleanup are separate steps.
* `CachingFileReader` - `caching_file_reader.go`, with the read lock's copy, the wait for
  the write lock, the read and the store as separate steps, and a file that is
  rewritten and removed at any time.
* `GatedWriter` - `writer.go`. Data are byte numbers, so that loss, doubling and order show.
* `CertificateGetter` - `reload.go`, against an operator who renews the pair file by file,
  each write in two steps.
* `UnixSocket` - `listener.go`: removing an old file, binding, chown, chmod and the two
  removals of a Close are steps; processes crash between them and others take the path over.
* `RotateKeys` - `rotate.go`, against IAM and STS, which accept a new key late.
* `ContainerRunner` - `container_runner_linux.go` and `container_reattach_linux.go`: one
  action per Docker request of `Start` and `Kill`, the copying goroutine, `Wait`, a daemon
  that works by itself, and a host that crashes and reattaches.
* `PluginLifecycle` - `BuildPluginMap`, `configureWrapper` and `CreatePlugin`: which source a
  plugin comes from, the acquisition steps, each of which may fail, the file that may be
  replaced meanwhile, and the set of things the cleanup function does at that point.
* `StringGenerator` - `random` and `base62`: where a generator comes from, the charset that is
  computed by the first of several callers, the drawing of bytes, and the rules.
* `Password` - `password.Read`, its goroutine and the terminal, for Unix and for Windows.
* `ForwardedFor` - one action, over all configurations, peers and headers within the bounds.
* `ResponseHeaders` - a configuration is parsed, then one response is handled call by call.
* `KvBuilder` - one action per argument.

`NoncePromises`, `KeyPromises`, `ReadPromises` and `CertificatePromises` hold the properties that
`SyncMapNonce`, `RotateKeys`, `CachingFileReader` and `CertificateGetter` promise, so that the theorems and the runs of several components state the very same definitions.

Pure functions, each a module with the variables `args` and `result`: a step calls one
function with any arguments within the bounds, and the invariant compares what it returned
with what a caller may expect.

* `ParseUtil` (numbers of several widths and signs, durations, capacities, integer lists,
  addresses, paths), `StrUtil` (lists as sets, key-value lists, globs, search),
* `Listeners` (the parsing of a listener's fields, `TLSConfig`, `ClientTLSConfig`),
* `SharedConfig` (KMS blocks, the configuration around them, merging, encryption),
* `Credentials` (credential chains, regions, clients).

Sums for TLC, whose parts share nothing: a behaviour is one of one part, the others stay in
an initial state.

* `MCShared`: `RegexpIntern`, `GatedWriter`, `CachingFileReader`, `CertificateGetter`, `UnixSocket`.
* `MCCalls`: `PermitPool`, `RotateKeys`, `StringGenerator`, `Password`.
* `MCDecisions`: the five modules of functions, `ForwardedFor`, `ResponseHeaders`, `KvBuilder`.
* `MCServices`: `ContainerRunner`, `PluginLifecycle`, `SyncMapNonce`.

`Lists` holds two operators that several of them use, in a form that can be proved about: the
elements of a list that are in a set (`Only`), and a set as a sorted list (`SortedBy`).

Proofs are in modules of their own (section 5): `EncryptedNonceProofs` and
`SyncMapNonceProofs`; for each sum `SharedProofs`, `CallsProofs`, `PluginProofs`, and
`DecisionProofs` and `ConfigurationProofs` for `MCDecisions`; and `ListLemmas`, the facts about
lists and numbers that these rest on.

Variables called "history" in a comment are read by properties only. Operators after
the words "a mutant" are deliberate mistakes; no specification uses them. Put in the
place of the definition that follows, each makes a property fail.

## 3. Runs

Six runs pass, six show a disagreement.

| Run | Question | Distinct states |
|---|---|---|
| `EncryptedNonce_strict` | Do racing issuers and redeemers, tidying, a clock set back and a restart ever let a nonce count twice? Does the service implement `NonceService`? | 93 000 |
| `EncryptedNonce_orderly` | With one issuer and a steady clock, is every unused nonce honoured until its encoded expiry, is everything drained and freed? | 193 000 |
| `EncryptedNonce_race` | (violation) The same promise with two issuers | - |
| `SyncMapNonce_tidy` | (violation) Are the nonces that were stored, and had expired, when a Tidy began gone when it ends? | - |
| `MCShared` | Are shared objects what each of their users takes them for: equal patterns one object, bytes once and in order, a file never too old and never going back, a certificate and key that lay on disk together, a socket file its listener's? | 386 000 |
| `MCCalls` | Do calls that wait get what they wait for, whatever ends the wait: a permit, a working key, a string within the rules, a password? | 159 000 |
| `MCDecisions` | Do the pure functions, header rewriting and the builder return what was given, and what was encrypted, for every argument within the bounds? | 1 418 000 |
| `MCServices` | Of plugins: does only what was pinned or checked run, and is nothing left of it afterwards? Does the lock-free nonce service implement `NonceService` and honour the returned expiry? | 285 000 |
| `Password_again` | (violation) Is a second prompt after Ctrl-C not echoed? | - |
| `ParseUtil_safe` | (violation) Does SafeParseInt notice overflow? | - |
| `ResponseHeaders_nodefault` | (violation) Are default headers added to any configuration? | - |
| `RotateKeys_cleanup` | (violation) Is the new key deleted when the old one could not be? | - |

### Bounds, and why they are enough

* `EncryptedNonce`: two goroutines on a side make every pair of racing operations; two
  counters make "the next in line" and "out of line" differ, three (orderly) give the
  sequential tidy a middle. Two seconds make an expired and a current timestamp exist side
  by side; ticks of half a second with a validity of half a second make expiries fall
  inside a second and be carried over. Two keys are one restart. The theorems hold
  for all values of these constants.
* `MCShared`. One pattern in both syntaxes; four objects let two generations of an entry await
  their cleanups in either order. Six bytes written in writes of up to two allow a write
  before, between and after failed flushes. Two readers, two rewrites and a ttl of one unit.
  Two reloaders and two renewals: one reload can hold the first pair through the whole of the
  second renewal. Two listeners on one path: a predecessor, alive, closed or dead, and a successor.
* `MCCalls`. Five workers for two permits leave three waiting, so that the queue has a middle
  from which a cancelled worker is taken. Up to four keys under a limit of three, hence a third
  rotation that starts with a stray key and one that meets the limit; a timeout of three units
  with pauses of two and calls of up to one makes the timeout end both a pause and, late, an
  attempt. Bytes are the numbers below three (`maxCharsetLen`, 256 in the code): charsets of one,
  two and three characters divide it, do not divide it, and fill it; a union of them exceeds it.
  Two calls of Read, the second after the first's end, and three keys.
* `MCDecisions`. Integers of five bits (`Half64`, half their number, is 16), with two for the code's
  32-bit types (`Half32` is 2), contain both ends of every range and values that wrap; a second is 3 units
  and a day 6, so products wrap as well. Lists of up to three words of two letters, in both cases, with
  and without spaces. Two listeners. Five tokens on a line hold a marked value, another marker and text
  around them; files of two lines of up to three tokens, and of three typical lines, have several matches,
  so that what lies between two of them counts. Two lines of two values, up to two hops skipped: fewer,
  exactly as many and more entries than hops. Two keys and three arguments: replacing, appending, and a
  third value.
* `MCServices`: two images, so that a tag can move; every combination of debug, pinning,
  execution directory and platform; two sources of plugins, so that one can override another. Of the
  nonce service, two nonces make Tidy's choice matter, two issuers and two redeemers race, and ticks
  are half seconds.

No run checks for deadlock: some systems never stop, but a sum has parts that do (a call
has returned, a bound is reached, a plugin is gone). That nobody waits for ever is stated by the
temporal properties and, for the permit pool, by a theorem.

### Fairness

* `EncryptedNonce_orderly`: `Tidy` is called again and again (a "hook to periodically free
  resources", nonce.go line 15) and time goes on. Nothing is assumed of issuers and redeemers.
* `PermitPool`: who holds a permit releases it in the end, as callers do by `defer`.
  Hand-over to the first sender is the runtime's, hence part of `Release`.
* `RegexpIntern`: objects nobody holds are collected and cleanups run; clients let go or not.
* `CertificateGetter`: the operator finishes a renewal, `Reload` is called again and again,
  and a file that can be read is not unreadable for ever (strong fairness of `ReadKey`
  and `Install`, because an error may intervene each time).
* `RotateKeys`: remote calls return and timers run.
* `ContainerRunner`: the copying goroutine is scheduled, its pipes are read, requests are answered.

Nothing is assumed of users, of clients, or of writers under a gate; the other parts have
no liveness property.

## 4. Disagreements between the code and what it says

Six are shown by runs, one property each.

* `EncryptedNonce_race`: `Get` draws its counter (line 204) before it reads the clock
  (line 205). With two issuers the lower counter can get the later second. When the earlier
  second is over, tidying raises `minCounter` to the higher counter (lines 350-356), and the
  lower one is refused at line 273 although it was never used and has not expired.
* `SyncMapNonce_tidy`: the callback of `Range` returns `false` with the comment "don't quit
  looping" (line 109), but `false` ends the loop: of two nonces that were stored and expired when Tidy
  began, it visits one and leaves the other. The property speaks only of nonces that were there when
  Tidy began, so a Get that stores late does not count.
* `Password_again`: password.go lines 20-21 promise that the password is not echoed. A Read that
  was interrupted leaves its goroutine at the terminal; beside a second Read it takes a line and turns
  the echo on again.
* `ParseUtil_safe`: parseutil.go line 469 says "If no error occurred, the caller knows no overflow
  occurred"; a `uint64` above the largest `int64` is converted (line 259) without one.
* `ResponseHeaders_nodefault`: parse.go line 449 says "It also adds the default headers values"; a
  configuration without a "default" group makes line 510 assign to `h[0]`, a nil map.
* `RotateKeys_cleanup`: rotate.go lines 23-24 announce "we do also try to delete the new one to clean
  up"; when the old key cannot be deleted, line 60 returns without trying.

Others were met and are kept out of the properties, or stated in the weaker form that holds.

* Nonces: `Get` returns an expiry with nanoseconds (nonce.go line 32), the token carries whole
  seconds (line 168): a nonce is refused up to a second before the time returned.
  `HonoursUnexpired` speaks of the encoded expiry.
* Rotation: after a lost answer to the deletion the configuration names a key that is gone.
  `OverwrittenAfterDeletion` says that it is not overwritten then, and that the caller got an error.
* Plugins: on Windows with an execution directory the plugin is written as `name.exe`
  (pluginutil.go lines 271-275) and removed as `name` (lines 258-260); `TornDown` excepts that file.
  A KMS block made by hand with an upper-case type and a plugin_path registers the plugin under a
  name that is never looked up (kms.go line 307), hence `kms.lower` in `CheckedRuns`; a shamir
  block without plugin sources fails in `BuildPluginMap`. A container that was reattached after a
  crash of the host is not removed under Debug, as the runner does not know its configuration.
* Forwarding: forwarded_for.go lines 91-93 say that with `XForwardedForRejectNotPresent` a request without
  a trusted address "should be rejected"; one from a peer that is not authorized is served (lines 147-152)
  unless `RejectNotAuthorized` is set as well, and `RejectSettings` excepts it. An entry that is not an
  address, even one that a client put in front, takes the whole header away (lines 162-181): the request
  is rejected or served under the peer's address. `EarlierEntriesNeverChoose` says exactly that.
* Response headers: options.go lines 31-32 say that the option "provides a default value for the UI
  listener's Content-Security-Policy header", and parse.go lines 451-452 list it; where any UI headers are
  configured, line 528 takes the built-in default whatever the option says. The model lets the option and
  a configuration come together, and `HeadersAsConfigured` expects what the code then does. The headers of
  a 1xx response stay on the final one. `HeadersAsConfigured` excludes responses with one.
* Gated writer: after a failed `Flush` the gate is open while bytes are still held; later writes
  overtake them. `NothingLostOrDoubled` promises the order only until a Flush fails.
* Certificates: of two concurrent `Reload`s the one that read first may install last.
  `NeverOlderThanAtStart` and `NewestServed` are what remains true.
* Unix sockets: Go's own Close unlinks the file, so the wrapper's always reports that it is missing; the
  Close of an older listener removes the file of a newer one (`SocketSound` excludes overlaps from
  what it says of files that are there); when the permissions cannot be set the listener stays open.
* Listeners: the PROXY protocol's `allow_authorized` requires addresses only if the raw field is given
  (parse.go lines 288-298); HTTP timeouts may be negative. A client's TLS configuration accepts a CA text without
  certificates as an empty pool and ignores a certificate that comes without its key.
* Configuration: options.go lines 41-42 say that 0 uses "the lib default, which is currently unlimited";
  `filterKMSes` has limits of 2, 3 and 5 (kms.go lines 233-237), and a file with more blocks is refused.
  `BlocksSound` speaks of the limits that a caller gives. Merging two configurations can exceed the limits
  of the default. A match goes from a line's first opening marker to its last closing one, so two values
  on one line are encrypted as one, and decryption may take an encrypted value and a decrypt marker beside
  it for one and refuse the file: `RoundTrip` then asks only that nothing else comes out.
* Credentials: generate_credentials.go lines 232-234 say that values "are pulled from values provided in
  options" and that the environment is for those that "are not set"; a token given as an option gives way
  to the file that `AWS_WEB_IDENTITY_TOKEN_FILE` names (lines 139-143, 231-242), and `CredentialsSound`
  says just that. `AWS_PROFILE` goes before the profile that was configured, and sticks; chains with a web
  identity drop the external ID and the session tags.
* parseutil: `ParseCapacityString` multiplies without a check and accepts negative integers, and
  `ParseDurationSecond` wraps for a large `uint64`: `ExactOrRefused` is stated for values that
  fit. `ParseIntSlice("")` is one zero; a float such as 2.0 is accepted in a slice but not by `ParseInt`.
  parsepath.go documents `ErrNotAUrl` where `MustParsePath` returns `ErrNotParsed`, and the original
  string where an error comes with none.
* strutil: slices are documented as equivalent if "they contain the same values" (strutil.go lines 296-297);
  a nil one and an empty one do, and are not (lines 303-305). The difference "will also remove any duplicated
  values in set A" (lines 427-429), but not if set B is empty (lines 434-442). `ListsAreSets` says both as the
  code does. `Reverse("")` panics.
* kv-builder: a JSON `null` drops the whole map, and an empty object or `null` vanishes when its key is repeated.
* random: of several blocks of one rule only the first is kept; a negative `min-chars` is accepted; a
  charset of more than 256 characters is refused only by `Generate`; the context is not consulted
  while bytes are drawn.
* password: `PasswordSound` leaves out the Read of `Password_again`.

## 5. Proofs

Checked by tlapm for all values of the constants that satisfy the named assumptions. Every
safety property that a passing run checks is stated by a theorem, except `RoundTrip`, of which the
part about one line is. For the sums the theorem
is about the very behaviours of the run (`MCSpec`): a lemma of each proof module says that a
behaviour about one part is a behaviour of that part's module. The theorems about `SyncMapNonce` and
`RotateKeys` are about these modules' own `Spec`, whose steps those of the sums are.

Assumptions on constants are `ConstantsAssumption` of `EncryptedNonce`, `PermitPool`,
`RegexpIntern` and `ContainerRunner`, `TimeAssumption` (`NoncePromises`), `SharedAssumption` (`MCShared`), `CallsAssumption` (`MCCalls`),
`SourcesAssumption` (`MCServices`) and, in `MCDecisions`, `DecisionsAssumption`, `NumbersAssumption`,
`ListsAssumption` and `AddressesAssumption`. They say that bounds are naturals, that what stands for
"nobody" is nobody, that workers and characters are finitely many, that a ttl and a reading
time are not both zero, and that the narrow integers fit twice into the wide ones; TLC evaluates
them on every run. Three theorems assume more, by name: `Orderly`, `Timeout # 0` and
`~ AfterInterrupt`, explained below.

### `EncryptedNonceProofs`

`Invariance`: `Spec => []IInv`. From it `TypeCorrect`, `NoNonceTwice` (`StrictOnce`) and
`OutstandingSound` (`OutstandingNeverWraps`). `StrictOnce` alone is not inductive: it says nothing of
why a token accepted once would be refused later. `IInv` adds that counters in flight and issued
are distinct and were drawn (`CountersDrawn`, `CountersDistinct`), that an issued counter is either
at most `minCounter` or covered by the maximum recorded for its second (`IssuedRecorded`),
that a redeemed token is refused, by `minCounter` or by its entry (`RedeemedRemembered`), and that
redeemers hold issued tokens of the current key that had not expired at the time they read
(`RedeemersHoldIssued`). The core is the lemma `ForgettingIsSafe`: when a second is dropped from
either map, `minCounter` moves past every counter issued for it, so nothing remembered is lost; the
clock's direction is not used, hence the theorem covers clocks that are set back.

`UnexpiredHonoured` (`HonoursUnexpired`) and `Drained` (`DrainedByTidy`) assume `Orderly`: the clock is
never set back and one goroutine issues, which is what `EncryptedNonce_orderly` checks and what
`EncryptedNonce_race` shows to be needed. `OrderInv` says that who has the larger counter expires no
earlier (`InOrder`, `NextInOrder`), that both maps hold nothing but what was issued and
redeemed (`MapsSound`), and that `minCounter` has passed no nonce that is unused and
unexpired (`NonePassedOver`).

`Refinement`: `Spec => ImplementsService`, each step a `Get`, a `Redeem` or a `Lapse` of
`NonceService`, or invisible to it.

### `SyncMapNonceProofs`

`Honoured` (`HonoursReturnedExpiry`) and `Refinement` (`ImplementsService`). `IInv` follows a nonce: on
its way out of a Get it is nobody else's (`Fresh`); what is stored has the expiry that its Get
returns (`StoredKnown`); whoever took it out of the map is the only one to judge it, and it has
never been accepted (`Taken`, `Spent`); until it expires, Tidy leaves it (`Kept`), for the clock reading
that Tidy compares is in the past and the expiry it visits is the nonce's (`TidyKnows`). A step of
Redeem that takes a nonce out is invisible to the abstract service; the judgement is its
Redeem or a lapse.

### `SharedProofs`

* Regular expressions: `RegexpInv`, the maps are inverse, live objects are the ones interned, dead
  ones have a cleanup ahead; hence `Interned` (`SameAnswer`), `MapsAgree`, `NoLeak`.
* Certificates: `InstalledWhole` (`InstalledWasWhole`) and `NeverBackBeforeStart`. `CertificateInv` says
  that the disk only advances, also beneath what a Reload has read: a certificate read is never older
  than the one served when the Reload began. Of a certificate that
  was read it says (`WholeSince`) that both files have held its renewal at one moment since, or its key
  is yet to be written, or its key is gone for good.
* The file cache: `NeverBack` (`MonotonicReads`), since the write lock excludes, and whoever holds
  it stores a version at least as new as the cached one, which is at least as new as any
  delivered (`OrderInv`). `StalenessBounded` (`BoundedStaleness`) adds what is known of the times: when
  the cached version left the disk, when it was read and when it expires (`StaleInv`).
* The gate: `BytesKept` (`NothingLostOrDoubled`), over `GateInv`: bytes are held behind an open gate
  only after a Flush failed (`HeldOnlyIfFailed`). Order and absence of doubles are those of a
  concatenation, so lemmas say when one is injective or increasing.
* Unix sockets: `SocketOwned` (`SocketSound`). The strengthening says of behaviours without overlapping
  calls that the listener in question has the path alone (`HasItAlone`) and has set what its
  progress says (`SetSoFar`).
* `Typed`, and `PromisesKept`, the promises above of the behaviours of `MCShared`.

### `CallsProofs`

* The pool: typing, a queue without repetition, the exact count and "a queue only while full"
  are inductive together; `LimitTheorem`, `CountTheorem` and `NoIdlePermit` follow. The finiteness of
  the set of workers is what makes counting meaningful.
* Keys: `CredentialsWork` and `OnlyAfterDeletion`, over an invariant about the
  places of a rotation and the key it holds. The first needs a validity check (`Timeout # 0`)
  and the fact that a key about to replace the configured one has been accepted
  (`VerifiedBeforeDelete`); without the check it does not hold. The second compares what a call has
  returned with the configuration it found. For the types, the keys that
  are neither configured nor in hand are counted: one for each rotation that failed after making its key
  (`StrayKeysExact`), as nothing cleans up.
* Strings: `GeneratedAsAsked` (`GeneratedSound`). `StringsInv` says that a generator's charset
  is computed once and is that of its rules whichever caller computes it, and of each caller what it has
  drawn so far and what it may return (`CallOK`). Unbiasedness is a fact about numbers: the bytes
  that give a character are, by a bijection, the multiples of the charset's length below
  the largest byte that is used, so each character has equally many.
* The prompt: `ReadUnseenAndWhole` (`PasswordSound`), unless Read is called beside the goroutine of
  an interrupted Read (`~ AfterInterrupt`; with it the property fails, which `Password_again`
  shows). `PromptInv`: one call at a time has a goroutine (`Turn`), the terminal does not echo while it
  reads (`Hidden`), and what it has read is the line so far (`LineOf`, `ResultOf`).

### `PluginProofs`

* Containers: `OnlyPinned` and `KillWorks`. The invariant ties the state of Kill to the container's and
  the runner's knowledge of its ID, across crashes of the host: a Kill comes after Start, a
  container nobody knows never ran, removal comes after the stop.
* Lifecycle: `NothingLeft` (`TornDown`). `LInv` says what has been acquired at each step
  (`AcquiredSoFar`), and that it is among what the cleanup function will release, or is released
  (`Accounted`). `PinnedIsRun` (`PinnedRuns`) joins both parts; `Typed`.

### `DecisionProofs`

* Headers: `ConfiguredHeaders`. The parser leaves the header maps that the groups say (`ParsedWell`), with
  the option's value only where nothing is configured; until a final status goes out the wrapped headers
  are the handler's own.
* Requests: `AddressDecided`. The place of the address found is counted from the end; addresses put in front
  of the list, in whatever lines, do not move it, and anything else there takes the header away
  (`BadTakesAll`). `RejectsAsSet` goes through the outcomes by setting.
* Credentials: `CredentialsAsConfigured`, by splitting the options of a chain by their names with `Only`;
  `OneWay` says which way to the role there is, `RoleSettled` and `TokenSettled` what it is given.
* The builder: `GivenIsHeld`. What the map holds for a key is what the log of arguments says since
  the last document that speaks of it (`HoldsAll`), and stdin is read once (`StdinOnce`).
* Numbers: `NumbersExact` (`ExactOrRefused`). `ProductExact`: when `overflowMul` reports no error, its
  value is the product, for a wrapped one would differ from it by a multiple of the width, which
  the division would not give back. Numbers that a conversion wraps are negative, hence outside
  ranges from 0; lists are the images of the lists given.

### `ConfigurationProofs`

* `Merges` and `Blocks`, together `ConfigurationSound`: each way of merging a field is associative; the
  seals of a file are its blocks, kind by kind and in order.
* `LinesRoundTrip`: a line of any tokens has one match or none (`OnlyMatch`), from its first opening marker to
  its last closing one; it is split around it, encrypted, and split again at the marker that encryption
  left. Files of several lines are model-checked only (`RoundTrip`): what the loop of matches writes is a
  concatenation over any number of them.
* `ListenersAsConfigured`: each field of a listener is parsed or the list refused.
* `ListsBehaveAsSets` (`ListsAreSets`): the first places of a list are as many as its keys, by a
  bijection; slices are compared with their nil checks; a sorted list has each element of its set once;
  what is put into a map one pair after the other keeps the keys that were there; a part between wildcards
  is a part at a place.

### `ListLemmas`

The library's induction theorems take an operator as a parameter and cannot be instantiated by
the provers at hand. What the proofs need of lists is derived without them: from the least
element of a set of naturals, and from `FlattenSeq` being the last of a list's partial
concatenations (`OnlyAppend`, `OnlyConcat`, `OnlyMapped`, `OnlyKeeps`). A set that is numbered without repetition is listed once by
ranks (`SortedIs`, `SortedOnce`). `Divided` and `DividedOnce` are division with a rest.

### What is not proved

All liveness is model-checked only (`Reclaimed`, `EveryWaitEnds`, `EventuallyEmptied`, `NewestServed`,
`EveryRotationEnds`, `KillReleasesAll`), since the prover does not reason about ENABLED and
fairness. What a recursive definition computes for every input is out of reach as well; the
functions of `MCDecisions` are therefore written with quantifiers, `Only`, `SortedBy` and folds whose
results can be described, and the theorems are about those. The lemmas are about lists
of any length; where the inputs of a pure function are of a fixed length (two lists of up to two
strings that are compared), so is the theorem about its calls.

The type invariants of `EncryptedNonce` and `SyncMapNonce`, the inductive invariants, and
`LimitRespected`, `NoneWaitsInVain`, `MapsInverse` and `NoEntryLeaks` are proved and not
model-checked again.

## 6. Plan

The order was: the nonce services, as they have the most intricate state and promise most;
the concurrent primitives; the components that face a failing outside world; the decisions
on configuration and text; then the proofs of whatever has an inductive invariant, and of the
pure functions.

Left: the capabilities and address translation of rootless containers; the option maps of the
KMS wrappers; the liveness properties, should the prover learn to reason about fairness.

## 7. Not modelled

* Cryptography, encodings and randomness: GCM is unforgeable, keys and nonces are fresh, a source of
  bytes may return any bytes, certificates and keys are pairs or not.
* `toggledlogger`: one flag, read without synchronisation with the call it guards.
  `httputil`, `cryptoutil`, `temperror`: stateless lookups and wrappers. `mlock`: one system call.
* Test doubles, generated code and example programs.
* `parseutil/normalize.go` (spelling of addresses), and the helpers of parseutil and strutil that copy or
  format text.
* `plugincontainer`: Diagnose, address translation and the ACLs of rootless containers.
* `awsutil`: construction of HTTP and SDK clients, the wrapping of errors and the option setters. The AWS
  SDK's own chains are its business.
* `configutil`: the option maps of the KMS wrappers. Of `Sanitized` only what it shows of seals, listeners
  and the cluster name is modelled. `listenerutil`:
  settings whose value is copied unchanged.

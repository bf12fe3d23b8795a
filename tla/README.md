# berghain in TLA+

berghain is a bot challenge for HAProxy. HAProxy asks an SPOP agent whether the
cookie of a request is valid; a visitor without one gets a page that fetches a
challenge, solves it, posts the answer and reloads with the cookie it was given.
This directory models the system from the request that is counted to the cookie
that is minted, checks it with TLC on small instances, and proves its safety
properties with TLAPS for every value of the constants.

## The system

| Component | State it keeps | Operations | Interacts by | Modelled in |
|---|---|---|---|---|
| Level selection (`berghain.go`) | configured levels | `LevelConfig` | called by validators and `ToCookie` | `Levels` |
| Identity and cookie (`identity.go`) | none but pooled buffers | `WriteTo`, `ToCookie`, `IsValidCookie` | called by handlers and validators; reads the cached clock | `Identity`, `Clearance`, `HostIdentity` |
| Cached clock (`time.go`) | one pointer to a time | `Now`, the refresher goroutine | read by every call | `Clearance` |
| PoW validator (`validator_pow.go`) | none on the server | `onNew`, `isValid` | `LevelConfig`, cached clock, response body | `Identity`, `Clearance` |
| Captcha validator (`validator_captcha.go`) | memoized body | `onNew`, `isValid`, host name check | HTTP call to the provider | `Clearance`, `HostIdentity` |
| None validator (`validator_none.go`) | none | `validatorNone` | `ToCookie` | `Clearance` |
| SPOE handlers (`cmd/spop/frontend.go`, `main.go`) | map of frontend entries | `HandleSPOEValidate`, `HandleSPOEChallenge` | messages from HAProxy, one goroutine per call | `Clearance` |
| Host identity (`frontend.go`, `validator_captcha.go`) | none | `normalizeHost`, `getTrustedDomain`, `getDomainAttr`, `captchaHostnameMatches` | pure | `HostIdentity` |
| Hash and buffer pools (`hasher.go` and every user) | hashers, buffers, requests, responses | acquire, write, sum, reset, release | shared by concurrent calls | `HasherPool` |
| HAProxy gate (`examples/haproxy`) | stick table, transaction variables | level, admit, challenge page, error | sends both messages, enforces timeouts | `Gate`; timeouts and arguments in `Clearance` |
| Challenge page (`web/src`) | the page, its timer | fetch, solve, post, count down, reload | HTTP through HAProxy, the browser's cookie jar | `Gate` |
| Configuration (`cmd/spop/config.go`, `main.go`) | built once at the start | load, checks, build | the levels of every request | `Configuration` |
| Lifecycle (`main.go`) | signal and error channels, context, wait group, socket | start, interrupt, shutdown | ends calls in flight; the file of a unix socket | `Lifecycle`; restarts in `Clearance` |
| Support ID, logging, UA policy example, web build | | | | see "Not modelled" |

What is hard here:

- **Clocks.** Every agent has its own cached clock, refreshed about once a second.
  A deadline is set from one clock, rounded down to a whole second, and compared
  with another clock.
- **Check, then act.** A PoW answer is checked and its cookie minted with two
  reads of the clock; a captcha answer waits for a provider in between. HAProxy
  gives up on a call after its processing timeout while the agent goes on.
- **No session.** The server keeps nothing: identity, level, deadline and random
  come back from the browser, and only the HMAC says which of them belong together.
- **Levels.** The requested level depends on the request rate, to which the
  challenge page's own requests add, and changes between the page load, the GET
  and the POST of a challenge, and the reload; it is cut to eight bits and
  corrected to a configured level in some places and kept as it is in others.
- **Shared objects.** Hashers, buffers, requests and responses go from call to call
  through pools. Nothing but the discipline of fill, read, reset, release keeps one
  visitor's bytes out of another's sum, on every one of the paths out of a handler.
- **The round trip.** No single step gets a visitor in. Several failures end in
  a success page that only reloads, tabs replace each other's cookie, and the page
  has two ways to reload.
- **Ends.** main, the agent's goroutine, a context, a wait group and two channels
  end the process in many orders, and a unix socket outlives a process that has not
  closed it.
- **Configuration.** Sections are converted in any order, replace each other, and
  a level's type is counted in four ways on its way to the page.
- **Partial failure.** A provider may count a token without its answer arriving;
  an agent may restart with calls in flight.

## Modules

| Module | What it is |
|---|---|
| `Levels` | `Berghain.LevelConfig` in eight bits |
| `Identity` | what is signed, when it expires, when it is accepted |
| `Clearance` | agents, clocks, calls in flight, browsers, provider: the core |
| `DoorPolicy` | abstract specification: what visitors are promised |
| `ClearanceDoor` | `Clearance` as an implementation of `DoorPolicy`: the refinement mapping |
| `HostIdentity` | host header to identity host, and host and address to hashed bytes, byte by byte |
| `CallPolicy` | abstract specification: what handler calls promise without any shared object |
| `HasherPool` | concurrent calls and the pooled objects they hash, answer and read with, as an implementation of `CallPolicy` |
| `Gate` | one visitor's tabs, the challenge page, HAProxy's rules, the request rate |
| `Configuration` | the file to the levels that are served and what the page reads of them |
| `Lifecycle` | processes, goroutines, signals, channels, the socket |
| `MCClearance`, `MCHostIdentity`, `MCHasherPool`, `MCGate`, `MCConfiguration`, `MCLifecycle` | instances for TLC |
| `ClearanceProofs` | types, clocks, admission |
| `ClearanceWorkProofs` | work, tokens, minting |
| `ClearanceDoorProofs` | `Clearance` implements `DoorPolicy` |
| `HasherPoolProofs`, `GateProofs`, `LifecycleProofs`, `ConfigurationProofs`, `HostIdentityProofs` | the theorems of those modules |

They meet as follows. `Levels` is part of `Clearance`, `Gate` and `Configuration`.
`Clearance` takes host identities and host name matches as constants, which
`MCClearance` computes with `HostIdentity` from real headers. `HasherPool`
shows that calls with shared objects behave as if each were alone (`CallPolicy`), and
so justifies that a sum in `Clearance` is the record of what was signed and that a call
there is a few steps instead of some twenty. `Configuration` shows that a
frontend has the levels written for it, which `Clearance` and `Gate` start from.
`Gate` looks at one visitor, with agents that answer by the comparisons of levels
`Clearance` has in detail, and adds what only the whole round trip shows.

### State of `Clearance`

| Variable | In the code |
|---|---|
| `now` | real time, in ticks; `TicksPerSecond` of them make a second |
| `cached[a]` | the time process `a` last stored in `tc` (`time.go`) |
| `calls[w]` | a handler call between its check and its answer: stage `verify` (siteverify is out) or `mint` (`ToCookie` is next) |
| `challenges`, `cookies` | what has reached some browser; the server keeps neither |
| `solved` | randoms for which a nonce is known |
| `redeemed` | tokens the provider has counted |
| `verdict` | the `valid` variable of the last validate message |

Challenges and cookies carry the fields the code writes plus three history fields
(`conf`, `since`/`at`, `work`) that only properties read. A handler call that reads
the clock once is one action (`HandleSPOEValidate`, `GetNone`, `GetPow`,
`PostPowRefused`); a POST that is accepted is two (`PostPowChecked`, then `Mint` or
`MintTooLate`), and three for a captcha (`PostCaptcha`, `VerdictGranted`, then `Mint`).
`Handle` chooses the request, builds the `RequestIdentifier` and the frontend entry
as both handlers do, and lets the browser show any cookie and post any solution
it can build.

### State of `HasherPool`

| Variable | In the code |
|---|---|
| `st[c]` | where a handler call is, what it hashes and how many fields it has written |
| `held[c]` | the object of each pool (host buffer, request, response, cookie buffer, HMAC, SHA) it holds |
| `free` | what the pools hold |
| `content[o]` | the bytes of a buffer or body, what a hasher was fed |
| `token[o]` | `ValidatorResponse.Token` |
| `sum[o]` | the array inside `zeroHasher` that `Sum` returns a slice of |
| `answer` | the variables set by the last step |

One action per acquire, write, `Sum`, use of the sum and deferred release, in the order of
`WriteTo`, `ToCookie`, `IsValidCookie`, `onNew`, `isValid` and both handlers; every early
return goes to the deferred calls that are pending there.

### State of `Gate`

| Variable | In the code |
|---|---|
| `rate` | `sc_http_req_rate(0)` of the visitor; `LevelOf` turns it into `req.berghain.level` |
| `jar` | the level of the `berghain` cookie the browser keeps |
| `tab[t]` | a tab: what it shows or waits for, the level HAProxy computed for its request and the cookie sent with it, the challenge it has, what is left of the countdown, whether `stop`'s interval runs |
| `lacks` | cookies or features the page finds missing; features matter to PoW only (`Misses`) |
| `solved`, `granted` | history: challenges solved, levels of the cookies received |
| `changes` | how often the surroundings interfered, at most `MaxChanges` |

`Visit` and `Retry` are the visitor; `Loaded` is the `http-request` rules around the
validate message; `Begin`, `GotChallenge`, `Solve`, `Answered`, `Stop` and `Interval` are
`doChallenge` and `stop`. Failures (`LoadedWithoutVerdict`, `NoChallenge`, `Refused`,
`PostFails`) and the window and the cookie running out (`Quiet`, `CookieExpires`) are
interferences.

### State of `Configuration` and `Lifecycle`

`Configuration`: `file` is what decoding leaves of `Config`; `stage` the place in
`runBerghain`; `todo` the sections still to be converted; `built` the map `instance.c`;
`answer` what became of the last request: nothing at level zero (`Disabled`), an index out
of range (`Panics`), or a page with its level, solver, countdown and siteverify endpoint
(`Challenge`). `LoadFails` and `BadSecret` are the fatal ends of loading, `LevelFatal` that of
the conversion.

`Lifecycle`: `main[p]` and `agent[p]` are the two goroutines' places; `signal[p]` is
whether `c` holds a signal, `closed[p]` whether it is closed, `cancelled[p]` the context,
`wg[p]` the wait group; `socket` says who listens on the address, or that the file of a
dead process is there. `Fatal` and a return of main end all goroutines at once
(`Ends`) and run no deferred call; `CloseListener`, then `Done`, are the deferred calls
of `runBerghain` and of its goroutine.

### Abstractions

- The HMAC is symbolic: a sum is the record of what was signed, in `HasherPool` the
  sequence of fields that were written. Cookie and challenge sums are kept apart: after
  the identity a cookie signs eight bytes and a challenge fifty-five, so for one
  identity they never coincide. A browser can recombine what it has seen, and cannot
  produce a new sum.
- `IdBytes` maps host and address to the bytes that are hashed: their concatenation
  (`HostAndAddr`), in which nothing separates the two. Nothing in `Clearance` or its
  proofs assumes that it is injective. `IdentitiesAreApart` says when it is: two
  identities never share their bytes if the last byte of either host does not occur in
  the other's address. Any two visitors with IPv4 addresses at names that end in a
  letter are covered. A host that is an IPv4 literal, or a name that ends in
  `a` to `f` with a visitor whose IPv6 address contains that digit, is outside of that
  guarantee.
- Finding a nonce is one step, and only for randoms that were handed out: for any
  other random a browser has no sum to post with it, so a nonce would not help.
- A missing, misnamed or unreadable argument is the value `Nobody`; both handlers
  return early on it.
- A cookie reaches the browser in the step that mints it, if HAProxy still waits.
- A refused PoW answer runs through `Reset(ExpectedSum(..))` in `Clearance`, and through
  the body of the pooled response and its deferred reset in `HasherPool`.
- Support IDs may be reused in the model; HAProxy issues a fresh one each time.
  The model allows more than the code does.
- `HostIdentity` works on the byte codes of the header. Case folding is ASCII:
  `strings.EqualFold` agrees with it on the bytes of host names and IP literals.
- In `HasherPool` a pool holds all of the objects it will ever make, since `New` makes them
  as empty as a release leaves them. Returning an object to a pool empties it and
  forgets its last sum: another call may overwrite the array from then on.
- In `Gate` a request's level is fixed when HAProxy counts it, and the cookie decided
  on is the one that was sent with it. What the agent does with a message is one action, with
  the acceptance rules of `Clearance` (a PoW challenge is bound to its level, a captcha
  token is not). Rates above `MaxRate`, which lies above every threshold, are not
  told apart.
- `Configuration` starts from the decoded file. `Lifecycle` takes from the
  configuration only the network of the listen address (`Network`), and treats the
  library's `Serve` as external: it may return at any time, with the listener closed
  or not.

## Runs

`tlc -config <run>.cfg <module>`. Deadlock is checked except in `host_identity`, where a
finished header is the end, and in `config` and `digit`, where a fatal error is.

| Run | Module | Question | Instance | States |
|---|---|---|---|---|
| `pow` | `MCClearance` | Who is admitted and turned away, how long does work count? | two agents, two addresses, half-second ticks, seven ticks, duration one second, lag of at most one second | 104,785 |
| `captcha` | `MCClearance` | What does a token buy, how often, and is `DoorPolicy` implemented across clocks? | two agents, two calls in flight, two tokens (one of a page of the trusted domain, one of a strange page), two cookies, five ticks of a second, duration two, lag of at most one | 109,180 |
| `levels` | `MCClearance` | Is the level and the visitor something was earned for the one it is worth something to, and is `DoorPolicy` implemented? | a none and two PoW levels; requested levels 1, 2 and 261; two addresses | 19,616 |
| `frontend` | `MCClearance` | Does the identity contain the frontend, as `DESIGN.md` says? (violated) | two frontend entries, one name that falls back | |
| `host_identity` | `MCHostIdentity` | Ports, trusted domains, cookie domains, captcha pages, identities kept apart | headers of up to five pieces, three domains, four addresses | 111,111 |
| `pools` | `MCHasherPool` | Whose data ends up in an answer, and is `CallPolicy` implemented? | two calls at a time, two objects in each of the six pools | 32,810 |
| `gate` | `MCGate` | Is the application earned, and is everybody served? | two tabs, thresholds 1, 3, 5, levels PoW, PoW, captcha, countdowns 1, 0, 2, two interferences | 552,713 |
| `unaided` | `MCGate` | Does the page get there by itself? | two tabs, levels none, PoW, captcha, no interference | 4,186 |
| `passed` | `MCGate` | Does the success block mean a challenge was passed, as `README.md` says? (violated) | one tab, no interference | |
| `lifecycle` | `MCLifecycle` | Which ends leave the socket behind, and does every interrupt and failure end the process? | two processes on one unix socket | 1,520 |
| `config` | `MCConfiguration` | Which files are served, and does a request get what was written for it? | sections of up to two right or wrong levels, overriding frontends, empty sections and sections of 254 to 257 levels; requested levels 0, 1, 2, 255, 256 and 258 | 57,459 |
| `digit` | `MCConfiguration` | Is every countdown a digit, as `validator_none.go` says? (violated) | files with a negative countdown | |

Bounds. `MaxTime`, `MaxChallenges` and `MaxCookies` end the runs of `Clearance`. In `pow`, seven
ticks cover the duration of a challenge (two), both clocks' inaccuracy (four) and the
processing timeout (one), so the latest admission and the latest mint the properties
allow are reached, and the mutants that go one tick further are caught. One
challenge and one cookie are enough there because the properties relate one cookie
to one challenge; two identities are present so that either can try the other's.
`captcha` has two cookies because one token buying two, and one receipt being exchanged
twice, is what it looks for. Two agents with clocks of their own and five ticks let a
cookie be shown to another agent than the one that minted it until after the last
tick it may be admitted at (duration two, lag one, rounding one), so the deadlines of
`DoorPolicy` can fail there. How long it waits for a visitor's work is reached in
`pow`, where `WorkExpires` states the same bound.

`levels` is about who and what a sum is good for: a GET at one PoW level and a POST at
the other, or at a level above the configured ones that is corrected to the same;
another address with the same challenge; a cookie shown at a lower or higher level.
One tick is enough, as nothing there depends on the clock. No instance sets
`skip_hostname_check`, which only takes a guard away.

`pools` needs two calls and two objects per pool: the properties are about one call
meeting another's leftovers or objects, and with two objects both the reuse of one and
the concurrent use of both occur. `gate` has four requests to a round and thresholds two
apart, so that a round may be asked for two levels and the reload for a third;
two interferences let a failure follow a failure, and two tabs are the least that can
replace each other's cookie. `MaxRate` is one above the highest threshold.
`lifecycle` has two processes, the least for one to meet the file, or the listener, of
another; each may restart without bound. `config` has sections of one level to be right
or wrong, of two to be chosen from, of none, and around 256 for the eight bits of their
number; the requested levels 256 and 258 are for the eight bits of the request.

Agents, addresses, workers, calls and the objects of a pool are symmetric in `pow`,
`captcha`, `levels` and `pools`, which check no liveness. The runs with liveness use no symmetry.

Every property is broken by a mutant of a mapped definition (`PROJECT.json`,
"mutants"): a deadline rounded up, a comparison off by one, a field left out of the
hash, a missing reset, a release skipped by an early return,
a provider failure that lets visitors through, a page that does not reload, a
listener left open, a channel closed before the agent is done.

### What the properties say

- `AdmissionJustified`, `ClearanceHonoured`: the two sides of the clock. A cookie is
  never honoured later than its duration plus a second (rounding) plus `MaxLag` after
  it was minted, and never refused to its visitor earlier than `MaxLag` before the
  end of its duration.
- `AdmissionMeetsLevel`: a cookie carries the requested level, the work was that of the
  corrected one; the comparison of requested levels is still the right one.
- `ClearanceEarned`, `WorkExpires`, `TokenBuysOneCookie`: what a cookie costs, how long
  work can be exchanged for one, and that a token is exchanged once. These cross the
  gap between check and mint.
- `SumsAreDated`: no sum without a deadline leaves the agent.
- `KeepsThePromise`: all of this seen from outside. A door gives jobs, passes for jobs or
  receipts, admits on a pass that fits and lives, and never turns one away early.
- `PortIsCut`, `IdentityIsStable`, `CookieIsStored`, `OwnPageMatches`, `OtherPagesDoNotMatch`:
  the identity host and what depends on it agree about ports, case and
  trusted domains. `IdentitiesAreApart`: two visitors are two to the hash, see
  "Abstractions".
- `OneUserEach`: an object is in its pool or with exactly one call, whatever path the
  call takes out. `AnswerIsOwn`: an answer is made of its own request's data. `AsIfAlone`:
  seen from outside, a call answers its request at most once, while it is open, with
  what that kind of request may be told, and accepts what was made for itself alone.
- `AppIsEarned`: a page of the application HAProxy wanted a level for was paid for with
  the work of that level or one above, also when a verdict is missing, a level moves
  in the middle of a round, or another tab changes the cookie.
- `EventuallyServed`: whoever gets the challenge page gets to the application.
  `ServedUnaided`: without failures, and with a rate that does not fall, by the page alone.
- `LevelIsServed`, `ProviderIsConfigured`, `CountdownIsConfigured`: what the operator wrote for a
  frontend is what a request to it gets, through the eight bits of the level and
  the four numberings of the types. A request gets no answer exactly if its level is
  zero in eight bits (256 included); with 1 to 255 levels it gets the one it asked for or
  the highest; and only a section without any level can end in an index out of range. `ServesOnlyChecked`: an agent that serves has
  checked every section.
- `NeverStuck`: main, the agent's goroutine and the one that closes the channel never
  wait for each other: a process that has not ended, and does not simply serve, has a
  step of its own, and one that still serves after an interrupt has been told to stop.
  `EveryStepIsNearer`: no order of its steps is a circle, each leaves fewer to go.
- `SocketIsCleaned`: only a kill, or a second interrupt before the agent has stopped,
  leaves the socket file behind. `OneServer`: no process takes the address of another.
  `InterruptEnds`, `FailureEnds`: every interrupt main has asked for, and every agent that
  cannot listen or stops accepting, ends its process.

### Where code and documentation differ

- `DESIGN.md:5` says an identity contains the frontend. It does not
  (`identity.go:37-41`), and all entries share one secret, so a cookie earned by one
  entry's levels and durations is valid at every other for the same host and address
  (run `frontend`). `AdmissionMeetsLevel` is for that reason stated for cookies of the same
  entry only.
- `README.md:109` and its example (lines 124 to 126) present the success block of the page as
  the report of a challenge that was passed. It also runs when the answer was refused,
  which is an empty 200, and when the submission failed, which `challengePOW` catches
  (`challanges.js:44-50`): run `passed`. The visitor is served all the same, since that
  page reloads like any other (`ServedUnaided`).
- `validator_none.go:22` says adding the countdown to `'0'` gives the single correct digit, and
  `docs/index.html:303` that it is configurable from 0 to 9. `config.go:79` refuses what is
  above 9 and lets negative countdowns pass: run `digit`. `CountdownIsConfigured` is for that
  reason stated for countdowns that are not negative.

### Fairness

`Clearance`, `HasherPool`, `Configuration` and `HostIdentity` assume none: their properties
are about safety.

- `PageSpec` (in `unaided`): per tab, weak fairness of `Works` (HAProxy answers every request
  within its timeouts, be it with an error; the page's promises settle; solvers come
  to an end, which for a captcha means that the visitor solves the widget) and of `Interval` (the browser runs timers).
- `FairSpec` of `Gate` adds a visitor who wants in: weak fairness of `Retry` (reloading a
  page that failed, as it advises) and of `FixBrowser` (cookies allowed again). Failures,
  requests leaving the window and expiring cookies are bounded by `MaxChanges` together:
  under an endless series of them nobody is promised anything, and the code does
  not promise it either. What the page does of itself, the requests that raise
  the level included, is not bounded.
- `FairSpec` of `Lifecycle`: goroutines that can run do, and `Serve` returns once its
  context is cancelled. The latter is the promise of the library. That `Accept` fails,
  a signal arrives or a process is killed is never assumed.

### Assumptions

- `MaxLag`: a cached clock is never more than `MaxLag` behind. The refresher sleeps a
  second between stores and is a goroutine of its own; how late the scheduler runs it
  is the parameter. `TimeAssumption` asks for at least a second. The model lets a store
  happen whenever a second has passed, and `Tick` waits for agents that are `MaxLag` behind.
- Clocks of different hosts agree apart from the lag, and real time does not go back.
- `ConfigAssumption`: 1 to 255 levels per entry, and a default entry. The code does not
  check the number: without levels `LevelConfig` panics, and with 256 it selects the last.
  `Configuration` has both cases: `LevelIsServed` says that an index out of range needs a
  section without levels, and promises the level asked for with 1 to 255. Whether the
  process survives the panic is up to the SPOP library and not modelled.
- `TicksAssumption`, `TokenAssumption`: a second has ticks; a token is not a challenge.
- `PoolAssumption`: every object belongs to one pool. `GateAssumption`: thresholds below
  `MaxRate`, 1 to 255 levels, countdowns of a digit. `LifecycleAssumption`: the values that
  stand for no process are none. `FilesAssumption`: decoding yields the Go types.
  `RequestsAssumption`: a requested level is an integer, which `Level` cuts to eight bits.

## Proofs

| Module | Theorem | Says |
|---|---|---|
| `ClearanceProofs` | `LevelIndexInRange` | `LevelConfig` stays inside `Levels` |
| | `TypeCorrect`, `Inductive` | `[]TypeOK`, `[]IInv` |
| | `AdmissionIsJustified`, `ClearanceIsHonoured`, `AdmissionIsAtLevel` | the admission properties |
| | `SumsAreAllDated` | no sum without a deadline leaves the agent |
| `ClearanceWorkProofs` | `WorkInvariant` | `[]WorkInv` |
| | `ClearanceIsEarned`, `WorkDoesExpire`, `TokensBuyOneCookie` | its three consequences |
| `ClearanceDoorProofs` | `ImplementsTheDoor` | `Spec => KeepsThePromise`, the refinement |
| `HasherPoolProofs` | `PoolInvariant`, `ObjectsHaveOneUser`, `AnswersAreOwn` | the pools, for any number of calls and objects |
| | `SharingIsInvisible` | `Spec => AsIfAlone`, the refinement |
| `GateProofs` | `GateInvariant`, `ApplicationIsEarned` | nobody gets in unpaid |
| `LifecycleProofs` | `LifecycleInvariant`, `SocketIsAlwaysCleaned`, `ServesAlone` | the socket |
| | `NothingIsStuck`, `ProcessesComeToAnEnd` | what the two liveness properties of the run rest on |
| `ConfigurationProofs` | `ConversionInvariant`, `LevelsAreServed`, `ProvidersAreConfigured`, `CountdownsAreConfigured`, `OnlyCheckedIsServed` | any files, any number of sections and levels |
| `HostIdentityProofs` | `PagesMatchThemselves`, `OnlyPagesUnderItMatch`, `CookiesAreStored`, `IdentitiesStayApart` | headers put together from any number of pieces |
| | `PortsAndOnlyPortsAreCut`, `IdentitiesAreStable` | the port loop, and normalising twice |

They hold for every value of the constants the assumptions above allow: any number of
agents, workers, levels (1 to 255), hosts, addresses, tokens, tabs, calls, objects and
processes, any durations, thresholds and timeouts, and any `MaxLag` of at least a second.

**Clearance.** `AdmissionJustified` is not inductive: it speaks of the clock that checks a
deadline and of real time when the cookie was minted, and what connects them is the
clock the deadline was set from, which the cookie does not keep. `IInv` adds
that every deadline of a cookie or challenge equals `ExpireAt(t - lag, duration)` for the
real time `t` it was set at and some lag of at most `MaxLag`. `DeadlineMet` and
`DeadlineMissed` turn that into the bounds; `ValidIsMinted` says that an accepted sum is a
cookie's, never a challenge's.

`WorkInv` carries the facts that hold at the check to the mint, in between which the
clock, the agent and other calls move: `CallsJustified` says what each call in flight has
been checked for, and that this stays true because challenges, solved randoms and
redeemed tokens only grow (`Growth`, `CallStaysJustified`). `TokensSpentOnce` says that at
most one of a minting call and a cookie holds a token: a call that starts minting with a
token found it not yet redeemed, every other holder has it redeemed.

**Refinement.** A step maps by what it adds: a tick to `Wait`, a new challenge to
`GiveJobs`, a mint to `GivePasses`, a verdict to `Answer`, the rest to `Rest` or a stutter. That a
pass was earned is `WorkInv` after the step; that an answer may, or must, admit is
`DeadlineMet`, `DeadlineMissed` and `ValidIsMinted` of the cookie that was shown.

**Pools.** `OneUserEach` and `AnswerIsOwn` need what every call holds at every stage
(`Holding`), what its hasher has been fed and its buffers contain (`Fed`), what is in its
response (`Response`), the stages its kind of request passes (`Route`), and that what
is in a pool is empty (`PooledIsEmpty`). A step of one call leaves the facts of the others
alone because they hold no object in common, which is where `OneUserEach` is needed in
the proof of `AnswerIsOwn`.

`SharingIsInvisible` maps a call to its request and whether it may still answer. Acquiring,
writing, summing and releasing are then steps of nobody, an early return is `GiveUp`, and
an answer is a `Say`, for which it has to be one of `CallPolicy`'s sayings: its body and
token are, byte for byte, those a call without pools would have written. That is
`AnswerIsOwn` after the step, and the invariant before it says that the call still has
its request and that no field of its request has changed meanwhile.

**Gate.** The cookie in the jar, and in every request under way, is one that was granted
(`CookiesAreGranted`); what was granted was worked for (`GrantsAreEarned`); what is being
posted was solved (`PostsAreSolved`). An admission by HAProxy then leads back to work.

**Lifecycle.** `SocketIsCleaned` rests on the order of the deferred calls: who listens is
between `Listen` and `listen.Close` (`ListensWhileServing`), the wait group counts the agent
until both are behind it (`WgCountsTheAgent`), and the channel is closed only then
(`ClosedIsDone`). `NeverStuck` goes through the places main may be at; where it waits for the
end of the agent, `WgCountsTheAgent` says that the agent is on its way or done, and
`AgentIsTold` that its context is cancelled. `EveryStepIsNearer` counts the steps ahead
of the goroutines and goes through the actions. Together they are the argument
for `InterruptEnds` and `FailureEnds` up to fairness: there is always a step, and only
finitely many of them.

**Configuration.** `ConvertedSoFar`: sections that are done are right and the
frontend of a section that is done has its levels; nothing converted later takes them
away, because the default section comes first and the others have keys of their own.

**Host identity.** `NameMatchesIdentity`, `DomainIsStored`, `HostsAndAddressesAreApart`,
`PortsAreCut` and `OnlyPortsAreCut` are lemmas about any header, and where they
concern trusted domains about any list of them; the theorems follow from these.

The port loop of `normalizeHost` and the number the property reads are recursive
functions (`PortValue`, `Number`). That they agree is an induction over the header, and the
prover cannot instantiate an induction theorem. `LeastOf` (a nonempty set of naturals
has a least member, from the library's well-foundedness) takes its place: were there
a place where the two differ, there would be a first one (`RoundAgrees`), and a round
of the loop does not make it. `Runs` says when a function is computed that way.

`IdentityTwice` says that the identity host of an identity host is itself. It needs
trusted domains without a colon or an opening bracket (`PlainDomains`), and this is
no weakness of the proof: with the trusted domain `b:80` the host `x:1.b:80` has the
identity host `b:80`, and `b:80` has `b`. `getTrustedDomain` does not check what the
operator lists, and a domain with a port in it is none a browser could be on.

Only model-checked: `EventuallyServed`, `ServedUnaided`, `InterruptEnds` and `FailureEnds`.
Liveness under fairness is out of the prover's reach. Every invariant, action property
and refinement that a passing run checks is a theorem.

## Not modelled

- Logging: nothing reads it back. The User-Agent policy example: a second way to compute
  the level, which the agents cannot tell apart from the first. The web build: no
  state at run time.
- `ParseListener`, YAML and base64 decoding, and the framing of SPOE key/value pairs:
  conversions without a property of this project; the models start from their results.
- The syntax of support IDs (`ValidSupportID`), the limit of 256 bytes of a host, and the
  folding of characters outside ASCII in `EqualFold`.
- What the page displays and the hooks it calls, except for when the success block runs.
- The refill of HAProxy's rate window request by request: `Quiet` lets the rate fall to
  any lower value at once.

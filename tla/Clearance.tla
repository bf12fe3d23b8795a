------------------------------ MODULE Clearance ------------------------------
(***************************************************************************)
(* The life of a clearance: a visitor asks an agent for a challenge, works *)
(* for it, is given a cookie, and shows the cookie until it expires.       *)
(*                                                                         *)
(* Several agents (SPOP processes behind HAProxy) share one secret. Each   *)
(* has its own cached clock, which lags behind real time, and serves calls *)
(* concurrently. A PoW or captcha answer is checked and its cookie minted  *)
(* in separate steps of one call, and HAProxy may give up on the call in   *)
(* between. Real time is counted in ticks; a visitor's browser may show    *)
(* any cookie, altered or not, that it can build from the sums it was      *)
(* given.                                                                  *)
(***************************************************************************)
EXTENDS Identity, Levels, Sequences, FiniteSets

CONSTANTS
  Agents,           \* SPOP processes that share the secret
  Workers,          \* handler calls an agent system can have in flight
  FrontendNames,    \* the fe_name values HAProxy sends
  Configured,       \* Configured[name]: the levels of a configured frontend
  DefaultFrontend,  \* the entry used for every other name
  LevelArgs,        \* values of req.berghain.level HAProxy may send
  RawHosts,         \* Host headers
  Addrs,            \* source addresses
  HostId,           \* HostId[config][host]: normalized, trusted-domain host
  IdBytes,          \* IdBytes[host][addr]: host and address as hashed
  HostMatches,      \* <<page, host>>: captchaHostnameMatches accepts
  SupportIDs,       \* support IDs HAProxy issues
  Tokens,           \* captcha widget tokens
  TokenPage,        \* TokenPage[t]: page the widget of t was solved on
  Nobody,           \* a missing or unreadable argument
  MaxLag,           \* a cached clock is never further behind than this
  ProcTimeout,      \* SPOE "timeout processing" of the challenge agent
  ClientTimeout,    \* timeout of the siteverify HTTP client
  MaxTime, MaxChallenges, MaxCookies   \* bounds of the checked instance

VARIABLES
  now,         \* real time
  cached,      \* cached[a]: the time agent a last stored in its timeCache
  calls,       \* calls[w]: the handler call worker w is running
  challenges,  \* challenges whose sum some browser has seen
  solved,      \* randoms a browser has found a nonce for
  redeemed,    \* captcha tokens the provider has accepted
  cookies,     \* cookies that reached a browser
  verdict      \* the "valid" variable the last step set, if it set one

vars == <<now, cached, calls, challenges, solved, redeemed, cookies, verdict>>

------------------------------------------------------------------------------
(* Configuration                                                           *)

ValidationTypes == {"none", "pow", "captcha"}
Names           == DOMAIN Configured

LevelConfigs ==
  [type : ValidationTypes, duration : Nat, skipHostname : BOOLEAN]

ASSUME ConfigAssumption ==
  /\ DefaultFrontend \in Names
  /\ \A c \in Names :
       /\ Configured[c] \in Seq(LevelConfigs)
       /\ Len(Configured[c]) \in 1 .. 255
  /\ LevelArgs \subseteq Int

ASSUME TimeAssumption ==
  /\ MaxLag \in Nat /\ MaxLag >= TicksPerSecond
  /\ ProcTimeout \in Nat /\ ClientTimeout \in Nat
  /\ MaxTime \in Nat /\ MaxChallenges \in Nat /\ MaxCookies \in Nat

(* A token is neither a random nor a missing value.                        *)
ASSUME TokenAssumption ==
  \A t \in Tokens : t # Nobody /\ t \notin [exp : Nat, sid : SupportIDs]

(* instance.Frontend: unknown names fall back to the default entry.        *)
Frontend(name) == IF name \in Names THEN name ELSE DefaultFrontend

(* Berghain.LevelConfig of the frontend entry c.                           *)
LevelConfig(c, level) == Configured[c][LevelIndex(Len(Configured[c]), level)]
Duration(c, level)    == LevelConfig(c, level).duration
Type(c, level)        == LevelConfig(c, level).type

------------------------------------------------------------------------------
(* Requests                                                                *)

Requests == [frontend : FrontendNames, level : LevelArgs,
             addr : Addrs \cup {Nobody}, host : RawHosts \cup {Nobody}]

(* Both handlers return without an answer when the level is zero after the *)
(* conversion to uint8, or when src or host cannot be used.                *)
Dropped(req) ==
  \/ Uint8(req.level) = 0
  \/ req.addr = Nobody
  \/ req.host = Nobody

(* Mutant: the level is not converted.                                     *)
WideLevel(req) ==
  LET host == HostId[Frontend(req.frontend)][req.host]
  IN  [id |-> IdBytes[host][req.addr], host |-> host, level |-> req.level]

(* The RequestIdentifier the handlers build.                               *)
RequestIdentifier(req) ==
  LET host == HostId[Frontend(req.frontend)][req.host]
  IN  [id    |-> IdBytes[host][req.addr],
       host  |-> host,
       level |-> Uint8(req.level)]

------------------------------------------------------------------------------
(* Records                                                                 *)

Idle == [stage |-> "idle"]
NoVerdict == [given |-> FALSE]

NoWork  == Nobody

Random(ch)  == [exp |-> ch.exp, sid |-> ch.sid]
SumOf(ch)   == ChallengeSum(ch.id, ch.level, Random(ch))
Cookie(c)   == [level |-> c.level, exp |-> c.exp,
                sum   |-> CookieSum(c.id, c.level, c.exp)]

(* A challenge is remembered with the frontend entry and the real time it  *)
(* was handed out at; the code keeps neither.                              *)
NewChallenge(a, ri, c, sid) ==
  [id |-> ri.id, level |-> ri.level, sid |-> sid,
   exp |-> ExpireAt(cached[a], Duration(c, ri.level)),
   conf |-> c, since |-> now]

(* Mutant: the expiration is rounded up.                                   *)
RoundsUp(a, ri, c, work) ==
  [id |-> ri.id, level |-> ri.level,
   exp |-> ExpireAt(cached[a], Duration(c, ri.level)) + 1,
   conf |-> c, at |-> now, work |-> work]

(* ToCookie: the cookie carries the requested level, not the corrected     *)
(* one. conf, at and work are remembered for the properties only.          *)
ToCookie(a, ri, c, work) ==
  [id |-> ri.id, level |-> ri.level,
   exp |-> ExpireAt(cached[a], Duration(c, ri.level)),
   conf |-> c, at |-> now, work |-> work]

Answered(w) == calls' = [calls EXCEPT ![w] = Idle]

------------------------------------------------------------------------------
Init ==
  /\ now = 0
  /\ cached = [a \in Agents |-> 0]
  /\ calls = [w \in Workers |-> Idle]
  /\ challenges = {}
  /\ solved = {}
  /\ redeemed = {}
  /\ cookies = {}
  /\ verdict = NoVerdict

(* Real time passes as long as every agent's refresher keeps up.           *)
Tick ==
  /\ now < MaxTime
  /\ \A a \in Agents : now - cached[a] < MaxLag
  /\ now' = now + 1
  /\ verdict' = NoVerdict
  /\ UNCHANGED <<cached, calls, challenges, solved, redeemed, cookies>>

(* The refresher goroutine wakes up at least a second after its last store.*)
Refresh(a) ==
  /\ now - cached[a] >= TicksPerSecond
  /\ cached' = [cached EXCEPT ![a] = now]
  /\ verdict' = NoVerdict
  /\ UNCHANGED <<now, calls, challenges, solved, redeemed, cookies>>

(* A new process stores the time before it serves its first call; the      *)
(* calls of the old one are lost and HAProxy answers them with an error.   *)
Restart(a) ==
  /\ cached' = [cached EXCEPT ![a] = now]
  /\ calls' = [w \in Workers |->
                 IF calls[w] # Idle /\ calls[w].agent = a THEN Idle ELSE calls[w]]
  /\ verdict' = NoVerdict
  /\ UNCHANGED <<now, challenges, solved, redeemed, cookies>>

------------------------------------------------------------------------------
(* The browser                                                             *)

(* Finding a nonce depends on the random alone, not on the identity.       *)
Solve ==
  \E ch \in challenges :
    /\ Random(ch) \notin solved
    /\ solved' = solved \cup {Random(ch)}
    /\ verdict' = NoVerdict
    /\ UNCHANGED <<now, cached, calls, challenges, redeemed, cookies>>

(* A browser can show a cookie it was given, or put any level and          *)
(* expiration in front of a sum it was given.                              *)
KnownSums  == {Cookie(c).sum : c \in cookies} \cup {SumOf(ch) : ch \in challenges}
ShownExps  == {c.exp : c \in cookies \cup challenges} \cup {Unix(MaxTime) + 1}
Showable ==
  {NoCookie} \cup
  [level : {Uint8(l) : l \in LevelArgs}, exp : ShownExps, sum : KnownSums]

(* Likewise it can post any random with any sum, and a nonce that solves   *)
(* only a random it has found one for.                                     *)
PostedRandoms == [exp : ShownExps, sid : SupportIDs]
Solutions ==
  [random : PostedRandoms, sum : KnownSums, solves : {FALSE}] \cup
  [random : PostedRandoms \cap solved, sum : KnownSums, solves : {TRUE}]

------------------------------------------------------------------------------
(* The validate message. ri is the RequestIdentifier of the message, c the *)
(* frontend entry it was sent to.                                          *)

(* HandleSPOEValidate: one read of the cached clock, one answer.           *)
HandleSPOEValidate(a, ri, c, shown) ==
  /\ verdict' = [given |-> TRUE, conf |-> c, id |-> ri.id, level |-> ri.level,
                 shown |-> shown, valid |-> IsValidCookie(ri, shown, cached[a])]
  /\ UNCHANGED <<now, cached, calls, challenges, solved, redeemed, cookies>>

(* Either handler returns early: the transaction gets no variable at all.  *)
DropRequest(req) ==
  /\ Dropped(req)
  /\ verdict' = NoVerdict
  /\ UNCHANGED <<now, cached, calls, challenges, solved, redeemed, cookies>>

------------------------------------------------------------------------------
(* The challenge message                                                   *)

Free(w) == calls[w] = Idle

(* Answers that hand out neither a sum nor a cookie: to a method other     *)
(* than GET and POST, to a "none" or PoW request without a support ID      *)
(* (HAProxy sets one on GET only, so every POST to a "none" level), the    *)
(* static captcha widget, and to an empty or oversized captcha token.      *)
AnswerOnly ==
  /\ verdict' = NoVerdict
  /\ UNCHANGED <<now, cached, calls, challenges, solved, redeemed, cookies>>

(* validatorNone on GET: the cookie comes with the challenge.              *)
GetNone(a, ri, c) ==
  /\ Type(c, ri.level) = "none"
  /\ Cardinality(cookies) < MaxCookies
  /\ cookies' = cookies \cup {ToCookie(a, ri, c, NoWork)}
  /\ verdict' = NoVerdict
  /\ UNCHANGED <<now, cached, calls, challenges, solved, redeemed>>

(* powValidator.onNew                                                      *)
GetPow(a, ri, c, sid) ==
  /\ Type(c, ri.level) = "pow"
  /\ Cardinality(challenges) < MaxChallenges
  /\ challenges' = challenges \cup {NewChallenge(a, ri, c, sid)}
  /\ verdict' = NoVerdict
  /\ UNCHANGED <<now, cached, calls, solved, redeemed, cookies>>

(* What the response body of a refused PoW answer holds: isValid writes    *)
(* the expected sum into resp.Body, and the deferred Reset empties it      *)
(* again before the handler copies it to the transaction.                  *)
KeepsBody(body) == body      \* mutant: the deferred Reset is missing
Reset(body) == {}
ExpectedSum(ri, solution) == {ChallengeSum(ri.id, ri.level, solution.random)}
RefusedBody(ri, solution) == Reset(ExpectedSum(ri, solution))

(* A sum in a body is one the browser can answer from now on.              *)
Learned(c, body) ==
  {[id |-> s.id, level |-> s.level, sid |-> s.random.sid,
    exp |-> s.random.exp, conf |-> c, since |-> now] : s \in body}

(* powValidator.isValid rejects the solution.                              *)
PostPowRefused(a, ri, c, solution) ==
  /\ Type(c, ri.level) = "pow"
  /\ ~IsValidSolution(ri, solution, cached[a])
  /\ challenges' = challenges \cup Learned(c, RefusedBody(ri, solution))
  /\ verdict' = NoVerdict
  /\ UNCHANGED <<now, cached, calls, solved, redeemed, cookies>>

(* A call goes on after a first step, as "verify" or as "mint".            *)
Start(w, stage, a, ri, c, work) ==
  /\ Free(w)
  /\ calls' = [calls EXCEPT ![w] =
       [stage |-> stage, agent |-> a, ri |-> ri, conf |-> c, start |-> now,
        work |-> work]]

(* powValidator.isValid accepts it; ToCookie is still to come and reads    *)
(* the cached clock again.                                                 *)
PostPowChecked(w, a, ri, c, solution) ==
  /\ Type(c, ri.level) = "pow"
  /\ IsValidSolution(ri, solution, cached[a])
  /\ Start(w, "mint", a, ri, c, solution.random)
  /\ verdict' = NoVerdict
  /\ UNCHANGED <<now, cached, challenges, solved, redeemed, cookies>>

(* captchaValidator.isValid posts the token to siteverify.                 *)
PostCaptcha(w, a, ri, c, token) ==
  /\ Type(c, ri.level) = "captcha"
  /\ Start(w, "verify", a, ri, c, token)
  /\ verdict' = NoVerdict
  /\ UNCHANGED <<now, cached, challenges, solved, redeemed, cookies>>

(* The provider (external): a token counts once, and the request may reach *)
(* it without its answer reaching the agent.                               *)
ProviderAccepts(token) == token \notin redeemed

AnyPage(call) == TRUE      \* mutant: the page is not compared

(* A level may skip the comparison of the page with the identity's host.   *)
HostAgrees(call) ==
  \/ LevelConfig(call.conf, call.ri.level).skipHostname
  \/ <<TokenPage[call.work], call.ri.host>> \in HostMatches

(* A verdict arrives before the client's timeout. Success for the right    *)
(* page leads on to ToCookie, everything else is refused.                  *)
VerdictGranted(w) ==
  LET call == calls[w]
  IN  /\ call.stage = "verify"
      /\ now <= call.start + ClientTimeout
      /\ ProviderAccepts(call.work)
      /\ redeemed' = redeemed \cup {call.work}
      /\ HostAgrees(call)
      /\ calls' = [calls EXCEPT ![w].stage = "mint"]
      /\ verdict' = NoVerdict
      /\ UNCHANGED <<now, cached, challenges, solved, cookies>>

VerdictRefused(w) ==
  LET call == calls[w]
  IN  /\ call.stage = "verify"
      /\ now <= call.start + ClientTimeout
      /\ ProviderAccepts(call.work) => ~HostAgrees(call)
      /\ redeemed' = redeemed \cup {call.work}
      /\ Answered(w)
      /\ verdict' = NoVerdict
      /\ UNCHANGED <<now, cached, challenges, solved, cookies>>

(* Mutant: the visitor is let through while the provider is down.          *)
FailsOpen(w, counted) ==
  LET call == calls[w]
  IN  /\ call.stage = "verify"
      /\ redeemed' = IF counted THEN redeemed \cup {call.work} ELSE redeemed
      /\ calls' = [calls EXCEPT ![w].stage = "mint"]
      /\ verdict' = NoVerdict
      /\ UNCHANGED <<now, cached, challenges, solved, cookies>>

(* The request fails, its answer is not a 200, cannot be decoded or comes  *)
(* too late; the provider may have counted the token all the same.         *)
ProviderUnavailable(w, counted) ==
  LET call == calls[w]
  IN  /\ call.stage = "verify"
      /\ redeemed' = IF counted THEN redeemed \cup {call.work} ELSE redeemed
      /\ Answered(w)
      /\ verdict' = NoVerdict
      /\ UNCHANGED <<now, cached, challenges, solved, cookies>>

NoDeadline(call) == TRUE   \* mutant: nobody gives up on a call

(* ToCookie of a POST. The browser gets the cookie if HAProxy still waits  *)
(* for the answer; otherwise HAProxy has already answered with an error.   *)
InTime(call) == now <= call.start + ProcTimeout

Mint(w) ==
  LET call == calls[w]
  IN  /\ call.stage = "mint"
      /\ InTime(call)
      /\ Cardinality(cookies) < MaxCookies
      /\ cookies' = cookies \cup
           {ToCookie(call.agent, call.ri, call.conf, call.work)}
      /\ Answered(w)
      /\ verdict' = NoVerdict
      /\ UNCHANGED <<now, cached, challenges, solved, redeemed>>

MintTooLate(w) ==
  /\ calls[w].stage = "mint"
  /\ ~InTime(calls[w])
  /\ Answered(w)
  /\ verdict' = NoVerdict
  /\ UNCHANGED <<now, cached, challenges, solved, redeemed, cookies>>

------------------------------------------------------------------------------
HandleSPOEChallenge(a, ri, c, solutions) ==
  \/ AnswerOnly
  \/ GetNone(a, ri, c)
  \/ \E sid \in SupportIDs : GetPow(a, ri, c, sid)
  \/ \E s \in solutions :
       \/ PostPowRefused(a, ri, c, s)
       \/ \E w \in Workers : PostPowChecked(w, a, ri, c, s)
  \/ \E w \in Workers, token \in Tokens : PostCaptcha(w, a, ri, c, token)

Handle(a) ==
  LET showable  == Showable
      solutions == Solutions
  IN  \E req \in Requests :
        \/ DropRequest(req)
        \/ /\ ~Dropped(req)
           /\ LET ri == RequestIdentifier(req)
                  c  == Frontend(req.frontend)
              IN  \/ \E shown \in showable : HandleSPOEValidate(a, ri, c, shown)
                  \/ HandleSPOEChallenge(a, ri, c, solutions)

Continue(w) ==
  \/ VerdictGranted(w)
  \/ VerdictRefused(w)
  \/ \E counted \in BOOLEAN : ProviderUnavailable(w, counted)
  \/ Mint(w)
  \/ MintTooLate(w)

Next ==
  \/ Tick
  \/ \E a \in Agents : Refresh(a) \/ Restart(a)
  \/ Solve
  \/ \E a \in Agents : Handle(a)
  \/ \E w \in Workers : Continue(w)

Spec == Init /\ [][Next]_vars

------------------------------------------------------------------------------
(* Types                                                                   *)

Identities == {IdBytes[HostId[c][h]][x] : c \in Names, h \in RawHosts, x \in Addrs}
Hosts      == {HostId[c][h] : c \in Names, h \in RawHosts}
Uint8s     == 0 .. 255
Randoms    == [exp : Nat, sid : SupportIDs]
Works      == Randoms \cup Tokens \cup {NoWork}

(* A call that asks the provider is about a token.                         *)
CallRecords(stage, works) ==
  [stage : {stage}, agent : Agents, start : Nat, conf : Names,
   ri : [id : Identities, host : Hosts, level : Uint8s], work : works]
Calls == CallRecords("verify", Tokens) \cup CallRecords("mint", Works)

ChallengeRecords == [id : Identities, level : Uint8s, sid : SupportIDs,
                     exp : Nat, conf : Names, since : Nat]
CookieRecords    == [id : Identities, level : Uint8s, exp : Nat,
                     conf : Names, at : Nat, work : Works]

CookieSums    == [use : {"cookie"}, id : Identities, level : Uint8s, exp : Nat]
ChallengeSums == [use : {"challenge"}, id : Identities, level : Uint8s,
                  random : Randoms]
ShownCookies  == [level : Uint8s, exp : Nat,
                  sum : CookieSums \cup ChallengeSums \cup {NoSum}]

Verdicts == [given : {TRUE}, conf : Names, id : Identities, level : Uint8s,
             shown : ShownCookies, valid : BOOLEAN]

(* Every variable stays within the values the code gives it; in particular *)
(* real time never falls behind a cached clock, and no cached clock falls  *)
(* further behind than MaxLag.                                             *)
TypeOK ==
  /\ now \in Nat
  /\ cached \in [Agents -> Nat]
  /\ calls \in [Workers -> Calls \cup {Idle}]
  /\ challenges \subseteq ChallengeRecords
  /\ solved \subseteq Randoms
  /\ redeemed \subseteq Tokens
  /\ cookies \subseteq CookieRecords
  /\ verdict \in Verdicts \cup {NoVerdict}
  /\ \A a \in Agents : cached[a] <= now /\ now - cached[a] <= MaxLag

------------------------------------------------------------------------------
(* Properties                                                              *)

Admitted == verdict.given /\ verdict.valid
Rejected == verdict.given /\ ~verdict.valid

(* How long after the end of its duration a deadline may still be met: the *)
(* clock that set it lags behind by nothing, it is rounded to whole        *)
(* seconds, and the clock that checks it lags by MaxLag.                   *)
Grace == TicksPerSecond + MaxLag

(* A request is let through only on a cookie that was minted for the same  *)
(* host and address, at that level or a higher one, and whose lifetime has *)
(* not been over for longer than the clocks' inaccuracy. (IsValidCookie)   *)
AdmissionJustified ==
  Admitted =>
    \E c \in cookies :
      /\ c.id = verdict.id /\ c.level >= verdict.level
      /\ now < c.at + Duration(c.conf, c.level) + Grace

(* A visitor who shows the cookie unchanged, from the same host and        *)
(* address and at no higher a level, is let through by every agent, the    *)
(* one that minted it or another, until MaxLag before its lifetime ends.   *)
ClearanceHonoured ==
  Rejected =>
    \A c \in cookies :
      (/\ verdict.shown = Cookie(c)
       /\ c.id = verdict.id /\ verdict.level <= c.level)
      => now > c.at + Duration(c.conf, c.level) - MaxLag

(* What lets a request through was earned at a configured level of the     *)
(* frontend at least as high as the one that serves the request, even for  *)
(* levels above the highest configured one, which LevelConfig corrects     *)
(* while the cookie and the comparison keep the requested one.             *)
AdmissionMeetsLevel ==
  Admitted =>
    \E c \in cookies :
      /\ Cookie(c) = verdict.shown
      /\ c.conf = verdict.conf =>
           LevelIndex(Len(Configured[c.conf]), c.level)
             >= LevelIndex(Len(Configured[c.conf]), verdict.level)

(* The challenge ch asked this identity, at this level, for this random.   *)
Asks(ch, id, level, random) ==
  Random(ch) = random /\ ch.id = id /\ ch.level = level

(* The token was solved on a page that the check of this host accepts.     *)
PageAgrees(c, level, token, host) ==
  LevelConfig(c, level).skipHostname \/ <<TokenPage[token], host>> \in HostMatches

(* The host and address of an identity sent to frontend entry c.           *)
HashedFrom(id, host, c) ==
  /\ \E r \in RawHosts : host = HostId[c][r]
  /\ \E x \in Addrs : id = IdBytes[host][x]

(* Every cookie of a PoW level answers a challenge that was handed out to  *)
(* the same identity at the same level and for whose random a nonce was    *)
(* found; the one of a captcha level spends a token that the provider      *)
(* accepted for a page of that host. A level without work needs neither.   *)
ClearanceEarned ==
  \A c \in cookies :
    /\ Type(c.conf, c.level) = "pow" =>
         /\ c.work \in solved
         /\ \E ch \in challenges : Asks(ch, c.id, c.level, c.work)
    /\ Type(c.conf, c.level) = "captcha" =>
         /\ c.work \in redeemed
         /\ \E host \in Hosts : /\ HashedFrom(c.id, host, c.conf)
                                /\ PageAgrees(c.conf, c.level, c.work, host)

(* An answer to a PoW challenge stops earning cookies when the challenge   *)
(* expires, even though its cookie is minted after the check, by a call    *)
(* HAProxy waits at most ProcTimeout for.                                  *)
WorkExpires ==
  \A c \in cookies :
    Type(c.conf, c.level) = "pow" =>
      \E ch \in challenges :
        /\ Asks(ch, c.id, c.level, c.work)
        /\ c.at < ch.since + Duration(ch.conf, ch.level) + Grace + ProcTimeout

(* No browser ever sees the sum of a challenge that was not handed out     *)
(* with its deadline: a refused answer does not reveal the expected sum.   *)
SumsAreDated ==
  \A ch \in challenges :
    ch.exp <= ExpireAt(ch.since, Duration(ch.conf, ch.level))

(* A captcha token buys at most one cookie, with any number of calls that  *)
(* post it at once, timeouts and restarts.                                 *)
TokenBuysOneCookie ==
  \A c, d \in cookies : c.work = d.work /\ c.work \in Tokens => c = d

------------------------------------------------------------------------------
(* What makes the properties inductive                                     *)

(* A deadline was computed from a clock that lagged behind by at most      *)
(* MaxLag when it was set, at real time t.                                 *)
SetAt(exp, t, duration) ==
  \E lag \in 0 .. MaxLag : lag <= t /\ exp = ExpireAt(t - lag, duration)

CookiesStamped ==
  \A c \in cookies : c.at <= now /\ SetAt(c.exp, c.at, Duration(c.conf, c.level))

ChallengesStamped ==
  \A ch \in challenges :
    ch.since <= now /\ SetAt(ch.exp, ch.since, Duration(ch.conf, ch.level))

IInv == TypeOK /\ CookiesStamped /\ ChallengesStamped

(* A call in flight has been checked as far as its stage says: at time t,  *)
(* with these randoms solved, challenges given out and tokens redeemed.    *)
CallJustified(call, t, found, given, spent) ==
  LET type == Type(call.conf, call.ri.level)
  IN  /\ call.start <= t
      /\ HashedFrom(call.ri.id, call.ri.host, call.conf)
      /\ call.stage = "verify" => type = "captcha"
      /\ call.stage = "mint" =>
           \/ /\ type = "pow"
              /\ call.work \in found
              /\ \E ch \in given :
                   /\ Asks(ch, call.ri.id, call.ri.level, call.work)
                   /\ call.start < ch.since + Duration(ch.conf, ch.level) + Grace
           \/ /\ type = "captcha"
              /\ call.work \in spent
              /\ HostAgrees(call)

CallsJustified ==
  \A w \in Workers :
    calls[w] # Idle =>
      CallJustified(calls[w], now, solved, challenges, redeemed)

(* A token has at most one of: a call about to mint for it, a cookie. And  *)
(* a cookie that cost nothing is of a level that asks for nothing.         *)
TokensSpentOnce ==
  /\ \A v, w \in Workers :
       (/\ v # w
        /\ calls[v].stage = "mint" /\ calls[w].stage = "mint"
        /\ calls[v].work \in Tokens)
       => calls[v].work # calls[w].work
  /\ \A w \in Workers, c \in cookies :
       calls[w].stage = "mint" /\ c.work \in Tokens => calls[w].work # c.work
  /\ \A c \in cookies : Type(c.conf, c.level) = "none" => c.work = NoWork

WorkInv ==
  /\ CallsJustified /\ TokensSpentOnce
  /\ ClearanceEarned /\ WorkExpires /\ TokenBuysOneCookie

------------------------------------------------------------------------------
(* A statement of the documentation                                        *)

(* DESIGN.md: the identity a cookie is checked against contains the        *)
(* frontend. (Refuted: the frontend's name is not hashed.)                 *)
FrontendIsIdentity ==
  Admitted => \E c \in cookies :
                c.id = verdict.id /\ Cookie(c) = verdict.shown
                  /\ c.conf = verdict.conf
=============================================================================

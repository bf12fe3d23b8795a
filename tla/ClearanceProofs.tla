--------------------------- MODULE ClearanceProofs ---------------------------
(***************************************************************************)
(* Clearance for every number of agents, levels, frontends and visitors,   *)
(* every duration, clock resolution and lag: the invariants TLC checks on  *)
(* small instances, proved.                                                *)
(***************************************************************************)
EXTENDS Clearance, TLAPS

------------------------------------------------------------------------------
(* Whole seconds                                                           *)

(* Unix rounds down: it is monotone, and two instants whose seconds are    *)
(* ordered are themselves ordered up to less than a second.                *)
LEMMA UnixIsNat == ASSUME NEW t \in Nat PROVE Unix(t) \in Nat
  BY TicksAssumption DEF Unix

LEMMA UnixMonotone ==
  ASSUME NEW s \in Int, NEW t \in Int, s <= t
  PROVE  Unix(s) \in Int /\ Unix(t) \in Int /\ Unix(s) <= Unix(t)
  BY TicksAssumption DEF Unix

LEMMA UnixGap ==
  ASSUME NEW s \in Int, NEW t \in Int, Unix(s) <= Unix(t)
  PROVE  s < t + TicksPerSecond
  BY TicksAssumption DEF Unix

------------------------------------------------------------------------------
(* Configuration                                                           *)

LEMMA Uint8Range == ASSUME NEW n \in Int PROVE Uint8(n) \in Uint8s
  BY DEF Uint8, Uint8s

(* With 1 to 255 levels configured, LevelConfig never reads outside of     *)
(* Levels, whatever level HAProxy sends.                                   *)
THEOREM LevelIndexInRange ==
  ASSUME NEW n \in 1 .. 255, NEW level \in Uint8s
  PROVE  LevelIndex(n, level) \in 1 .. n
  BY DEF LevelIndex, Lesser, Greater, Uint8, Uint8s

LEMMA LevelConfigType ==
  ASSUME NEW c \in Names, NEW level \in Uint8s
  PROVE  /\ LevelConfig(c, level) \in LevelConfigs
         /\ Type(c, level) \in ValidationTypes
         /\ Duration(c, level) \in Nat
<1> DEFINE n == Len(Configured[c])
<1>1. n \in 1 .. 255
  BY ConfigAssumption
<1>2. LevelIndex(n, level) \in 1 .. n
  BY <1>1, LevelIndexInRange
<1>3. Configured[c] \in Seq(LevelConfigs)
  BY ConfigAssumption
<1>4. Configured[c][LevelIndex(n, level)] \in LevelConfigs
  BY <1>2, <1>3
<1> QED
  BY <1>4 DEF LevelConfig, LevelConfigs, Type, Duration

LEMMA FrontendType == ASSUME NEW name PROVE Frontend(name) \in Names
  BY ConfigAssumption DEF Frontend

LEMMA ExpireAtIsNat ==
  ASSUME NEW t \in Nat, NEW d \in Nat
  PROVE  ExpireAt(t, d) \in Nat
  BY UnixIsNat DEF ExpireAt

------------------------------------------------------------------------------
(* The steps of Next, with the types of what they are called with          *)

RequestIds == [id : Identities, host : Hosts, level : Uint8s]

LEMMA RequestIdentifierType ==
  ASSUME NEW req \in Requests, ~Dropped(req)
  PROVE  /\ RequestIdentifier(req) \in RequestIds
         /\ HashedFrom(RequestIdentifier(req).id, RequestIdentifier(req).host,
                       Frontend(req.frontend))
<1> DEFINE c == Frontend(req.frontend)
           host == HostId[c][req.host]
<1>1. c \in Names
  BY FrontendType
<1>2. req.host \in RawHosts /\ req.addr \in Addrs /\ req.level \in Int
  BY ConfigAssumption DEF Requests, Dropped
<1>3. host \in Hosts /\ IdBytes[host][req.addr] \in Identities
  BY <1>1, <1>2 DEF Hosts, Identities
<1>4. Uint8(req.level) \in Uint8s
  BY <1>2, Uint8Range
<1>5. /\ RequestIdentifier(req).host = host
      /\ RequestIdentifier(req).id = IdBytes[host][req.addr]
  BY DEF RequestIdentifier
<1> QED
  BY <1>2, <1>3, <1>4, <1>5 DEF RequestIdentifier, RequestIds, HashedFrom

(* A handler call on behalf of some visitor.                               *)
Serve(a, ri, c) ==
  /\ HashedFrom(ri.id, ri.host, c)
  /\ \/ \E shown \in Showable : HandleSPOEValidate(a, ri, c, shown)
     \/ HandleSPOEChallenge(a, ri, c, Solutions)

LEMMA NextCases ==
  ASSUME Next
  PROVE  \/ Tick
         \/ \E a \in Agents : Refresh(a) \/ Restart(a)
         \/ Solve
         \/ \E req \in Requests : DropRequest(req)
         \/ \E a \in Agents, ri \in RequestIds, c \in Names : Serve(a, ri, c)
         \/ \E w \in Workers : Continue(w)
<1>1. ASSUME NEW a \in Agents, Handle(a)
      PROVE  \/ \E req \in Requests : DropRequest(req)
             \/ \E ri \in RequestIds, c \in Names : Serve(a, ri, c)
  <2>1. PICK req \in Requests :
          \/ DropRequest(req)
          \/ /\ ~Dropped(req)
             /\ LET ri == RequestIdentifier(req)
                    c  == Frontend(req.frontend)
                IN  \/ \E shown \in Showable : HandleSPOEValidate(a, ri, c, shown)
                    \/ HandleSPOEChallenge(a, ri, c, Solutions)
    BY <1>1 DEF Handle
  <2>2. CASE ~Dropped(req)
    BY <2>1, <2>2, RequestIdentifierType, FrontendType DEF Serve
  <2> QED
    BY <2>1, <2>2
<1> QED
  BY <1>1 DEF Next

------------------------------------------------------------------------------
(* Types                                                                   *)

LEMMA KnownSumsType ==
  ASSUME TypeOK
  PROVE  KnownSums \subseteq CookieSums \cup ChallengeSums
<1>1. ASSUME NEW c \in cookies PROVE Cookie(c).sum \in CookieSums
  BY DEF TypeOK, CookieRecords, Cookie, CookieSum, CookieSums
<1>2. ASSUME NEW ch \in challenges PROVE SumOf(ch) \in ChallengeSums
  BY DEF TypeOK, ChallengeRecords, SumOf, ChallengeSum, ChallengeSums, Random,
         Randoms
<1> QED
  BY <1>1, <1>2 DEF KnownSums

LEMMA ShownExpsType == ASSUME TypeOK PROVE ShownExps \subseteq Nat
<1>1. Unix(MaxTime) + 1 \in Nat
  BY UnixIsNat, TimeAssumption
<1>2. ASSUME NEW c \in cookies \cup challenges PROVE c.exp \in Nat
  BY DEF TypeOK, CookieRecords, ChallengeRecords
<1> QED
  BY <1>1, <1>2 DEF ShownExps

LEMMA ShowableType == ASSUME TypeOK PROVE Showable \subseteq ShownCookies
<1>1. {Uint8(l) : l \in LevelArgs} \subseteq Uint8s
  BY Uint8Range, ConfigAssumption
<1>2. NoCookie \in ShownCookies
  BY DEF NoCookie, ShownCookies, Uint8s
<1>3. ASSUME NEW k \in [level : {Uint8(l) : l \in LevelArgs}, exp : ShownExps,
                       sum : KnownSums]
      PROVE  k \in ShownCookies
  BY <1>1, ShownExpsType, KnownSumsType DEF ShownCookies
<1> QED
  BY <1>2, <1>3 DEF Showable

LEMMA SolutionsType ==
  ASSUME TypeOK, NEW s \in Solutions
  PROVE  s.random \in Randoms
  BY ShownExpsType DEF Solutions, PostedRandoms, Randoms

LEMMA ToCookieType ==
  ASSUME TypeOK, NEW a \in Agents, NEW ri \in RequestIds, NEW c \in Names,
         NEW work \in Works
  PROVE  ToCookie(a, ri, c, work) \in CookieRecords
<1>1. Duration(c, ri.level) \in Nat
  BY LevelConfigType DEF RequestIds
<1>2. ExpireAt(cached[a], Duration(c, ri.level)) \in Nat
  BY <1>1, ExpireAtIsNat DEF TypeOK
<1> QED
  BY <1>2 DEF TypeOK, ToCookie, CookieRecords, RequestIds

LEMMA NewChallengeType ==
  ASSUME TypeOK, NEW a \in Agents, NEW ri \in RequestIds, NEW c \in Names,
         NEW sid \in SupportIDs
  PROVE  NewChallenge(a, ri, c, sid) \in ChallengeRecords
<1>1. Duration(c, ri.level) \in Nat
  BY LevelConfigType DEF RequestIds
<1>2. ExpireAt(cached[a], Duration(c, ri.level)) \in Nat
  BY <1>1, ExpireAtIsNat DEF TypeOK
<1> QED
  BY <1>2 DEF TypeOK, NewChallenge, ChallengeRecords, RequestIds

(* A refused answer reveals nothing.                                       *)
LEMMA NothingLearned ==
  ASSUME NEW ri, NEW c, NEW s
  PROVE  Learned(c, RefusedBody(ri, s)) = {}
  BY DEF Learned, RefusedBody, Reset

LEMMA CallType ==
  ASSUME TypeOK, NEW w \in Workers, calls[w] # Idle
  PROVE  calls[w] \in Calls
  BY DEF TypeOK

LEMMA TypeInit == ASSUME Init PROVE TypeOK
  BY TimeAssumption DEF Init, TypeOK

LEMMA TypeClock ==
  ASSUME TypeOK, Tick \/ \E a \in Agents : Refresh(a) \/ Restart(a)
  PROVE  TypeOK'
<1>1. CASE Tick
  BY <1>1, TimeAssumption DEF TypeOK, Tick
<1>2. ASSUME NEW a \in Agents, Refresh(a) PROVE TypeOK'
  BY <1>2, TimeAssumption DEF TypeOK, Refresh
<1>3. ASSUME NEW a \in Agents, Restart(a) PROVE TypeOK'
  <2>1. calls' \in [Workers -> Calls \cup {Idle}]
    BY <1>3 DEF TypeOK, Restart
  <2> QED
    BY <1>3, <2>1, TimeAssumption DEF TypeOK, Restart
<1> QED
  BY <1>1, <1>2, <1>3

LEMMA TypeServe ==
  ASSUME TypeOK, NEW a \in Agents, NEW ri \in RequestIds, NEW c \in Names,
         Serve(a, ri, c)
  PROVE  TypeOK'
<1>1. ASSUME NEW shown \in Showable, HandleSPOEValidate(a, ri, c, shown)
      PROVE  TypeOK'
  <2>1. shown \in ShownCookies
    BY ShowableType
  <2>2. verdict' \in Verdicts
    BY <1>1, <2>1 DEF HandleSPOEValidate, Verdicts, RequestIds, IsValidCookie
  <2> QED
    BY <1>1, <2>2 DEF HandleSPOEValidate, TypeOK
<1>2. CASE AnswerOnly
  BY <1>2 DEF AnswerOnly, TypeOK
<1>3. CASE GetNone(a, ri, c)
  <2>1. ToCookie(a, ri, c, NoWork) \in CookieRecords
    BY ToCookieType DEF Works
  <2> QED
    BY <1>3, <2>1 DEF GetNone, TypeOK
<1>4. ASSUME NEW sid \in SupportIDs, GetPow(a, ri, c, sid)
      PROVE  TypeOK'
  <2>1. NewChallenge(a, ri, c, sid) \in ChallengeRecords
    BY NewChallengeType
  <2> QED
    BY <1>4, <2>1 DEF GetPow, TypeOK
<1>5. ASSUME NEW s \in Solutions, PostPowRefused(a, ri, c, s)
      PROVE  TypeOK'
  BY <1>5, NothingLearned DEF PostPowRefused, TypeOK
<1> DEFINE call(stage, work) ==
             [stage |-> stage, agent |-> a, ri |-> ri, conf |-> c,
              start |-> now, work |-> work]
<1>6. ASSUME NEW w \in Workers, NEW new \in Calls,
             calls' = [calls EXCEPT ![w] = new]
      PROVE  calls' \in [Workers -> Calls \cup {Idle}]
  BY <1>6 DEF TypeOK
<1>7. ASSUME NEW w \in Workers, NEW s \in Solutions,
             PostPowChecked(w, a, ri, c, s)
      PROVE  TypeOK'
  <2>1. s.random \in Works
    BY SolutionsType DEF Works
  <2>2. call("mint", s.random) \in Calls
    BY <2>1 DEF Calls, CallRecords, RequestIds, TypeOK
  <2>3. calls' \in [Workers -> Calls \cup {Idle}]
    BY <1>6, <1>7, <2>2 DEF PostPowChecked, Start
  <2> QED
    BY <1>7, <2>3 DEF PostPowChecked, TypeOK
<1>8. ASSUME NEW w \in Workers, NEW token \in Tokens,
             PostCaptcha(w, a, ri, c, token)
      PROVE  TypeOK'
  <2>1. call("verify", token) \in Calls
    BY DEF Calls, CallRecords, RequestIds, TypeOK
  <2>2. calls' \in [Workers -> Calls \cup {Idle}]
    BY <1>6, <1>8, <2>1 DEF PostCaptcha, Start
  <2> QED
    BY <1>8, <2>2 DEF PostCaptcha, TypeOK
<1> QED
  BY <1>1, <1>2, <1>3, <1>4, <1>5, <1>7, <1>8 DEF Serve, HandleSPOEChallenge

LEMMA TypeContinue ==
  ASSUME TypeOK, NEW w \in Workers, Continue(w)
  PROVE  TypeOK'
<1> DEFINE call == calls[w]
<1>1. ASSUME call.stage = "verify"
      PROVE  call \in CallRecords("verify", Tokens) /\ call.work \in Tokens
  BY <1>1 DEF TypeOK, Idle, Calls, CallRecords
<1>2. ASSUME call.stage = "mint"
      PROVE  call \in CallRecords("mint", Works)
  BY <1>2 DEF TypeOK, Idle, Calls, CallRecords
<1>3. ASSUME Answered(w)
      PROVE  calls' \in [Workers -> Calls \cup {Idle}]
  BY <1>3 DEF Answered, TypeOK
<1>4. CASE VerdictGranted(w)
  <2>1. [call EXCEPT !.stage = "mint"] \in CallRecords("mint", Works)
    BY <1>1, <1>4 DEF VerdictGranted, CallRecords, Works
  <2>2. calls' \in [Workers -> Calls \cup {Idle}]
    BY <1>4, <2>1 DEF VerdictGranted, TypeOK, Calls
  <2> QED
    BY <1>1, <1>4, <2>2 DEF VerdictGranted, TypeOK
<1>5. CASE VerdictRefused(w)
  BY <1>1, <1>3, <1>5 DEF VerdictRefused, TypeOK
<1>6. ASSUME NEW counted \in BOOLEAN, ProviderUnavailable(w, counted)
      PROVE  TypeOK'
  BY <1>1, <1>3, <1>6 DEF ProviderUnavailable, TypeOK
<1>7. CASE Mint(w)
  <2>1. ToCookie(call.agent, call.ri, call.conf, call.work) \in CookieRecords
    BY <1>2, <1>7, ToCookieType DEF Mint, CallRecords, RequestIds
  <2> QED
    BY <1>3, <1>7, <2>1 DEF Mint, TypeOK
<1>8. CASE MintTooLate(w)
  BY <1>3, <1>8 DEF MintTooLate, TypeOK
<1> QED
  BY <1>4, <1>5, <1>6, <1>7, <1>8 DEF Continue

LEMMA TypeStep == ASSUME TypeOK, [Next]_vars PROVE TypeOK'
<1>1. CASE UNCHANGED vars
  BY <1>1 DEF vars, TypeOK
<1>2. CASE Solve
  <2>1. ASSUME NEW ch \in challenges PROVE Random(ch) \in Randoms
    BY DEF TypeOK, ChallengeRecords, Random, Randoms
  <2> QED
    BY <1>2, <2>1 DEF Solve, TypeOK
<1>3. CASE \E req \in Requests : DropRequest(req)
  BY <1>3 DEF DropRequest, TypeOK
<1> QED
  BY <1>1, <1>2, <1>3, NextCases, TypeClock, TypeServe, TypeContinue

(* Real time never falls behind a cached clock and no cached clock falls   *)
(* further behind than MaxLag; everything else keeps its type.             *)
THEOREM TypeCorrect == Spec => []TypeOK
BY TypeInit, TypeStep, PTL DEF Spec

------------------------------------------------------------------------------
(* What a step can do to the clock, the cookies and the challenges         *)

(* A cookie is minted at once on a level without work, or by a call in the *)
(* "mint" stage that HAProxy still waits for.                              *)
MintsFree(a, ri, c) ==
  /\ Type(c, ri.level) = "none"
  /\ cookies' = cookies \cup {ToCookie(a, ri, c, NoWork)}

MintsCall(w) ==
  LET call == calls[w]
  IN  /\ call \in CallRecords("mint", Works)
      /\ InTime(call)
      /\ cookies' = cookies \cup
                       {ToCookie(call.agent, call.ri, call.conf, call.work)}

LEMMA CookieChange ==
  ASSUME TypeOK, [Next]_vars
  PROVE  \/ cookies' = cookies /\ now' \in {now, now + 1}
         \/ /\ now' = now
            /\ \/ \E a \in Agents, ri \in RequestIds, c \in Names :
                    MintsFree(a, ri, c)
               \/ \E w \in Workers : MintsCall(w)
<1>1. CASE UNCHANGED vars
  BY <1>1 DEF vars
<1>2. CASE Tick \/ \E a \in Agents : Refresh(a) \/ Restart(a)
  BY <1>2 DEF Tick, Refresh, Restart
<1>3. CASE Solve \/ \E req \in Requests : DropRequest(req)
  BY <1>3 DEF Solve, DropRequest
<1>4. ASSUME NEW a \in Agents, NEW ri \in RequestIds, NEW c \in Names,
             Serve(a, ri, c)
      PROVE  now' = now /\ (cookies' = cookies \/ MintsFree(a, ri, c))
  BY <1>4 DEF Serve, HandleSPOEValidate, HandleSPOEChallenge, AnswerOnly,
     GetNone, GetPow, PostPowRefused, PostPowChecked, PostCaptcha, MintsFree
<1>5. ASSUME NEW w \in Workers, Continue(w)
      PROVE  now' = now /\ (cookies' = cookies \/ MintsCall(w))
  <2>1. calls[w].stage = "mint" => calls[w] \in CallRecords("mint", Works)
    BY DEF TypeOK, Idle, Calls, CallRecords
  <2> QED
    BY <1>5, <2>1 DEF Continue, VerdictGranted, VerdictRefused,
       ProviderUnavailable, Mint, MintTooLate, MintsCall
<1> QED
  BY <1>1, <1>2, <1>3, <1>4, <1>5, NextCases

LEMMA ChallengeChange ==
  ASSUME TypeOK, [Next]_vars
  PROVE  \/ challenges' = challenges /\ now' \in {now, now + 1}
         \/ /\ now' = now
            /\ \E a \in Agents, ri \in RequestIds, c \in Names,
                  sid \in SupportIDs :
                 challenges' = challenges \cup {NewChallenge(a, ri, c, sid)}
<1>1. CASE UNCHANGED vars
  BY <1>1 DEF vars
<1>2. CASE Tick \/ \E a \in Agents : Refresh(a) \/ Restart(a)
  BY <1>2 DEF Tick, Refresh, Restart
<1>3. CASE Solve \/ \E req \in Requests : DropRequest(req)
  BY <1>3 DEF Solve, DropRequest
<1>4. ASSUME NEW a \in Agents, NEW ri \in RequestIds, NEW c \in Names,
             Serve(a, ri, c)
      PROVE  /\ now' = now
             /\ \/ challenges' = challenges
                \/ \E sid \in SupportIDs :
                     challenges' = challenges \cup {NewChallenge(a, ri, c, sid)}
  BY <1>4, NothingLearned
     DEF Serve, HandleSPOEValidate, HandleSPOEChallenge, AnswerOnly,
         GetNone, GetPow, PostPowRefused, PostPowChecked, PostCaptcha
<1>5. ASSUME NEW w \in Workers, Continue(w)
      PROVE  now' = now /\ challenges' = challenges
  BY <1>5 DEF Continue, VerdictGranted, VerdictRefused, ProviderUnavailable,
     Mint, MintTooLate
<1> QED
  BY <1>1, <1>2, <1>3, <1>4, <1>5, NextCases

------------------------------------------------------------------------------
(* Deadlines                                                               *)

LEMMA SetNow ==
  ASSUME TypeOK, NEW a \in Agents, NEW d
  PROVE  SetAt(ExpireAt(cached[a], d), now, d)
<1> DEFINE lag == now - cached[a]
<1>1. lag \in 0 .. MaxLag /\ lag <= now /\ now - lag = cached[a]
  BY TimeAssumption DEF TypeOK
<1> QED
  BY <1>1 DEF SetAt

LEMMA CookiesStampedStep ==
  ASSUME IInv, [Next]_vars
  PROVE  CookiesStamped'
<1>1. CASE cookies' = cookies /\ now' \in {now, now + 1}
  <2>1. ASSUME NEW c \in cookies PROVE c.at <= now'
    BY <1>1 DEF IInv, TypeOK, CookiesStamped, CookieRecords
  <2> QED
    BY <1>1, <2>1 DEF IInv, CookiesStamped
<1>2. ASSUME NEW a \in Agents, NEW ri, NEW c, NEW work, now' = now,
             cookies' = cookies \cup {ToCookie(a, ri, c, work)}
      PROVE  CookiesStamped'
  <2> DEFINE new == ToCookie(a, ri, c, work)
  <2>1. new.at = now /\ SetAt(new.exp, new.at, Duration(new.conf, new.level))
    BY SetNow DEF ToCookie, IInv
  <2>2. now <= now
    BY DEF IInv, TypeOK
  <2> QED
    BY <1>2, <2>1, <2>2 DEF IInv, CookiesStamped
<1>3. ASSUME NEW w \in Workers, MintsCall(w), now' = now PROVE CookiesStamped'
  BY <1>2, <1>3 DEF MintsCall, CallRecords
<1> QED
  BY <1>1, <1>2, <1>3, CookieChange DEF IInv, MintsFree

LEMMA ChallengesStampedStep ==
  ASSUME IInv, [Next]_vars
  PROVE  ChallengesStamped'
<1>1. CASE challenges' = challenges /\ now' \in {now, now + 1}
  <2>1. ASSUME NEW ch \in challenges PROVE ch.since <= now'
    BY <1>1 DEF IInv, TypeOK, ChallengesStamped, ChallengeRecords
  <2> QED
    BY <1>1, <2>1 DEF IInv, ChallengesStamped
<1>2. ASSUME NEW a \in Agents, NEW ri, NEW c, NEW sid, now' = now,
             challenges' = challenges \cup {NewChallenge(a, ri, c, sid)}
      PROVE  ChallengesStamped'
  <2> DEFINE new == NewChallenge(a, ri, c, sid)
  <2>1. /\ new.since = now
        /\ SetAt(new.exp, new.since, Duration(new.conf, new.level))
    BY SetNow DEF NewChallenge, IInv
  <2>2. now <= now
    BY DEF IInv, TypeOK
  <2> QED
    BY <1>2, <2>1, <2>2 DEF IInv, ChallengesStamped
<1> QED
  BY <1>1, <1>2, ChallengeChange DEF IInv

(* The inductive invariant: the deadline of every cookie and challenge was *)
(* set from a clock at most MaxLag behind real time.                       *)
THEOREM Inductive == Spec => []IInv
<1>1. Init => IInv
  BY TypeInit DEF Init, IInv, CookiesStamped, ChallengesStamped
<1>2. IInv /\ [Next]_vars => IInv'
  BY TypeStep, CookiesStampedStep, ChallengesStampedStep DEF IInv
<1> QED
  BY <1>1, <1>2, PTL DEF Spec

(* The two sides of a deadline set at real time at for a duration d: a     *)
(* clock that finds it met has not run past it by more than Grace, and one *)
(* that finds it missed has come within MaxLag of it.                      *)
LEMMA DeadlineMet ==
  ASSUME NEW at \in Nat, NEW d \in Nat, NEW exp, SetAt(exp, at, d),
         NEW t \in Nat, NEW clock \in Nat, t - clock <= MaxLag,
         ~Expired(clock, exp)
  PROVE  t < at + d + Grace
<1>1. PICK lag \in 0 .. MaxLag : lag <= at /\ exp = ExpireAt(at - lag, d)
  BY DEF SetAt
<1>2. lag \in Nat /\ at - lag + d \in Nat
  BY <1>1, TimeAssumption
<1>3. Unix(clock) <= Unix(at - lag + d)
  BY <1>1, <1>2, UnixIsNat DEF Expired, ExpireAt
<1>4. clock < at - lag + d + TicksPerSecond
  BY <1>2, <1>3, UnixGap
<1> QED
  BY <1>2, <1>4, TimeAssumption, TicksAssumption DEF Grace

LEMMA DeadlineMissed ==
  ASSUME NEW at \in Nat, NEW d \in Nat, NEW exp, SetAt(exp, at, d),
         NEW t \in Nat, NEW clock \in Nat, clock <= t,
         Expired(clock, exp)
  PROVE  t > at + d - MaxLag
<1>1. PICK lag \in 0 .. MaxLag : lag <= at /\ exp = ExpireAt(at - lag, d)
  BY DEF SetAt
<1>2. lag \in Nat /\ lag <= MaxLag /\ at - lag + d \in Nat
  BY <1>1, TimeAssumption
<1>3. ASSUME clock <= at - lag + d PROVE FALSE
  <2>1. /\ Unix(clock) \in Int /\ Unix(at - lag + d) \in Int
        /\ Unix(clock) <= Unix(at - lag + d)
    BY <1>2, <1>3, UnixMonotone
  <2> QED
    BY <1>1, <2>1 DEF Expired, ExpireAt
<1> QED
  BY <1>2, <1>3, TimeAssumption

(* A valid cookie is one some browser was given, for that identity.        *)
LEMMA ValidIsMinted ==
  ASSUME NEW ri, NEW shown \in Showable, NEW clock,
         IsValidCookie(ri, shown, clock)
  PROVE  \E c \in cookies :
           /\ Cookie(c) = shown
           /\ c.id = ri.id /\ c.level >= ri.level
           /\ ~Expired(clock, c.exp)
<1>1. /\ shown \in [level : {Uint8(l) : l \in LevelArgs}, exp : ShownExps,
                    sum : KnownSums]
      /\ shown.sum = CookieSum(ri.id, shown.level, shown.exp)
      /\ ri.level <= shown.level /\ ~Expired(clock, shown.exp)
  BY DEF Showable, IsValidCookie
<1>2. ASSUME NEW ch \in challenges PROVE SumOf(ch) # shown.sum
  BY <1>1 DEF SumOf, ChallengeSum, CookieSum
<1>3. PICK c \in cookies : Cookie(c).sum = shown.sum
  BY <1>1, <1>2 DEF KnownSums
<1>4. c.id = ri.id /\ c.level = shown.level /\ c.exp = shown.exp
  BY <1>1, <1>3 DEF Cookie, CookieSum
<1>5. Cookie(c) = shown
  BY <1>1, <1>3, <1>4 DEF Cookie
<1>6. c.level >= ri.level
  BY <1>1, <1>4
<1> QED
  BY <1>1, <1>4, <1>5, <1>6

LEMMA VerdictChange ==
  ASSUME [Next]_vars
  PROVE  \/ UNCHANGED <<now, cookies, verdict>>
         \/ verdict' = NoVerdict
         \/ \E a \in Agents, ri \in RequestIds, c \in Names, shown \in Showable :
              HandleSPOEValidate(a, ri, c, shown)
<1>1. CASE UNCHANGED vars
  BY <1>1 DEF vars
<1>2. CASE Tick \/ \E a \in Agents : Refresh(a) \/ Restart(a)
  BY <1>2 DEF Tick, Refresh, Restart
<1>3. CASE Solve \/ \E req \in Requests : DropRequest(req)
  BY <1>3 DEF Solve, DropRequest
<1>4. ASSUME NEW a \in Agents, NEW ri \in RequestIds, NEW c \in Names,
             Serve(a, ri, c)
      PROVE  \/ verdict' = NoVerdict
             \/ \E shown \in Showable : HandleSPOEValidate(a, ri, c, shown)
  BY <1>4 DEF Serve, HandleSPOEChallenge, AnswerOnly,
     GetNone, GetPow, PostPowRefused, PostPowChecked, PostCaptcha
<1>5. ASSUME NEW w \in Workers, Continue(w)
      PROVE  verdict' = NoVerdict
  BY <1>5 DEF Continue, VerdictGranted, VerdictRefused, ProviderUnavailable,
     Mint, MintTooLate
<1> QED
  BY <1>1, <1>2, <1>3, <1>4, <1>5, NextCases

LEMMA AdmissionStep ==
  ASSUME IInv, AdmissionJustified, [Next]_vars
  PROVE  AdmissionJustified'
<1>1. CASE UNCHANGED <<now, cookies, verdict>>
  BY <1>1 DEF AdmissionJustified, Admitted
<1>2. CASE verdict' = NoVerdict
  BY <1>2 DEF AdmissionJustified, Admitted, NoVerdict
<1>3. ASSUME NEW a \in Agents, NEW ri \in RequestIds, NEW n \in Names,
             NEW shown \in Showable, HandleSPOEValidate(a, ri, n, shown)
      PROVE  AdmissionJustified'
  <2>1. /\ verdict'.id = ri.id /\ verdict'.level = ri.level
        /\ verdict'.valid = IsValidCookie(ri, shown, cached[a])
        /\ now' = now /\ cookies' = cookies
    BY <1>3 DEF HandleSPOEValidate
  <2>2. SUFFICES ASSUME IsValidCookie(ri, shown, cached[a])
                 PROVE  \E c \in cookies :
                          /\ c.id = ri.id /\ c.level >= ri.level
                          /\ now < c.at + Duration(c.conf, c.level) + Grace
    BY <2>1 DEF AdmissionJustified, Admitted
  <2>3. PICK c \in cookies : /\ c.id = ri.id /\ c.level >= ri.level
                             /\ ~Expired(cached[a], c.exp)
    BY <2>2, ValidIsMinted
  <2>4. c \in CookieRecords /\ SetAt(c.exp, c.at, Duration(c.conf, c.level))
    BY DEF IInv, TypeOK, CookiesStamped
  <2>5. c.at \in Nat /\ Duration(c.conf, c.level) \in Nat
    BY <2>4, LevelConfigType DEF CookieRecords
  <2>6. now \in Nat /\ cached[a] \in Nat /\ now - cached[a] <= MaxLag
    BY DEF IInv, TypeOK
  <2>7. now < c.at + Duration(c.conf, c.level) + Grace
    BY <2>3, <2>4, <2>5, <2>6, DeadlineMet
  <2> QED
    BY <2>3, <2>7
<1> QED
  BY <1>1, <1>2, <1>3, VerdictChange

LEMMA HonouredStep ==
  ASSUME IInv, ClearanceHonoured, [Next]_vars
  PROVE  ClearanceHonoured'
<1>1. CASE UNCHANGED <<now, cookies, verdict>>
  BY <1>1 DEF ClearanceHonoured, Rejected
<1>2. CASE verdict' = NoVerdict
  BY <1>2 DEF ClearanceHonoured, Rejected, NoVerdict
<1>3. ASSUME NEW a \in Agents, NEW ri \in RequestIds, NEW n \in Names,
             NEW shown \in Showable, HandleSPOEValidate(a, ri, n, shown)
      PROVE  ClearanceHonoured'
  <2>1. /\ verdict'.id = ri.id /\ verdict'.level = ri.level
        /\ verdict'.valid = IsValidCookie(ri, shown, cached[a])
        /\ verdict'.shown = shown
        /\ now' = now /\ cookies' = cookies
    BY <1>3 DEF HandleSPOEValidate
  <2>2. SUFFICES ASSUME ~IsValidCookie(ri, shown, cached[a]),
                        NEW c \in cookies, shown = Cookie(c),
                        c.id = ri.id, ri.level <= c.level
                 PROVE  now > c.at + Duration(c.conf, c.level) - MaxLag
    BY <2>1 DEF ClearanceHonoured, Rejected
  <2>3. shown # NoCookie
    BY <2>2 DEF Cookie, CookieSum, NoCookie, NoSum
  <2>4. Expired(cached[a], c.exp)
    BY <2>2, <2>3 DEF IsValidCookie, Cookie
  <2>5. c \in CookieRecords /\ SetAt(c.exp, c.at, Duration(c.conf, c.level))
    BY DEF IInv, TypeOK, CookiesStamped
  <2>6. c.at \in Nat /\ Duration(c.conf, c.level) \in Nat
    BY <2>5, LevelConfigType DEF CookieRecords
  <2>7. now \in Nat /\ cached[a] \in Nat /\ cached[a] <= now
    BY DEF IInv, TypeOK
  <2> QED
    BY <2>4, <2>5, <2>6, <2>7, DeadlineMissed
<1> QED
  BY <1>1, <1>2, <1>3, VerdictChange

(* Whoever is let through holds a cookie that was minted for that host and *)
(* address at that level or a higher one, and its duration ended less than *)
(* a second and MaxLag ago. (IsValidCookie, for every agent's clock)       *)
THEOREM AdmissionIsJustified == Spec => []AdmissionJustified
<1>1. Init => AdmissionJustified
  BY DEF Init, AdmissionJustified, Admitted, NoVerdict
<1>2. IInv /\ AdmissionJustified /\ [Next]_vars => AdmissionJustified'
  BY AdmissionStep
<1> QED
  BY <1>1, <1>2, Inductive, PTL DEF Spec

(* No agent turns away an unaltered cookie of the visitor it was minted    *)
(* for before MaxLag ahead of the end of its duration.                     *)
THEOREM ClearanceIsHonoured == Spec => []ClearanceHonoured
<1>1. Init => ClearanceHonoured
  BY DEF Init, ClearanceHonoured, Rejected, NoVerdict
<1>2. IInv /\ ClearanceHonoured /\ [Next]_vars => ClearanceHonoured'
  BY HonouredStep
<1> QED
  BY <1>1, <1>2, Inductive, PTL DEF Spec

------------------------------------------------------------------------------
(* Levels                                                                  *)

LEMMA LevelIndexMonotone ==
  ASSUME NEW n \in 1 .. 255, NEW a \in Uint8s, NEW b \in Uint8s, a <= b
  PROVE  LevelIndex(n, a) <= LevelIndex(n, b)
  BY DEF LevelIndex, Lesser, Greater, Uint8, Uint8s

LEMMA MeetsLevelStep ==
  ASSUME TypeOK, AdmissionMeetsLevel, [Next]_vars
  PROVE  AdmissionMeetsLevel'
<1>1. CASE UNCHANGED <<now, cookies, verdict>>
  BY <1>1 DEF AdmissionMeetsLevel, Admitted
<1>2. CASE verdict' = NoVerdict
  BY <1>2 DEF AdmissionMeetsLevel, Admitted, NoVerdict
<1>3. ASSUME NEW a \in Agents, NEW ri \in RequestIds, NEW n \in Names,
             NEW shown \in Showable, HandleSPOEValidate(a, ri, n, shown)
      PROVE  AdmissionMeetsLevel'
  <2>1. /\ verdict'.level = ri.level /\ verdict'.shown = shown
        /\ verdict'.valid = IsValidCookie(ri, shown, cached[a])
        /\ cookies' = cookies
    BY <1>3 DEF HandleSPOEValidate
  <2>2. SUFFICES ASSUME IsValidCookie(ri, shown, cached[a])
                 PROVE  \E c \in cookies :
                          /\ Cookie(c) = shown
                          /\ LevelIndex(Len(Configured[c.conf]), c.level)
                               >= LevelIndex(Len(Configured[c.conf]), ri.level)
    BY <2>1 DEF AdmissionMeetsLevel, Admitted
  <2>3. PICK c \in cookies : Cookie(c) = shown /\ c.level >= ri.level
    BY <2>2, ValidIsMinted
  <2>4. c.conf \in Names /\ c.level \in Uint8s /\ ri.level \in Uint8s
    BY DEF TypeOK, CookieRecords, RequestIds
  <2>5. Len(Configured[c.conf]) \in 1 .. 255
    BY <2>4, ConfigAssumption
  <2>6. ri.level <= c.level
    BY <2>3, <2>4 DEF Uint8s
  <2> DEFINE size == Len(Configured[c.conf])
             low == LevelIndex(size, ri.level)
             high == LevelIndex(size, c.level)
  <2>7. low <= high
    BY <2>4, <2>5, <2>6, LevelIndexMonotone
  <2>8. low \in 1 .. size /\ high \in 1 .. size
    BY <2>4, <2>5, LevelIndexInRange
  <2>9. high >= low
    BY <2>5, <2>7, <2>8
  <2> QED
    BY <2>3, <2>9
<1> QED
  BY <1>1, <1>2, <1>3, VerdictChange

(* What lets a request through was earned at a configured level at least   *)
(* as high as the one that serves the request, for every number of levels. *)
THEOREM AdmissionIsAtLevel == Spec => []AdmissionMeetsLevel
<1>1. Init => AdmissionMeetsLevel
  BY DEF Init, AdmissionMeetsLevel, Admitted, NoVerdict
<1>2. TypeOK /\ AdmissionMeetsLevel /\ [Next]_vars => AdmissionMeetsLevel'
  BY MeetsLevelStep
<1> QED
  BY <1>1, <1>2, TypeCorrect, PTL DEF Spec

------------------------------------------------------------------------------
(* Sums                                                                    *)

(* Every sum a browser sees comes with the deadline of a challenge that    *)
(* was handed out: powValidator.isValid leaks none through resp.Body.      *)
THEOREM SumsAreAllDated == Spec => []SumsAreDated
<1>1. ASSUME IInv PROVE SumsAreDated
  <2>1. ASSUME NEW ch \in challenges
        PROVE  ch.exp <= ExpireAt(ch.since, Duration(ch.conf, ch.level))
    <3>1. /\ ch \in ChallengeRecords
          /\ SetAt(ch.exp, ch.since, Duration(ch.conf, ch.level))
      BY <1>1 DEF IInv, TypeOK, ChallengesStamped
    <3>2. ch.since \in Nat /\ Duration(ch.conf, ch.level) \in Nat
      BY <3>1, LevelConfigType DEF ChallengeRecords
    <3>3. PICK lag \in 0 .. MaxLag :
            ch.exp = ExpireAt(ch.since - lag, Duration(ch.conf, ch.level))
      BY <3>1 DEF SetAt
    <3> QED
      BY <3>2, <3>3, UnixMonotone DEF ExpireAt
  <2> QED
    BY <2>1 DEF SumsAreDated
<1> QED
  BY <1>1, Inductive, PTL
=============================================================================

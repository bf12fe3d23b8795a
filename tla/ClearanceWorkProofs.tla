------------------------- MODULE ClearanceWorkProofs -------------------------
(***************************************************************************)
(* What a cookie costs, for every value of the constants: the work behind  *)
(* each cookie, the deadline of that work, and the single use of a captcha *)
(* token. The invariant WorkInv carries what a call in flight has already  *)
(* been checked for, across the step in which its clock, its deadline or   *)
(* its agent may change.                                                   *)
(***************************************************************************)
EXTENDS ClearanceProofs

------------------------------------------------------------------------------
(* Growth                                                                  *)

LEMMA Growth ==
  ASSUME TypeOK, [Next]_vars
  PROVE  /\ now' \in {now, now + 1}
         /\ solved \subseteq solved' /\ redeemed \subseteq redeemed'
         /\ challenges \subseteq challenges' /\ cookies \subseteq cookies'
<1>1. now' \in {now, now + 1} /\ cookies \subseteq cookies'
  BY CookieChange DEF MintsFree, MintsCall
<1>2. challenges \subseteq challenges'
  BY ChallengeChange
<1>3. solved \subseteq solved' /\ redeemed \subseteq redeemed'
  <2>1. CASE UNCHANGED vars
    BY <2>1 DEF vars
  <2>2. CASE Tick \/ \E a \in Agents : Refresh(a) \/ Restart(a)
    BY <2>2 DEF Tick, Refresh, Restart
  <2>3. CASE Solve \/ \E req \in Requests : DropRequest(req)
    BY <2>3 DEF Solve, DropRequest
  <2>4. ASSUME NEW a \in Agents, NEW ri \in RequestIds, NEW c \in Names,
               Serve(a, ri, c)
        PROVE  solved \subseteq solved' /\ redeemed \subseteq redeemed'
    BY <2>4 DEF Serve, HandleSPOEValidate, HandleSPOEChallenge, AnswerOnly,
       GetNone, GetPow, PostPowRefused, PostPowChecked, PostCaptcha
  <2>5. ASSUME NEW w \in Workers, Continue(w)
        PROVE  solved \subseteq solved' /\ redeemed \subseteq redeemed'
    BY <2>5 DEF Continue, VerdictGranted, VerdictRefused,
       ProviderUnavailable, Mint, MintTooLate
  <2> QED
    BY <2>1, <2>2, <2>3, <2>4, <2>5, NextCases
<1> QED
  BY <1>1, <1>2, <1>3

------------------------------------------------------------------------------
(* Calls in flight                                                         *)

(* What a step can do to the calls: drop some of them, start one, or take  *)
(* the verdict of one.                                                     *)
StartsPow(w, a, ri, c, s) ==
  HashedFrom(ri.id, ri.host, c) /\ PostPowChecked(w, a, ri, c, s)
StartsCaptcha(w, a, ri, c, token) ==
  HashedFrom(ri.id, ri.host, c) /\ PostCaptcha(w, a, ri, c, token)

LEMMA CallChange ==
  ASSUME TypeOK, [Next]_vars
  PROVE  \/ \A v \in Workers : calls'[v] \in {calls[v], Idle}
         \/ \E w \in Workers, a \in Agents, ri \in RequestIds, c \in Names :
              \/ \E s \in Solutions : StartsPow(w, a, ri, c, s)
              \/ \E token \in Tokens : StartsCaptcha(w, a, ri, c, token)
         \/ \E w \in Workers : VerdictGranted(w)
<1>1. CASE UNCHANGED vars
  BY <1>1 DEF vars
<1>2. CASE Tick \/ \E a \in Agents : Refresh(a) \/ Restart(a)
  BY <1>2 DEF Tick, Refresh, Restart
<1>3. CASE Solve \/ \E req \in Requests : DropRequest(req)
  BY <1>3 DEF Solve, DropRequest
<1>4. ASSUME NEW a \in Agents, NEW ri \in RequestIds, NEW c \in Names,
             Serve(a, ri, c)
      PROVE  \/ calls' = calls
             \/ \E w \in Workers :
                  \/ \E s \in Solutions : StartsPow(w, a, ri, c, s)
                  \/ \E token \in Tokens : StartsCaptcha(w, a, ri, c, token)
  BY <1>4 DEF Serve, HandleSPOEValidate, HandleSPOEChallenge, AnswerOnly,
     GetNone, GetPow, PostPowRefused, StartsPow, StartsCaptcha
<1>5. ASSUME NEW w \in Workers, Continue(w)
      PROVE  \/ \A v \in Workers : calls'[v] \in {calls[v], Idle}
             \/ VerdictGranted(w)
  <2>1. Answered(w) => \A v \in Workers : calls'[v] \in {calls[v], Idle}
    BY DEF Answered, TypeOK
  <2> QED
    BY <1>5, <2>1 DEF Continue, VerdictRefused, ProviderUnavailable, Mint,
       MintTooLate
<1> QED
  BY <1>1, <1>2, <1>3, <1>4, <1>5, NextCases

JustifiedNow(call)  == CallJustified(call, now, solved, challenges, redeemed)
JustifiedNext(call) == CallJustified(call, now', solved', challenges', redeemed')

(* What a call has been checked for stays true of it.                      *)
LEMMA CallStaysJustified ==
  ASSUME TypeOK, [Next]_vars, NEW call \in Calls, JustifiedNow(call)
  PROVE  JustifiedNext(call)
<1>1. call.start <= now'
  BY Growth DEF TypeOK, Calls, CallRecords, JustifiedNow, CallJustified
<1> QED
  BY <1>1, Growth DEF JustifiedNow, JustifiedNext, CallJustified

LEMMA StageMint ==
  ASSUME TypeOK, NEW w \in Workers, calls[w].stage = "mint"
  PROVE  calls[w] # Idle /\ calls[w] \in Calls
  BY DEF TypeOK, Idle

LEMMA PowCallJustified ==
  ASSUME IInv, NEW w \in Workers, NEW a \in Agents, NEW ri \in RequestIds,
         NEW c \in Names, NEW s \in Solutions, StartsPow(w, a, ri, c, s)
  PROVE  JustifiedNext(calls'[w])
<1> DEFINE call == [stage |-> "mint", agent |-> a, ri |-> ri, conf |-> c,
                    start |-> now, work |-> s.random]
<1>1. calls'[w] = call /\ now' = now /\ solved' = solved
        /\ challenges' = challenges /\ now <= now
  BY DEF StartsPow, PostPowChecked, Start, IInv, TypeOK
<1>2. Type(c, ri.level) = "pow" /\ IsValidSolution(ri, s, cached[a])
  BY DEF StartsPow, PostPowChecked
<1>3. s.random \in solved
  BY <1>2 DEF IsValidSolution, Solutions
<1>4. /\ s.sum = ChallengeSum(ri.id, ri.level, s.random)
      /\ s.sum \in KnownSums
      /\ ~Expired(cached[a], s.random.exp)
  BY <1>2 DEF IsValidSolution, Solutions
<1>5. ASSUME NEW k \in cookies PROVE Cookie(k).sum # s.sum
  BY <1>4 DEF Cookie, CookieSum, ChallengeSum
<1>6. PICK ch \in challenges : SumOf(ch) = s.sum
  BY <1>4, <1>5 DEF KnownSums
<1>7. Asks(ch, ri.id, ri.level, s.random)
  BY <1>4, <1>6 DEF SumOf, ChallengeSum, Asks
<1>8. ch.exp = s.random.exp
  BY <1>7 DEF Asks, Random
<1>9. /\ ch \in ChallengeRecords
      /\ SetAt(ch.exp, ch.since, Duration(ch.conf, ch.level))
  BY DEF IInv, TypeOK, ChallengesStamped
<1>10. ch.since \in Nat /\ Duration(ch.conf, ch.level) \in Nat
  BY <1>9, LevelConfigType DEF ChallengeRecords
<1>11. now \in Nat /\ cached[a] \in Nat /\ now - cached[a] <= MaxLag
  BY DEF IInv, TypeOK
<1>12. now < ch.since + Duration(ch.conf, ch.level) + Grace
  BY <1>4, <1>8, <1>9, <1>10, <1>11, DeadlineMet
<1>13. JustifiedNext(call)
  BY <1>1, <1>2, <1>3, <1>7, <1>12 DEF JustifiedNext, CallJustified, StartsPow
<1> QED
  BY <1>1, <1>13

LEMMA CaptchaCallJustified ==
  ASSUME IInv, NEW w \in Workers, NEW a \in Agents, NEW ri \in RequestIds,
         NEW c \in Names, NEW token \in Tokens,
         StartsCaptcha(w, a, ri, c, token)
  PROVE  JustifiedNext(calls'[w])
<1> DEFINE call == [stage |-> "verify", agent |-> a, ri |-> ri, conf |-> c,
                    start |-> now, work |-> token]
<1>1. calls'[w] = call /\ now' = now /\ now <= now
  BY DEF StartsCaptcha, PostCaptcha, Start, IInv, TypeOK
<1>2. JustifiedNext(call)
  BY <1>1 DEF JustifiedNext, CallJustified, StartsCaptcha, PostCaptcha
<1> QED
  BY <1>1, <1>2

LEMMA GrantedCallJustified ==
  ASSUME TypeOK, CallsJustified, NEW w \in Workers, VerdictGranted(w)
  PROVE  JustifiedNext(calls'[w])
<1> DEFINE call == calls[w]
           new  == [call EXCEPT !.stage = "mint"]
<1>1. call \in CallRecords("verify", Tokens) /\ call # Idle
  BY DEF VerdictGranted, TypeOK, Idle, Calls, CallRecords
<1>2. calls'[w] = new /\ now' = now /\ call.work \in redeemed'
        /\ HostAgrees(call)
  BY DEF VerdictGranted, TypeOK
<1>3. /\ new.start = call.start /\ new.ri = call.ri /\ new.conf = call.conf
      /\ new.work = call.work /\ new.stage = "mint"
  BY <1>1 DEF CallRecords
<1>4. JustifiedNow(call) /\ Type(call.conf, call.ri.level) = "captcha"
  BY <1>1 DEF CallsJustified, JustifiedNow, CallJustified, CallRecords
<1>5. JustifiedNext(new)
  BY <1>2, <1>3, <1>4 DEF JustifiedNow, JustifiedNext, CallJustified, HostAgrees
<1> QED
  BY <1>2, <1>5

LEMMA CallsJustifiedStep ==
  ASSUME IInv, CallsJustified, [Next]_vars
  PROVE  CallsJustified'
<1>1. SUFFICES ASSUME NEW v \in Workers, calls'[v] # Idle
               PROVE  JustifiedNext(calls'[v])
  BY DEF CallsJustified, JustifiedNow, JustifiedNext
<1>2. CASE calls'[v] = calls[v]
  <2>1. calls[v] \in Calls /\ JustifiedNow(calls[v])
    BY <1>1, <1>2 DEF IInv, TypeOK, CallsJustified, JustifiedNow
  <2>2. JustifiedNext(calls[v])
    BY <2>1, CallStaysJustified DEF IInv
  <2> QED
    BY <1>2, <2>2
<1>3. ASSUME NEW w \in Workers, NEW a \in Agents, NEW ri \in RequestIds,
             NEW c \in Names, NEW s \in Solutions, StartsPow(w, a, ri, c, s)
      PROVE  JustifiedNext(calls'[v])
  <2>1. v # w => calls'[v] = calls[v]
    BY <1>3 DEF StartsPow, PostPowChecked, Start, IInv, TypeOK
  <2> QED
    BY <1>2, <1>3, <2>1, PowCallJustified
<1>4. ASSUME NEW w \in Workers, NEW a \in Agents, NEW ri \in RequestIds,
             NEW c \in Names, NEW token \in Tokens,
             StartsCaptcha(w, a, ri, c, token)
      PROVE  JustifiedNext(calls'[v])
  <2>1. v # w => calls'[v] = calls[v]
    BY <1>4 DEF StartsCaptcha, PostCaptcha, Start, IInv, TypeOK
  <2> QED
    BY <1>2, <1>4, <2>1, CaptchaCallJustified
<1>5. ASSUME NEW w \in Workers, VerdictGranted(w)
      PROVE  JustifiedNext(calls'[v])
  <2>1. v # w => calls'[v] = calls[v]
    BY <1>5 DEF VerdictGranted, IInv, TypeOK
  <2> QED
    BY <1>2, <1>5, <2>1, GrantedCallJustified DEF IInv
<1> QED
  BY <1>1, <1>2, <1>3, <1>4, <1>5, CallChange DEF IInv

------------------------------------------------------------------------------
(* Cookies                                                                 *)

(* The two ways a cookie comes into being, with what is known of the call. *)
LEMMA MintingCall ==
  ASSUME CallsJustified, NEW w \in Workers, MintsCall(w)
  PROVE  /\ calls[w] \in CallRecords("mint", Works)
         /\ InTime(calls[w])
         /\ JustifiedNow(calls[w])
<1>1. calls[w] \in CallRecords("mint", Works) /\ InTime(calls[w])
  BY DEF MintsCall
<1>2. calls[w] # Idle
  BY <1>1 DEF CallRecords, Idle
<1> QED
  BY <1>1, <1>2 DEF CallsJustified, JustifiedNow

(* What a cookie c has cost, with these randoms solved, challenges given   *)
(* out and tokens redeemed.                                                *)
Cost(c, found, given, spent) ==
  /\ Type(c.conf, c.level) = "pow" =>
       /\ c.work \in found
       /\ \E ch \in given : Asks(ch, c.id, c.level, c.work)
  /\ Type(c.conf, c.level) = "captcha" =>
       /\ c.work \in spent
       /\ \E host \in Hosts : /\ HashedFrom(c.id, host, c.conf)
                              /\ PageAgrees(c.conf, c.level, c.work, host)

LEMMA EarnedStep ==
  ASSUME IInv, CallsJustified, ClearanceEarned, [Next]_vars
  PROVE  ClearanceEarned'
<1>1. SUFFICES ASSUME NEW c \in cookies'
               PROVE  Cost(c, solved', challenges', redeemed')
  BY DEF ClearanceEarned, Cost
<1>2. CASE c \in cookies
  <2>1. Cost(c, solved, challenges, redeemed)
    BY <1>2 DEF ClearanceEarned, Cost
  <2> QED
    BY <2>1, Growth DEF IInv, Cost
<1>3. ASSUME NEW a \in Agents, NEW ri \in RequestIds, NEW n \in Names,
             Type(n, ri.level) = "none", c = ToCookie(a, ri, n, NoWork)
      PROVE  Cost(c, solved', challenges', redeemed')
  BY <1>3 DEF ToCookie, Cost
<1>4. ASSUME NEW w \in Workers, MintsCall(w),
             c = ToCookie(calls[w].agent, calls[w].ri, calls[w].conf, calls[w].work)
      PROVE  Cost(c, solved', challenges', redeemed')
  <2> DEFINE call == calls[w]
  <2>1. call \in CallRecords("mint", Works) /\ JustifiedNow(call)
    BY <1>4, MintingCall
  <2>2. /\ c.id = call.ri.id /\ c.level = call.ri.level
        /\ c.conf = call.conf /\ c.work = call.work
    BY <1>4 DEF ToCookie
  <2>3. call.stage = "mint" /\ call.ri.host \in Hosts
    BY <2>1 DEF CallRecords
  <2>4. HostAgrees(call) => PageAgrees(c.conf, c.level, c.work, call.ri.host)
    BY <2>2 DEF HostAgrees, PageAgrees
  <2>5. Cost(c, solved, challenges, redeemed)
    BY <2>1, <2>2, <2>3, <2>4 DEF JustifiedNow, CallJustified, Cost
  <2> QED
    BY <2>5, Growth DEF IInv, Cost
<1> QED
  BY <1>1, <1>2, <1>3, <1>4, CookieChange DEF IInv, MintsFree, MintsCall

(* c was minted before its work was too old.                               *)
OnTime(c, given) ==
  Type(c.conf, c.level) = "pow" =>
    \E ch \in given :
      /\ Asks(ch, c.id, c.level, c.work)
      /\ c.at < ch.since + Duration(ch.conf, ch.level) + Grace + ProcTimeout

LEMMA WorkExpiresStep ==
  ASSUME IInv, CallsJustified, WorkExpires, [Next]_vars
  PROVE  WorkExpires'
<1>1. SUFFICES ASSUME NEW c \in cookies' PROVE OnTime(c, challenges')
  BY DEF WorkExpires, OnTime
<1>2. CASE c \in cookies
  <2>1. OnTime(c, challenges)
    BY <1>2 DEF WorkExpires, OnTime
  <2> QED
    BY <2>1, Growth DEF IInv, OnTime
<1>3. ASSUME NEW a \in Agents, NEW ri \in RequestIds, NEW n \in Names,
             Type(n, ri.level) = "none", c = ToCookie(a, ri, n, NoWork)
      PROVE  OnTime(c, challenges')
  BY <1>3 DEF ToCookie, OnTime
<1>4. ASSUME NEW w \in Workers, MintsCall(w),
             c = ToCookie(calls[w].agent, calls[w].ri, calls[w].conf, calls[w].work)
      PROVE  OnTime(c, challenges')
  <2> DEFINE call == calls[w]
  <2>1. /\ call \in CallRecords("mint", Works) /\ JustifiedNow(call)
        /\ now <= call.start + ProcTimeout
    BY <1>4, MintingCall DEF InTime
  <2>2. /\ c.id = call.ri.id /\ c.level = call.ri.level /\ c.at = now
        /\ c.conf = call.conf /\ c.work = call.work
    BY <1>4 DEF ToCookie
  <2>3. CASE Type(c.conf, c.level) = "pow"
    <3>1. call.stage = "mint" /\ call.start \in Nat
      BY <2>1 DEF CallRecords
    <3>2. PICK ch \in challenges :
            /\ Asks(ch, c.id, c.level, c.work)
            /\ call.start < ch.since + Duration(ch.conf, ch.level) + Grace
      BY <2>1, <2>2, <2>3, <3>1 DEF JustifiedNow, CallJustified
    <3>3. ch.since \in Nat /\ Duration(ch.conf, ch.level) \in Nat
      BY LevelConfigType DEF IInv, TypeOK, ChallengeRecords
    <3>4. now \in Nat /\ Grace \in Nat /\ ProcTimeout \in Nat
      BY TimeAssumption, TicksAssumption DEF IInv, TypeOK, Grace
    <3>5. c.at < ch.since + Duration(ch.conf, ch.level) + Grace + ProcTimeout
      BY <2>1, <2>2, <3>1, <3>2, <3>3, <3>4
    <3> QED
      BY <3>2, <3>5, Growth DEF IInv, OnTime
  <2> QED
    BY <2>3 DEF OnTime
<1> QED
  BY <1>1, <1>2, <1>3, <1>4, CookieChange DEF IInv, MintsFree, MintsCall

------------------------------------------------------------------------------
(* Tokens                                                                  *)

(* The work of a call or a cookie that is a token has been redeemed.       *)
LEMMA SolvedIsNoToken ==
  ASSUME TypeOK, NEW r \in solved
  PROVE  r \notin Tokens
  BY TokenAssumption DEF TypeOK, Randoms

LEMMA MintingTokenRedeemed ==
  ASSUME TypeOK, CallsJustified, NEW w \in Workers,
         calls[w].stage = "mint", calls[w].work \in Tokens
  PROVE  calls[w].work \in redeemed
<1>1. JustifiedNow(calls[w])
  BY StageMint DEF CallsJustified, JustifiedNow
<1> QED
  BY <1>1, SolvedIsNoToken DEF JustifiedNow, CallJustified

LEMMA CookieTokenRedeemed ==
  ASSUME TypeOK, ClearanceEarned, TokensSpentOnce,
         NEW c \in cookies, c.work \in Tokens
  PROVE  c.work \in redeemed
<1>1. Type(c.conf, c.level) \in ValidationTypes
  BY LevelConfigType DEF TypeOK, CookieRecords, Type
<1>2. c.work # NoWork
  BY TokenAssumption DEF NoWork
<1> QED
  BY <1>1, <1>2, SolvedIsNoToken DEF ClearanceEarned, TokensSpentOnce,
     ValidationTypes

(* As CookieChange, with what becomes of the calls.                        *)
LEMMA MintChange ==
  ASSUME TypeOK, [Next]_vars
  PROVE  \/ cookies' = cookies
         \/ /\ calls' = calls
            /\ \E a \in Agents, ri \in RequestIds, c \in Names :
                 MintsFree(a, ri, c)
         \/ \E w \in Workers : Mint(w)
<1>1. CASE UNCHANGED vars
  BY <1>1 DEF vars
<1>2. CASE Tick \/ \E a \in Agents : Refresh(a) \/ Restart(a)
  BY <1>2 DEF Tick, Refresh, Restart
<1>3. CASE Solve \/ \E req \in Requests : DropRequest(req)
  BY <1>3 DEF Solve, DropRequest
<1>4. ASSUME NEW a \in Agents, NEW ri \in RequestIds, NEW c \in Names,
             Serve(a, ri, c)
      PROVE  cookies' = cookies \/ (calls' = calls /\ MintsFree(a, ri, c))
  BY <1>4 DEF Serve, HandleSPOEValidate, HandleSPOEChallenge, AnswerOnly,
     GetNone, GetPow, PostPowRefused, PostPowChecked, PostCaptcha, MintsFree
<1>5. ASSUME NEW w \in Workers, Continue(w)
      PROVE  cookies' = cookies \/ Mint(w)
  BY <1>5 DEF Continue, VerdictGranted, VerdictRefused, ProviderUnavailable,
     MintTooLate
<1> QED
  BY <1>1, <1>2, <1>3, <1>4, <1>5, NextCases

(* The token of a call that is about to mint, wherever the call comes from.*)
LEMMA MintingChange ==
  ASSUME TypeOK, [Next]_vars, NEW v \in Workers,
         calls'[v].stage = "mint", calls'[v].work \in Tokens
  PROVE  \/ calls'[v] = calls[v]
         \/ /\ VerdictGranted(v)
            /\ calls'[v].work \notin redeemed
            /\ \A w \in Workers : w # v => calls'[w] = calls[w]
            /\ cookies' = cookies
<1>1. CASE \A w \in Workers : calls'[w] \in {calls[w], Idle}
  BY <1>1 DEF Idle
<1>2. ASSUME NEW w \in Workers, NEW a \in Agents, NEW ri \in RequestIds,
             NEW c \in Names, NEW s \in Solutions, StartsPow(w, a, ri, c, s)
      PROVE  calls'[v] = calls[v]
  <2>1. v # w => calls'[v] = calls[v]
    BY <1>2 DEF StartsPow, PostPowChecked, Start, TypeOK
  <2>2. calls'[w].work = s.random /\ s.random \in solved
    BY <1>2 DEF StartsPow, PostPowChecked, Start, TypeOK, IsValidSolution,
       Solutions
  <2> QED
    BY <2>1, <2>2, SolvedIsNoToken
<1>3. ASSUME NEW w \in Workers, NEW a \in Agents, NEW ri \in RequestIds,
             NEW c \in Names, NEW token \in Tokens,
             StartsCaptcha(w, a, ri, c, token)
      PROVE  calls'[v] = calls[v]
  BY <1>3 DEF StartsCaptcha, PostCaptcha, Start, TypeOK
<1>4. ASSUME NEW w \in Workers, VerdictGranted(w)
      PROVE  \/ calls'[v] = calls[v]
             \/ /\ v = w /\ calls'[v].work \notin redeemed
                /\ \A u \in Workers : u # v => calls'[u] = calls[u]
                /\ cookies' = cookies
  <2>1. calls[w] \in CallRecords("verify", Tokens)
    BY <1>4 DEF VerdictGranted, TypeOK, Idle, Calls, CallRecords
  <2>2. calls'[w].work = calls[w].work
    BY <1>4, <2>1 DEF VerdictGranted, TypeOK, CallRecords
  <2> QED
    BY <1>4, <2>2 DEF VerdictGranted, TypeOK, ProviderAccepts
<1> QED
  BY <1>1, <1>2, <1>3, <1>4, CallChange

LEMMA TokensSpentOnceStep ==
  ASSUME IInv, CallsJustified, TokensSpentOnce, ClearanceEarned, [Next]_vars
  PROVE  TokensSpentOnce'
<1>1. ASSUME NEW v \in Workers, NEW w \in Workers, v # w,
             calls'[v].stage = "mint", calls'[w].stage = "mint",
             calls'[v].work \in Tokens
      PROVE  calls'[v].work # calls'[w].work
  <2>1. SUFFICES ASSUME calls'[w].work = calls'[v].work PROVE FALSE
    OBVIOUS
  <2>2. CASE calls'[v] = calls[v] /\ calls'[w] = calls[w]
    BY <1>1, <2>1, <2>2 DEF TokensSpentOnce
  <2>3. CASE calls'[v].work \notin redeemed /\ calls'[w] = calls[w]
    BY <1>1, <2>1, <2>3, MintingTokenRedeemed DEF IInv
  <2>4. CASE calls'[w].work \notin redeemed /\ calls'[v] = calls[v]
    BY <1>1, <2>1, <2>4, MintingTokenRedeemed DEF IInv
  <2> QED
    BY <1>1, <2>1, <2>2, <2>3, <2>4, MintingChange DEF IInv
<1>2. ASSUME NEW w \in Workers, NEW c \in cookies',
             calls'[w].stage = "mint", c.work \in Tokens,
             calls'[w].work = c.work
      PROVE  FALSE
  <2>1. CASE cookies' = cookies
    <3>1. c.work \in redeemed
      BY <1>2, <2>1, CookieTokenRedeemed DEF IInv
    <3>2. calls'[w] = calls[w]
      BY <1>2, <3>1, MintingChange DEF IInv
    <3> QED
      BY <1>2, <2>1, <3>2 DEF TokensSpentOnce
  <2>2. ASSUME NEW a \in Agents, NEW ri \in RequestIds, NEW n \in Names,
               calls' = calls, MintsFree(a, ri, n)
        PROVE  FALSE
    <3>1. c \in cookies
      BY <1>2, <2>2, TokenAssumption DEF MintsFree, ToCookie, NoWork
    <3> QED
      BY <1>2, <2>2, <3>1 DEF TokensSpentOnce
  <2>3. ASSUME NEW u \in Workers, Mint(u) PROVE FALSE
    <3>1. u # w /\ calls'[w] = calls[w] /\ calls[u].stage = "mint"
      BY <1>2, <2>3 DEF Mint, Answered, IInv, TypeOK, Idle
    <3>2. c \in cookies \/ c.work = calls[u].work
      BY <1>2, <2>3 DEF Mint, ToCookie
    <3> QED
      BY <1>2, <3>1, <3>2 DEF TokensSpentOnce
  <2> QED
    BY <2>1, <2>2, <2>3, MintChange DEF IInv
<1>3. ASSUME NEW c \in cookies', Type(c.conf, c.level) = "none"
      PROVE  c.work = NoWork
  <2>1. CASE c \in cookies
    BY <1>3, <2>1 DEF TokensSpentOnce
  <2>2. ASSUME NEW a \in Agents, NEW ri \in RequestIds, NEW n \in Names,
               MintsFree(a, ri, n)
        PROVE  c \in cookies \/ c.work = NoWork
    BY <1>3, <2>2 DEF MintsFree, ToCookie
  <2>3. ASSUME NEW u \in Workers, Mint(u) PROVE c \in cookies
    <3>1. JustifiedNow(calls[u]) /\ calls[u].stage = "mint"
      BY <2>3, StageMint DEF Mint, CallsJustified, JustifiedNow, IInv
    <3>2. Type(calls[u].conf, calls[u].ri.level) # "none"
      BY <3>1 DEF JustifiedNow, CallJustified
    <3> QED
      BY <1>3, <2>3, <3>2 DEF Mint, ToCookie
  <2> QED
    BY <2>1, <2>2, <2>3, <1>3, MintChange DEF IInv
<1> QED
  BY <1>1, <1>2, <1>3 DEF TokensSpentOnce

LEMMA OneCookieStep ==
  ASSUME IInv, TokensSpentOnce, TokenBuysOneCookie, [Next]_vars
  PROVE  TokenBuysOneCookie'
<1>1. CASE cookies' = cookies
  BY <1>1 DEF TokenBuysOneCookie
<1>2. ASSUME NEW a \in Agents, NEW ri \in RequestIds, NEW n \in Names,
             MintsFree(a, ri, n)
      PROVE  TokenBuysOneCookie'
  <2>1. ToCookie(a, ri, n, NoWork).work \notin Tokens
    BY TokenAssumption DEF ToCookie, NoWork
  <2> QED
    BY <1>2, <2>1 DEF MintsFree, TokenBuysOneCookie
<1>3. ASSUME NEW u \in Workers, Mint(u) PROVE TokenBuysOneCookie'
  <2>1. \A c \in cookies : c.work \in Tokens => c.work # calls[u].work
    BY <1>3 DEF Mint, TokensSpentOnce
  <2>2. \A c \in cookies' : c \in cookies
           \/ c = ToCookie(calls[u].agent, calls[u].ri, calls[u].conf, calls[u].work)
    BY <1>3 DEF Mint
  <2>3. ToCookie(calls[u].agent, calls[u].ri, calls[u].conf, calls[u].work).work
          = calls[u].work
    BY DEF ToCookie
  <2> QED
    BY <2>1, <2>2, <2>3 DEF TokenBuysOneCookie
<1> QED
  BY <1>1, <1>2, <1>3, MintChange DEF IInv

------------------------------------------------------------------------------
(* The theorems                                                            *)

LEMMA WorkInit == ASSUME Init PROVE WorkInv
  BY DEF Init, WorkInv, CallsJustified, TokensSpentOnce, ClearanceEarned,
     WorkExpires, TokenBuysOneCookie, Idle

(* The invariant of the work: every call in flight was checked as far as   *)
(* it has come, and every cookie was paid for, in time and once.           *)
THEOREM WorkInvariant == Spec => []WorkInv
<1>1. Init => WorkInv
  BY WorkInit
<1>2. IInv /\ WorkInv /\ [Next]_vars => WorkInv'
  BY CallsJustifiedStep, TokensSpentOnceStep, EarnedStep, WorkExpiresStep,
     OneCookieStep DEF WorkInv
<1> QED
  BY <1>1, <1>2, Inductive, PTL DEF Spec

(* No cookie without the work of its level, done for the same identity.    *)
THEOREM ClearanceIsEarned == Spec => []ClearanceEarned
<1>1. WorkInv => ClearanceEarned
  BY DEF WorkInv
<1> QED
  BY <1>1, WorkInvariant, PTL

(* No cookie for a PoW answer older than its challenge's duration, a       *)
(* second, MaxLag and the time HAProxy waits for a call.                   *)
THEOREM WorkDoesExpire == Spec => []WorkExpires
<1>1. WorkInv => WorkExpires
  BY DEF WorkInv
<1> QED
  BY <1>1, WorkInvariant, PTL

(* No two cookies for one captcha token, however calls are interleaved.    *)
THEOREM TokensBuyOneCookie == Spec => []TokenBuysOneCookie
<1>1. WorkInv => TokenBuysOneCookie
  BY DEF WorkInv
<1> QED
  BY <1>1, WorkInvariant, PTL
=============================================================================

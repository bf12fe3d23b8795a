------------------------ MODULE ClearanceDoorProofs ------------------------
(***************************************************************************)
(* Clearance implements DoorPolicy for every value of the constants: its   *)
(* initial state is the door's, and each of its steps is, seen through     *)
(* AsJob, AsPass and AsAnswer, one of the door's or a stutter.             *)
(***************************************************************************)
EXTENDS ClearanceDoor, ClearanceWorkProofs

(* What a step shows of itself: nothing new, time that may pass, new jobs, *)
(* new passes, or the verdict on a cookie.                                 *)
Silent    == UNCHANGED <<now, challenges, cookies, verdict>>
Passing   == UNCHANGED <<challenges, cookies>> /\ now' \in {now, now + 1}
Giving    == UNCHANGED <<now, cookies>>
Minting   == UNCHANGED <<now, challenges>>
Answering == \E a \in Agents, ri \in RequestIds, c \in Names, shown \in Showable :
               HandleSPOEValidate(a, ri, c, shown)

LEMMA StepKinds ==
  ASSUME TypeOK, [Next]_vars
  PROVE  \/ Silent
         \/ verdict' = NoVerdict /\ (Passing \/ Giving \/ Minting)
         \/ Answering
<1>1. CASE UNCHANGED vars
  BY <1>1 DEF vars, Silent
<1>2. CASE Tick \/ \E a \in Agents : Refresh(a) \/ Restart(a)
  BY <1>2 DEF Tick, Refresh, Restart, Passing
<1>3. CASE Solve \/ \E req \in Requests : DropRequest(req)
  BY <1>3 DEF Solve, DropRequest, Passing
<1>4. ASSUME NEW a \in Agents, NEW ri \in RequestIds, NEW c \in Names,
             Serve(a, ri, c)
      PROVE  \/ verdict' = NoVerdict /\ (Giving \/ Minting)
             \/ Answering
  <2>1. CASE \E shown \in Showable : HandleSPOEValidate(a, ri, c, shown)
    BY <2>1 DEF Answering
  <2>2. CASE HandleSPOEChallenge(a, ri, c, Solutions)
    BY <2>2 DEF HandleSPOEChallenge, AnswerOnly, GetNone, GetPow,
       PostPowRefused, PostPowChecked, PostCaptcha, Giving, Minting
  <2> QED
    BY <1>4, <2>1, <2>2 DEF Serve
<1>5. ASSUME NEW w \in Workers, Continue(w)
      PROVE  verdict' = NoVerdict /\ Minting
  BY <1>5 DEF Continue, VerdictGranted, VerdictRefused, ProviderUnavailable,
     Mint, MintTooLate, Minting
<1> QED
  BY <1>1, <1>2, <1>3, <1>4, <1>5, NextCases

------------------------------------------------------------------------------
(* Jobs and passes are of the door's types                                 *)

LEMMA AsJobType ==
  ASSUME NEW ch \in ChallengeRecords
  PROVE  AsJob(ch) \in Door!Jobs /\ AsJob(ch).since = ch.since
BY LevelConfigType DEF ChallengeRecords, AsJob, Door!Jobs

LEMMA EarnedByType ==
  ASSUME NEW c \in CookieRecords
  PROVE  /\ EarnedBy(c) \in {"nothing", "job", "receipt"}
         /\ EarnedBy(c) = "job" => Type(c.conf, c.level) = "pow"
         /\ EarnedBy(c) = "receipt" => Type(c.conf, c.level) = "captcha"
BY LevelConfigType DEF CookieRecords, EarnedBy, ValidationTypes

------------------------------------------------------------------------------
(* Each kind of step is one of the door's                                  *)

LEMMA GivingIsGiveJobs ==
  ASSUME TypeOK, TypeOK', [Next]_vars, verdict' = NoVerdict, Giving
  PROVE  Door!Next
<1> DEFINE jobs == {AsJob(ch) : ch \in challenges}
           jobsNext == {AsJob(ch) : ch \in challenges'}
<1>1. jobs \subseteq jobsNext
  BY Growth
<1>2. ASSUME NEW j \in jobsNext \ jobs
      PROVE  j \in Door!Jobs /\ j.since = now
  <2>1. PICK ch \in challenges' : j = AsJob(ch) /\ ch \notin challenges
    BY <1>2
  <2>2. ch.since = now
    BY <2>1, ChallengeChange DEF NewChallenge
  <2>3. ch \in ChallengeRecords
    BY <2>1 DEF TypeOK
  <2> QED
    BY <2>1, <2>2, <2>3, AsJobType
<1>3. AsAnswer' = Door!NoAnswer
  BY DEF AsAnswer, NoVerdict, Door!NoAnswer
<1>4. now' = now /\ {AsPass(c) : c \in cookies}' = {AsPass(c) : c \in cookies}
  BY DEF Giving
<1>5. Door!GiveJobs
  BY <1>1, <1>2, <1>3, <1>4 DEF Door!GiveJobs
<1> QED
  BY <1>5 DEF Door!Next

(* A new pass answers a job or uses up a receipt; what the call that mints *)
(* it was checked for is part of WorkInv.                                  *)
LEMMA NewPassIsEarned ==
  ASSUME TypeOK, TypeOK', WorkInv', [Next]_vars, challenges' = challenges,
         NEW c \in cookies', c \notin cookies
  PROVE  Door!Earned(AsPass(c))
<1> DEFINE p == AsPass(c)
<1>1. c \in CookieRecords
  BY DEF TypeOK
<1>2. p \in Door!Passes
  <2>1. ReceiptOf(c) \in Tokens \cup {NoWork}
    BY DEF WorkInv, ClearanceEarned, TypeOK, ReceiptOf
  <2> QED
    BY <1>1, <2>1, EarnedByType, LevelConfigType
       DEF AsPass, Door!Passes, CookieRecords
<1>3. p.at = now
  BY CookieChange DEF MintsFree, MintsCall, ToCookie, AsPass
<1>4. ASSUME p.by = "job"
      PROVE  \E j \in {AsJob(ch) : ch \in challenges} :
               /\ j.who = p.who /\ j.floor = p.floor
               /\ now < j.since + j.life + (Grace + ProcTimeout)
  <2>1. Type(c.conf, c.level) = "pow"
    BY <1>1, <1>4, EarnedByType DEF AsPass
  <2>2. PICK ch \in challenges :
          /\ Asks(ch, c.id, c.level, c.work)
          /\ c.at < ch.since + Duration(ch.conf, ch.level) + Grace + ProcTimeout
    BY <2>1 DEF WorkInv, WorkExpires
  <2>3. /\ ch.since \in Nat /\ Duration(ch.conf, ch.level) \in Nat
        /\ Grace \in Nat /\ ProcTimeout \in Nat
    BY LevelConfigType, TimeAssumption, TicksAssumption
       DEF TypeOK, ChallengeRecords, Grace
  <2>4. /\ AsJob(ch).who = p.who /\ AsJob(ch).floor = p.floor
        /\ AsJob(ch).since = ch.since
        /\ AsJob(ch).life = Duration(ch.conf, ch.level)
    BY <2>2 DEF AsJob, AsPass, Asks
  <2>5. c.at = now
    BY <1>3 DEF AsPass
  <2>6. now < ch.since + Duration(ch.conf, ch.level) + (Grace + ProcTimeout)
    BY <2>2, <2>3, <2>5
  <2> QED
    BY <2>4, <2>6
<1>5. ASSUME p.by = "receipt"
      PROVE  /\ p.receipt \in Tokens
             /\ \A q \in {AsPass(d) : d \in cookies'} \ {p} :
                  q.receipt # p.receipt
  <2>1. Type(c.conf, c.level) = "captcha"
    BY <1>1, <1>5, EarnedByType DEF AsPass
  <2>2. p.receipt = c.work /\ c.work \in Tokens
    BY <2>1 DEF AsPass, ReceiptOf, WorkInv, ClearanceEarned, TypeOK
  <2>3. ASSUME NEW d \in cookies', AsPass(d).receipt = c.work
        PROVE  AsPass(d) = p
    <3>1. d.work = c.work
      BY <2>2, <2>3, TokenAssumption DEF AsPass, ReceiptOf, NoWork
    <3>2. d = c
      BY <2>2, <3>1 DEF WorkInv, TokenBuysOneCookie
    <3> QED
      BY <3>2
  <2> QED
    BY <2>2, <2>3
<1> QED
  BY <1>2, <1>3, <1>4, <1>5 DEF Door!Earned

LEMMA MintingIsGivePasses ==
  ASSUME TypeOK, TypeOK', WorkInv', [Next]_vars, verdict' = NoVerdict, Minting
  PROVE  Door!Next
<1>1. {AsPass(c) : c \in cookies} \subseteq {AsPass(c) : c \in cookies'}
  BY Growth
<1>2. ASSUME NEW p \in {AsPass(c) : c \in cookies'} \ {AsPass(c) : c \in cookies}
      PROVE  Door!Earned(p)
  <2>1. PICK c \in cookies' : p = AsPass(c) /\ c \notin cookies
    BY <1>2
  <2>2. Door!Earned(AsPass(c))
    BY <2>1, NewPassIsEarned DEF Minting
  <2> QED
    BY <2>1, <2>2
<1>3. AsAnswer' = Door!NoAnswer
  BY DEF AsAnswer, NoVerdict, Door!NoAnswer
<1>4. now' = now /\ {AsJob(ch) : ch \in challenges}' = {AsJob(ch) : ch \in challenges}
  BY DEF Minting
<1>5. Door!GivePasses
  BY <1>1, <1>2, <1>3, <1>4 DEF Door!GivePasses
<1> QED
  BY <1>5 DEF Door!Next

LEMMA PassingIsWait ==
  ASSUME verdict' = NoVerdict, Passing
  PROVE  Door!Next
<1>1. AsAnswer' = Door!NoAnswer
  BY DEF AsAnswer, NoVerdict, Door!NoAnswer
<1>2. /\ {AsPass(c) : c \in cookies}' = {AsPass(c) : c \in cookies}
      /\ {AsJob(ch) : ch \in challenges}' = {AsJob(ch) : ch \in challenges}
      /\ now' \in {now, now + 1}
  BY DEF Passing
<1>3. Door!Wait \/ Door!Rest
  BY <1>1, <1>2 DEF Door!Wait, Door!Rest
<1> QED
  BY <1>3 DEF Door!Next

(* A verdict admits only on a cookie whose deadline some clock finds met,  *)
(* and refuses one that fits only when a clock finds it missed.            *)
LEMMA AnsweringIsAnswer ==
  ASSUME IInv, Answering
  PROVE  Door!Next
<1>1. PICK a \in Agents, ri \in RequestIds, n \in Names, shown \in Showable :
        HandleSPOEValidate(a, ri, n, shown)
  BY DEF Answering
<1> DEFINE valid  == IsValidCookie(ri, shown, cached[a])
           passes == {AsPass(c) : c \in {k \in cookies : Cookie(k) = shown}}
<1>2. /\ UNCHANGED <<now, challenges, cookies>>
      /\ verdict'.given = TRUE /\ verdict'.id = ri.id
      /\ verdict'.level = ri.level /\ verdict'.shown = shown
      /\ verdict'.valid = valid
  BY <1>1 DEF HandleSPOEValidate
<1>3. valid \in BOOLEAN
  BY DEF IsValidCookie
<1>4. AsAnswer' = [given |-> TRUE, who |-> ri.id, floor |-> ri.level,
                   shown |-> passes, admit |-> valid]
  BY <1>2 DEF AsAnswer
<1>5. ri.id \in Identities /\ ri.level \in Uint8s
  BY DEF RequestIds
<1>6. /\ now \in Nat /\ cached[a] \in Nat
      /\ cached[a] <= now /\ now - cached[a] <= MaxLag
  BY DEF IInv, TypeOK
<1>7. ASSUME NEW c \in cookies
      PROVE  /\ c.at \in Nat /\ Duration(c.conf, c.level) \in Nat
             /\ SetAt(c.exp, c.at, Duration(c.conf, c.level))
             /\ AsPass(c).who = c.id /\ AsPass(c).floor = c.level
             /\ AsPass(c).at = c.at
             /\ AsPass(c).life = Duration(c.conf, c.level)
  BY LevelConfigType DEF IInv, TypeOK, CookiesStamped, CookieRecords, AsPass
<1>8. ASSUME valid
      PROVE  \E p \in passes : /\ p.who = ri.id /\ ri.level <= p.floor
                              /\ now < p.at + p.life + Grace
  <2>1. PICK c \in cookies : /\ Cookie(c) = shown
                             /\ c.id = ri.id /\ c.level >= ri.level
                             /\ ~Expired(cached[a], c.exp)
    BY <1>8, ValidIsMinted
  <2>2. now < c.at + Duration(c.conf, c.level) + Grace
    BY <1>6, <1>7, <2>1, DeadlineMet
  <2>3. AsPass(c) \in passes /\ ri.level <= AsPass(c).floor
    BY <1>5, <1>7, <2>1 DEF IInv, TypeOK, CookieRecords, Uint8s
  <2> QED
    BY <1>7, <2>1, <2>2, <2>3
<1>9. ASSUME NEW p \in passes, p.who = ri.id, ri.level <= p.floor,
             now <= p.at + p.life - MaxLag
      PROVE  valid
  <2>1. PICK c \in cookies : Cookie(c) = shown /\ p = AsPass(c)
    OBVIOUS
  <2>2. c.id = ri.id /\ ri.level <= c.level
    BY <1>7, <1>9, <2>1
  <2>3. now <= c.at + Duration(c.conf, c.level) - MaxLag
    BY <1>7, <1>9, <2>1
  <2>4. ~Expired(cached[a], c.exp)
    <3>1. SUFFICES ASSUME Expired(cached[a], c.exp) PROVE FALSE
      OBVIOUS
    <3>2. now > c.at + Duration(c.conf, c.level) - MaxLag
      BY <1>6, <1>7, <3>1, DeadlineMissed
    <3> QED
      BY <1>6, <1>7, <2>3, <3>2, TimeAssumption
  <2>5. shown # NoCookie
    BY <2>1 DEF Cookie, CookieSum, NoCookie, NoSum
  <2> QED
    BY <2>1, <2>2, <2>4, <2>5 DEF IsValidCookie, Cookie
<1>10. /\ AsAnswer' \in [given : {TRUE}, who : Identities, floor : Uint8s,
                          shown : SUBSET {AsPass(c) : c \in cookies},
                          admit : BOOLEAN]
       /\ AsAnswer'.who = ri.id /\ AsAnswer'.floor = ri.level
       /\ AsAnswer'.shown = passes /\ AsAnswer'.admit = valid
  <2>1. passes \in SUBSET {AsPass(c) : c \in cookies}
    OBVIOUS
  <2> QED
    BY <1>3, <1>4, <1>5, <2>1
<1>11. AsAnswer'.admit => Door!MayAdmit(AsAnswer')
  BY <1>8, <1>10 DEF Door!MayAdmit, Door!Fits
<1>12. Door!MustAdmit(AsAnswer') => AsAnswer'.admit
  BY <1>9, <1>10 DEF Door!MustAdmit, Door!Fits
<1>13. /\ {AsPass(c) : c \in cookies}' = {AsPass(c) : c \in cookies}
       /\ {AsJob(ch) : ch \in challenges}' = {AsJob(ch) : ch \in challenges}
  BY <1>2
<1>14. Door!Answer
  BY <1>2, <1>10, <1>11, <1>12, <1>13 DEF Door!Answer
<1> QED
  BY <1>14 DEF Door!Next

LEMMA SilentIsAStutter == Silent => UNCHANGED Door!doorVars
BY DEF Silent, Door!doorVars, AsAnswer

LEMMA DoorInit == Init => Door!Init
BY DEF Init, Door!Init, AsAnswer, NoVerdict, Door!NoAnswer

LEMMA DoorStep ==
  ASSUME IInv, WorkInv', TypeOK', [Next]_vars
  PROVE  [Door!Next]_(Door!doorVars)
BY StepKinds, SilentIsAStutter, PassingIsWait, GivingIsGiveJobs,
   MintingIsGivePasses, AnsweringIsAnswer DEF IInv

------------------------------------------------------------------------------
(* Agents, clocks, cookies, sums and calls in flight add nothing to what   *)
(* the door allows and take nothing from what it promises: every behaviour *)
(* of Clearance is one of DoorPolicy. (HandleSPOEValidate, ToCookie)       *)
THEOREM ImplementsTheDoor == Spec => KeepsThePromise
<1>1. Init => Door!Init
  BY DoorInit
<1>2. IInv /\ IInv' /\ WorkInv' /\ [Next]_vars => [Door!Next]_(Door!doorVars)
  BY DoorStep DEF IInv
<1> QED
  BY <1>1, <1>2, Inductive, WorkInvariant, PTL
     DEF Spec, KeepsThePromise, Door!Spec
=============================================================================

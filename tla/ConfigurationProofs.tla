------------------------ MODULE ConfigurationProofs ------------------------
(***************************************************************************)
(* What the file says is what is served, for every file that can be        *)
(* decoded, any number of frontends and levels, and every request.         *)
(***************************************************************************)
EXTENDS Configuration, TLAPS

LEMMA IndexFacts ==
  ASSUME NEW n \in Nat, NEW level \in 1 .. 255
  PROVE  /\ LevelIndex(n, level) \in 1 .. 256
         /\ n # 0 => LevelIndex(n, level) <= n
         /\ n # 0 /\ n <= 255 => LevelIndex(n, level) = Lesser(n, level)
BY DEF LevelIndex, Lesser, Greater, Uint8

LEMMA LevelRange ==
  ASSUME NEW r \in Requests
  PROVE  Level(r) \in 0 .. 255
BY RequestsAssumption DEF Level, Uint8

LEMMA WithinRange ==
  ASSUME NEW i \in 1 .. 256, NEW n \in Nat, i <= n
  PROVE  i \in 1 .. n /\ ~(i > n)
OBVIOUS

LEMMA ConvertedLevel ==
  ASSUME NEW raw \in RawLevels, Converts(raw)
  PROVE  AsLevelConfig(raw) \in LevelConfigs
BY DEF RawLevels, Converts, AsLevelConfig, LevelConfigs, Names, ValidationTypes,
   CaptchaTypes

LEMMA ConvertedSection ==
  ASSUME NEW levels \in Seq(RawLevels), \A i \in DOMAIN levels : Converts(levels[i])
  PROVE  Converted(levels) \in Seq(LevelConfigs) /\ Len(Converted(levels)) = Len(levels)
<1>1. DOMAIN levels = 1 .. Len(levels) /\ Len(levels) \in Nat
  OBVIOUS
<1>2. \A i \in 1 .. Len(levels) : AsLevelConfig(levels[i]) \in LevelConfigs
  BY <1>1, ConvertedLevel
<1> QED
  BY <1>1, <1>2 DEF Converted

LEMMA SectionType ==
  ASSUME Decoded(file), NEW name \in Sections
  PROVE  Section(name) \in Seq(RawLevels)
BY DEF Decoded, Section, Sections

------------------------------------------------------------------------------
(* The conversion                                                          *)

LEMMA InitIInv == Init => IInv
BY FilesAssumption DEF Init, IInv, TypeOK, ConvertedSoFar, Done

LEMMA StayConverted ==
  ASSUME IInv, UNCHANGED <<file, stage, todo, built>>
  PROVE  IInv'
BY DEF IInv, TypeOK, ConvertedSoFar, Done, Sections, Wrong, Section, Decoded, Key

LEMMA FatalStep == ASSUME IInv, Fatal PROVE IInv'
BY DEF Fatal, IInv, TypeOK, ConvertedSoFar, Done, Decoded, Sections

LEMMA LoadStep == ASSUME IInv, NewInstance PROVE IInv'
<1>1. TypeOK'
  BY DEF NewInstance, IInv, TypeOK
<1>2. ConvertedSoFar'
  BY DEF NewInstance, IInv, ConvertedSoFar, Done, Sections, Decoded
<1> QED
  BY <1>1, <1>2 DEF IInv

LEMMA ServeStep == ASSUME IInv, Serve PROVE IInv'
<1>1. TypeOK'
  BY DEF Serve, IInv, TypeOK, ConvertedSoFar
<1>2. ConvertedSoFar'
  BY DEF Serve, IInv, ConvertedSoFar, Done, Sections, Decoded, Wrong, Section, Key
<1> QED
  BY <1>1, <1>2 DEF IInv

LEMMA BerghainStep ==
  ASSUME IInv, NEW name \in todo, AsBerghain(name)
  PROVE  IInv'
<1>1. /\ stage = "convert" /\ stage' = stage /\ file' = file
      /\ todo' = todo \ {name} /\ Wrong(name) = {}
      /\ MayFollow(name)
      /\ built' = [built EXCEPT ![Key(name)] = Converted(Section(name))]
  BY DEF AsBerghain
<1>2. name \in Sections /\ Key(name) \in DOMAIN built
  BY <1>1 DEF IInv, ConvertedSoFar, Sections, Key
<1>3. Converted(Section(name)) \in Seq(LevelConfigs)
  <2>1. Section(name) \in Seq(RawLevels)
    BY <1>2, SectionType DEF IInv, ConvertedSoFar
  <2>2. \A i \in DOMAIN Section(name) : Converts(Section(name)[i])
    BY <1>1 DEF Wrong
  <2> QED
    BY <2>1, <2>2, ConvertedSection
<1>4. /\ DOMAIN built' = DOMAIN built
      /\ built'[Key(name)] = Converted(Section(name))
      /\ \A n \in DOMAIN built \ {Key(name)} : built'[n] = built[n]
  BY <1>1, <1>2
<1>5. TypeOK'
  BY <1>1, <1>3, <1>4 DEF IInv, TypeOK
<1>6. \A n : /\ Section(n)' = Section(n) /\ Wrong(n)' = Wrong(n)
             /\ Key(n)' = Key(n)
  BY <1>1 DEF Section, Wrong, Key
<1>7. ASSUME NEW n \in Sections, n \notin todo'
      PROVE  /\ Wrong(n) = {}
             /\ \/ n = "default section" /\ DefaultFrontend \in DOMAIN file.frontend
                \/ built'[Key(n)] = Converted(Section(n))
  <2>1. CASE n = name
    BY <1>1, <1>4, <2>1
  <2>2. CASE n # name
    <3>1. n \notin todo
      BY <1>1, <1>7, <2>2
    <3>2. /\ Wrong(n) = {}
          /\ \/ n = "default section" /\ DefaultFrontend \in DOMAIN file.frontend
             \/ built[Key(n)] = Converted(Section(n))
      BY <1>1, <3>1 DEF IInv, ConvertedSoFar, Done
    <3>3. Key(n) \in DOMAIN built
      BY <1>1 DEF IInv, ConvertedSoFar, Sections, Key
    <3>4. Key(n) = Key(name) =>
            n = "default section" /\ DefaultFrontend \in DOMAIN file.frontend
      BY <1>1, <1>2, <2>2, <3>1 DEF IInv, ConvertedSoFar, Sections, Key, Decoded
    <3> QED
      BY <1>4, <3>2, <3>3, <3>4
  <2> QED
    BY <2>1, <2>2
<1>8. "default section" \in todo' => DOMAIN file.frontend \subseteq todo'
  BY <1>1, <1>2 DEF IInv, ConvertedSoFar, MayFollow, Decoded
<1>9. ConvertedSoFar'
  BY <1>1, <1>4, <1>6, <1>7, <1>8 DEF IInv, ConvertedSoFar, Done, Sections, Decoded
<1> QED
  BY <1>5, <1>9 DEF IInv

LEMMA StepIInv == IInv /\ [Next]_vars => IInv'
<1> SUFFICES ASSUME IInv, [Next]_vars PROVE IInv'
  OBVIOUS
<1>1. CASE UNCHANGED vars
  BY <1>1, StayConverted DEF vars
<1>2. CASE LoadFails \/ BadSecret \/ \E name \in todo : LevelFatal(name)
  BY <1>2, FatalStep DEF LoadFails, BadSecret, LevelFatal
<1>3. CASE \E r \in Requests : Handle(r)
  BY <1>3, StayConverted DEF Handle, Disabled, Panics, Challenge
<1> QED
  BY <1>1, <1>2, <1>3, LoadStep, ServeStep, BerghainStep DEF Next, Handle

(* A frontend that is served has the levels of its section: the default    *)
(* section is converted first, and what replaces it is never replaced.     *)
THEOREM ConversionInvariant == Spec => []IInv
BY InitIInv, StepIInv, PTL DEF Spec

------------------------------------------------------------------------------
(* Serving                                                                 *)

LEMMA FrontendIsWritten ==
  ASSUME IInv, stage = "serve", NEW name
  PROVE  /\ Frontend(name) = Converted(Written(name))
         /\ Written(name) \in Seq(RawLevels)
         /\ \A i \in DOMAIN Written(name) : Converts(Written(name)[i])
<1> DEFINE key == IF name \in DOMAIN file.frontend THEN name
                  ELSE IF DefaultFrontend \in DOMAIN file.frontend
                  THEN DefaultFrontend ELSE "default section"
<1>1. key \in Sections /\ Done(key)
  BY DEF IInv, TypeOK, ConvertedSoFar, Done, Sections
<1>2. Written(name) = Section(key)
  BY DEF Written, Section, IInv, ConvertedSoFar, Decoded
<1>3. Wrong(key) = {} /\ built[Key(key)] = Converted(Section(key))
  <2>1. ~(key = "default section" /\ DefaultFrontend \in DOMAIN file.frontend)
    BY DEF IInv, ConvertedSoFar, Decoded
  <2>2. ASSUME NEW n \in Sections, Done(n)
        PROVE  /\ Wrong(n) = {}
               /\ \/ n = "default section" /\ DefaultFrontend \in DOMAIN file.frontend
                  \/ built[Key(n)] = Converted(Section(n))
    BY <2>2 DEF IInv, ConvertedSoFar
  <2> QED
    BY <1>1, <2>1, <2>2
<1>4. Frontend(name) = built[Key(key)]
  BY DEF Frontend, Key, IInv, ConvertedSoFar, Decoded
<1>5. Section(key) \in Seq(RawLevels)
  BY <1>1, SectionType DEF IInv, ConvertedSoFar
<1> QED
  BY <1>2, <1>3, <1>4, <1>5 DEF Wrong

(* What the answer to a request says, in terms of the file.                *)
LEMMA AnswerOf ==
  ASSUME IInv, NEW r \in Requests, Handle(r)
  PROVE  /\ file' = file /\ answer'.request = r
         /\ Written(r.name) \in Seq(RawLevels)
         /\ \/ Level(r) = 0 /\ answer'.kind = "silence"
            \/ /\ Level(r) # 0 /\ answer'.kind = "panic"
               /\ Index(r) > Len(Written(r.name))
               /\ Index(r) = LevelIndex(Len(Written(r.name)), Level(r))
            \/ LET raw == Written(r.name)[Index(r)]
                   lc  == AsLevelConfig(raw)
               IN  /\ Level(r) # 0
                   /\ answer'.kind = "page" /\ answer'.index = Index(r)
                   /\ Index(r) = LevelIndex(Len(Written(r.name)), Level(r))
                   /\ Index(r) \in 1 .. Len(Written(r.name))
                   /\ raw \in RawLevels /\ Converts(raw)
                   /\ answer'.solver = Solver(RunValidator(lc).t)
                   /\ answer'.countdown = RunValidator(lc).c
                   /\ answer'.endpoint = Endpoint(lc)
<1> DEFINE levels == Written(r.name)
<1>1. /\ Frontend(r.name) = Converted(levels) /\ levels \in Seq(RawLevels)
      /\ \A i \in DOMAIN levels : Converts(levels[i])
  BY FrontendIsWritten DEF Handle, Disabled, Panics, Challenge
<1>2. Len(Frontend(r.name)) = Len(levels)
  BY <1>1, ConvertedSection
<1>3. Index(r) = LevelIndex(Len(levels), Level(r))
  BY <1>2 DEF Index
<1>4. CASE Disabled(r)
  BY <1>1, <1>4 DEF Disabled
<1>5. CASE Panics(r)
  BY <1>1, <1>2, <1>3, <1>5 DEF Panics
<1>6. CASE Challenge(r)
  <2>1. /\ Level(r) # 0 /\ Index(r) <= Len(levels) /\ file' = file
        /\ answer' = [kind |-> "page", request |-> r, index |-> Index(r),
             solver |-> Solver(RunValidator(Frontend(r.name)[Index(r)]).t),
             countdown |-> RunValidator(Frontend(r.name)[Index(r)]).c,
             endpoint |-> Endpoint(Frontend(r.name)[Index(r)])]
    BY <1>2, <1>6 DEF Challenge
  <2>2. Index(r) \in 1 .. Len(levels)
    <3>1. Len(levels) \in Nat /\ Level(r) \in 1 .. 255
      BY <1>1, <2>1, LevelRange
    <3>2. Index(r) \in 1 .. 256
      <4>1. LevelIndex(Len(levels), Level(r)) \in 1 .. 256
        BY <3>1, IndexFacts
      <4> QED
        BY <1>3, <4>1
    <3>3. Index(r) <= Len(levels)
      BY <2>1
    <3> QED
      BY <3>1, <3>2, <3>3, WithinRange
  <2>3. Frontend(r.name)[Index(r)] = AsLevelConfig(levels[Index(r)])
    BY <1>1, <2>2 DEF Converted
  <2>4. levels[Index(r)] \in RawLevels /\ Converts(levels[Index(r)])
    BY <1>1, <2>2
  <2> QED
    BY <1>1, <1>3, <2>1, <2>2, <2>3, <2>4
<1> QED
  BY <1>4, <1>5, <1>6 DEF Handle

(* The answer changes only when a request is answered, and the file never. *)
LEMMA AnswerChange ==
  ASSUME [Next]_vars
  PROVE  \/ UNCHANGED <<file, answer>>
         \/ \E r \in Requests : Handle(r)
BY DEF Next, vars, LoadFails, BadSecret, Fatal, NewInstance, Serve, LevelFatal, AsBerghain

(* For every file and every integer HAProxy may send: only level zero gets *)
(* no challenge, no request reads outside of a section that has levels,    *)
(* and up to 255 of them are served as asked for, or the highest one.      *)
(* (HandleSPOEChallenge, LevelConfig, Frontend)                            *)
THEOREM LevelsAreServed == Spec => []LevelIsServed
<1>1. Init => LevelIsServed
  BY DEF Init, LevelIsServed, Answered, NoAnswer
<1>2. IInv /\ LevelIsServed /\ [Next]_vars => LevelIsServed'
  <2> SUFFICES ASSUME IInv, LevelIsServed, [Next]_vars PROVE LevelIsServed'
    OBVIOUS
  <2>1. CASE UNCHANGED <<file, answer>>
    BY <2>1 DEF LevelIsServed, Answered, Written
  <2>2. ASSUME NEW r \in Requests, Handle(r)
        PROVE  LevelIsServed'
    <3> DEFINE n == Len(Written(r.name))
    <3>1. n \in Nat /\ Level(r) \in 0 .. 255
      BY <2>2, AnswerOf, LevelRange
    <3>2. /\ answer'.kind = "silence" <=> Level(r) = 0
          /\ answer'.kind = "panic" => n = 0
          /\ answer'.kind = "page" /\ n <= 255 => answer'.index = Lesser(n, Level(r))
      <4>1. CASE Level(r) = 0
        BY <2>2, <4>1, AnswerOf
      <4>2. CASE Level(r) # 0
        <5>1. Level(r) \in 1 .. 255
          BY <3>1, <4>2
        <5>2. /\ LevelIndex(n, Level(r)) \in 1 .. 256
              /\ n # 0 => LevelIndex(n, Level(r)) <= n
              /\ n # 0 /\ n <= 255 => LevelIndex(n, Level(r)) = Lesser(n, Level(r))
          BY <3>1, <5>1, IndexFacts
        <5>3. answer'.kind = "panic" => LevelIndex(n, Level(r)) > n
          BY <2>2, <4>2, AnswerOf
        <5>4. answer'.kind = "panic" => n = 0
          <6>1. n # 0 => ~(LevelIndex(n, Level(r)) > n)
            BY <3>1, <5>2, WithinRange
          <6> QED
            BY <5>3, <6>1
        <5>5. answer'.kind = "page" => /\ answer'.index = LevelIndex(n, Level(r))
                                       /\ LevelIndex(n, Level(r)) \in 1 .. n
          BY <2>2, <4>2, AnswerOf
        <5>6. answer'.kind = "page" => n # 0
          BY <5>5
        <5>7. answer'.kind # "silence"
          BY <2>2, <4>2, AnswerOf
        <5> QED
          BY <4>2, <5>2, <5>4, <5>5, <5>6, <5>7
      <4> QED
        BY <4>1, <4>2
    <3>3. answer'.request = r /\ \A m \in Requests : Written(m.name)' = Written(m.name)
      BY <2>2, AnswerOf DEF Written
    <3> QED
      BY <3>2, <3>3 DEF LevelIsServed, Answered, Level
  <2> QED
    BY <2>1, <2>2, AnswerChange
<1> QED
  BY <1>1, <1>2, ConversionInvariant, PTL DEF Spec

------------------------------------------------------------------------------
(* What the page and the provider are told                                 *)

LEMMA TypesOfNames ==
  ASSUME NEW raw \in RawLevels, Converts(raw)
  PROVE  LET lc == AsLevelConfig(raw)
         IN  /\ Solver(RunValidator(lc).t) = raw.type
             /\ Endpoint(lc) \in {"none", "configured", raw.type}
             /\ Endpoint(lc) = "none" <=> ~raw.sitekey
             /\ raw.countdown = Unset => RunValidator(lc).c = 3
             /\ raw.countdown # Unset /\ raw.countdown >= 0 =>
                  RunValidator(lc).c = raw.countdown
<1> DEFINE lc == AsLevelConfig(raw)
<1>1. /\ raw.type \in Names /\ lc.type = ValidationTypes[raw.type]
      /\ lc.verify_url = raw.verify_url
      /\ lc.countdown = IF raw.countdown = Unset THEN 3 ELSE raw.countdown
  BY DEF Converts, AsLevelConfig
<1>2. /\ RunValidator(lc).t = lc.type - 1
      /\ RunValidator(lc).c = IF lc.type \in CaptchaTypes THEN lc.countdown
                              ELSE OneByte(lc.countdown)
  <2>1. lc.type \in {1, 2, 4, 5, 6}
    BY <1>1 DEF Names, ValidationTypes
  <2> QED
    BY <2>1 DEF RunValidator, BodyNone, BodyPow, BodyCaptcha, CaptchaTypes
<1>3. /\ Solver(0) = "none" /\ Solver(1) = "pow" /\ Solver(3) = "turnstile"
      /\ Solver(4) = "hcaptcha" /\ Solver(5) = "recaptcha"
  BY DEF Solver
<1>4. Solver(RunValidator(lc).t) = raw.type
  BY <1>1, <1>2, <1>3 DEF Names, ValidationTypes
<1>5. CASE lc.type \in CaptchaTypes
  <2>1. raw.sitekey
    BY <1>1, <1>5 DEF Converts, HasKeys
  <2>2. \/ lc.type = 4 /\ raw.type = "turnstile"
        \/ lc.type = 5 /\ raw.type = "hcaptcha"
        \/ lc.type = 6 /\ raw.type = "recaptcha"
    BY <1>1, <1>5 DEF Names, ValidationTypes, CaptchaTypes
  <2>3. Endpoint(lc) = IF lc.verify_url THEN "configured" ELSE raw.type
    BY <2>2 DEF Endpoint
  <2> QED
    BY <1>1, <1>2, <1>4, <1>5, <2>1, <2>2, <2>3
<1>6. CASE lc.type \notin CaptchaTypes
  <2>1. ~raw.sitekey /\ ~lc.verify_url
    BY <1>1, <1>6 DEF Converts, HasNoKeys
  <2>2. lc.type \in {1, 2}
    BY <1>1, <1>6 DEF Names, ValidationTypes, CaptchaTypes
  <2>3. Endpoint(lc) = "none"
    BY <2>1, <2>2 DEF Endpoint
  <2>4. raw.countdown # Unset => raw.countdown \in Int /\ ~(raw.countdown > 9)
    BY DEF RawLevels, Converts, TooHigh
  <2>5. \A n \in 0 .. 9 : OneByte(n) = n
    BY DEF OneByte, Uint8
  <2>6. raw.countdown = Unset => RunValidator(lc).c = 3
    BY <1>1, <1>2, <1>6, <2>5
  <2>7. raw.countdown # Unset /\ raw.countdown >= 0 => RunValidator(lc).c = raw.countdown
    BY <1>1, <1>2, <1>6, <2>4, <2>5
  <2> QED
    BY <1>4, <2>1, <2>3, <2>6, <2>7
<1> QED
  BY <1>5, <1>6

(* The page gets the solver the operator configured and a token goes to    *)
(* the provider of its widget. (AsLevelConfig, getChallengeSolver)         *)
THEOREM ProvidersAreConfigured == Spec => []ProviderIsConfigured
<1>1. Init => ProviderIsConfigured
  BY DEF Init, ProviderIsConfigured, NoAnswer
<1>2. IInv /\ ProviderIsConfigured /\ [Next]_vars => ProviderIsConfigured'
  <2> SUFFICES ASSUME IInv, ProviderIsConfigured, [Next]_vars
               PROVE  ProviderIsConfigured'
    OBVIOUS
  <2>1. CASE UNCHANGED <<file, answer>>
    BY <2>1 DEF ProviderIsConfigured, Asked, Written
  <2>2. ASSUME NEW r \in Requests, Handle(r)
        PROVE  ProviderIsConfigured'
    BY <2>2, AnswerOf, TypesOfNames DEF ProviderIsConfigured, Asked, Written
  <2> QED
    BY <2>1, <2>2, AnswerChange
<1> QED
  BY <1>1, <1>2, ConversionInvariant, PTL DEF Spec

(* A countdown that is not negative reaches the page unchanged.            *)
(* (AsLevelConfig, validatorNone, onNew)                                   *)
THEOREM CountdownsAreConfigured == Spec => []CountdownIsConfigured
<1>1. Init => CountdownIsConfigured
  BY DEF Init, CountdownIsConfigured, NoAnswer
<1>2. IInv /\ CountdownIsConfigured /\ [Next]_vars => CountdownIsConfigured'
  <2> SUFFICES ASSUME IInv, CountdownIsConfigured, [Next]_vars
               PROVE  CountdownIsConfigured'
    OBVIOUS
  <2>1. CASE UNCHANGED <<file, answer>>
    BY <2>1 DEF CountdownIsConfigured, Asked, Written
  <2>2. ASSUME NEW r \in Requests, Handle(r)
        PROVE  CountdownIsConfigured'
    BY <2>2, AnswerOf, TypesOfNames DEF CountdownIsConfigured, Asked, Written
  <2> QED
    BY <2>1, <2>2, AnswerChange
<1> QED
  BY <1>1, <1>2, ConversionInvariant, PTL DEF Spec

(* No process serves with a section that is wrong. (AsBerghain)            *)
THEOREM OnlyCheckedIsServed == Spec => []ServesOnlyChecked
<1>1. IInv => ServesOnlyChecked
  <2> SUFFICES ASSUME IInv, stage = "serve", NEW name \in Sections,
                      NEW i \in DOMAIN Section(name)
               PROVE  LET raw == Section(name)[i]
                      IN  /\ raw.type \in Names
                          /\ raw.countdown = Unset \/ raw.countdown <= 9
                          /\ raw.type \in {"none", "pow"} =>
                               ~raw.sitekey /\ ~raw.secret
                          /\ raw.type \notin {"none", "pow"} =>
                               raw.sitekey /\ raw.secret
    BY DEF ServesOnlyChecked
  <2>1. Wrong(name) = {}
    BY DEF IInv, TypeOK, ConvertedSoFar, Done
  <2>2. Converts(Section(name)[i]) /\ Section(name)[i] \in RawLevels
    <3>1. Section(name) \in Seq(RawLevels)
      BY SectionType DEF IInv, ConvertedSoFar
    <3> QED
      BY <2>1, <3>1 DEF Wrong
  <2> QED
    BY <2>2 DEF Converts, RawLevels, TooHigh, HasKeys, HasNoKeys, Names,
       ValidationTypes, CaptchaTypes
<1> QED
  BY <1>1, ConversionInvariant, PTL
=============================================================================

--------------------------- MODULE Configuration ---------------------------
(***************************************************************************)
(* From the configuration file to the level that serves a request and what *)
(* its challenge page is told (cmd/spop/config.go, main.go): the checks    *)
(* that end the process, the frontends that are built, the level chosen    *)
(* for a request, the body of the challenge as the page reads it, and the  *)
(* provider a captcha token is verified with.                              *)
(***************************************************************************)
EXTENDS Levels, Sequences

CONSTANTS
  Files,     \* configuration files that can be decoded
  Requests,  \* what GETs ask for: a HAProxy frontend's name, and a level
  Unset      \* a countdown that the file does not mention

VARIABLES
  file,   \* the file, as decoded
  stage,  \* "load", "convert", "serve", or "fatal"
  todo,   \* sections not converted yet
  built,  \* built[name]: the levels of instance.c[name]
  answer  \* the last answer to a request

vars == <<file, stage, todo, built, answer>>

(* What decoding leaves of a level. The reserved key of the default        *)
(* section in todo is no name of a frontend.                               *)
RawLevels == [type : STRING, countdown : Int \cup {Unset}, sitekey : BOOLEAN,
              secret : BOOLEAN, verify_url : BOOLEAN, skip_hostname_check : BOOLEAN]

Decoded(f) ==
  /\ f.default \in Seq(RawLevels)
  /\ \A n \in DOMAIN f.frontend : f.frontend[n] \in Seq(RawLevels)
  /\ "default section" \notin DOMAIN f.frontend

ASSUME FilesAssumption == \A f \in Files : Decoded(f)

(* HAProxy sends the level as an integer.                                  *)
ASSUME RequestsAssumption == \A r \in Requests : r.level \in Int

(* A level of the file: the countdown, the name of a type, and whether     *)
(* sitekey, secret, verify_url and skip_hostname_check are set.            *)
Names == {"none", "pow", "turnstile", "hcaptcha", "recaptcha"}

(* validators.go counts from one and leaves a place out; the mutant does   *)
(* not.                                                                    *)
NoReserve == [none |-> 1, pow |-> 2, turnstile |-> 3, hcaptcha |-> 4, recaptcha |-> 5]
ValidationTypes ==
  [none |-> 1, pow |-> 2, turnstile |-> 4, hcaptcha |-> 5, recaptcha |-> 6]
CaptchaTypes == {4, 5, 6}

NoAnswer == [kind |-> "none"]
DefaultFrontend == "default"

------------------------------------------------------------------------------
(* Reading the file                                                        *)

(* Mutant: nine is not the last digit.                                     *)
HigherThanTen(raw) == raw.countdown # Unset /\ raw.countdown > 10
TooHigh(raw) == raw.countdown # Unset /\ raw.countdown > 9

(* Mutant: one of both keys is enough.                                     *)
OneKey(raw) == raw.sitekey \/ raw.secret
HasKeys(raw) == raw.sitekey /\ raw.secret
HasNoKeys(raw) ==
  ~raw.sitekey /\ ~raw.secret /\ ~raw.verify_url /\ ~raw.skip_hostname_check

(* No Fatal in AsLevelConfig.                                              *)
Converts(raw) ==
  /\ ~TooHigh(raw)
  /\ raw.type \in Names
  /\ IF ValidationTypes[raw.type] \in CaptchaTypes THEN HasKeys(raw)
     ELSE HasNoKeys(raw)

AsLevelConfig(raw) ==
  [countdown |-> IF raw.countdown = Unset THEN 3 ELSE raw.countdown,
   type |-> ValidationTypes[raw.type], verify_url |-> raw.verify_url]

Converted(levels) == [i \in DOMAIN levels |-> AsLevelConfig(levels[i])]

Init ==
  /\ file \in Files
  /\ stage = "load" /\ todo = {} /\ built = << >> /\ answer = NoAnswer

Fatal == stage' = "fatal" /\ UNCHANGED <<file, todo, built, answer>>

(* The path is missing, or the file cannot be opened or decoded.           *)
LoadFails == stage = "load" /\ Fatal

BadSecret == stage = "load" /\ file.secret # 32 /\ Fatal

Sections == {"default section"} \cup DOMAIN file.frontend

NewInstance ==
  /\ stage = "load" /\ file.secret = 32
  /\ stage' = "convert"
  /\ todo' = Sections
  /\ built' = [name \in {DefaultFrontend} \cup DOMAIN file.frontend |-> << >>]
  /\ UNCHANGED <<file, answer>>

(* The default section comes first, the frontends in any order after it;   *)
(* a frontend that is named default takes its place.                       *)
MayFollow(name) == "default section" \in todo => name = "default section"
Section(name)   == IF name = "default section" THEN file.default
                   ELSE file.frontend[name]
Wrong(name)     == {i \in DOMAIN Section(name) : ~Converts(Section(name)[i])}
Key(name)       == IF name = "default section" THEN DefaultFrontend ELSE name

LevelFatal(name) ==
  /\ stage = "convert" /\ name \in todo /\ MayFollow(name)
  /\ Wrong(name) # {}
  /\ Fatal

AsBerghain(name) ==
  /\ stage = "convert" /\ name \in todo /\ MayFollow(name)
  /\ Wrong(name) = {}
  /\ built' = [built EXCEPT ![Key(name)] = Converted(Section(name))]
  /\ todo' = todo \ {name}
  /\ UNCHANGED <<file, stage, answer>>

(* Mutant: the default section is enough to begin with.                    *)
ServesEarly ==
  /\ stage = "convert" /\ "default section" \notin todo
  /\ stage' = "serve"
  /\ UNCHANGED <<file, todo, built, answer>>

Serve ==
  /\ stage = "convert" /\ todo = {}
  /\ stage' = "serve"
  /\ UNCHANGED <<file, todo, built, answer>>

------------------------------------------------------------------------------
(* Requests                                                                *)

Frontend(name) == built[IF name \in DOMAIN built THEN name ELSE DefaultFrontend]

(* The index that LevelConfig computes may lie outside of Levels.          *)
Level(r) == Uint8(r.level)
Index(r) == LevelIndex(Len(Frontend(r.name)), Level(r))

(* One byte of the templates: as JSON a single character is a number if it *)
(* is a digit, and the end of the page's parsing if not.                   *)
Unparsable == -1
OneByte(countdown) ==
  LET byte == Uint8(48 + countdown)
  IN  IF byte \in 48 .. 57 THEN byte - 48 ELSE Unparsable

(* The type and the countdown in the body of a challenge: constants of the *)
(* templates with the countdown's byte, or JSON of both numbers.           *)
BodyNone(lc)    == [t |-> 0, c |-> OneByte(lc.countdown)]
BodyPow(lc)     == [t |-> 1, c |-> OneByte(lc.countdown)]
BodyCaptcha(lc) == [t |-> lc.type - 1, c |-> lc.countdown]

RunValidator(lc) ==
  CASE lc.type = 1 -> BodyNone(lc)
    [] lc.type = 2 -> BodyPow(lc)
    [] lc.type \in CaptchaTypes -> BodyCaptcha(lc)

(* getChallengeSolver of the page.                                         *)
Solver(t) ==
  CASE t = 0 -> "none" [] t = 1 -> "pow"
    [] t = 3 -> "turnstile" [] t = 4 -> "hcaptcha" [] t = 5 -> "recaptcha"
    [] OTHER -> "unknown"

(* The siteverify endpoint of a captcha level.                             *)
Endpoint(lc) ==
  IF lc.verify_url THEN "configured"
  ELSE CASE lc.type = 4 -> "turnstile" [] lc.type = 5 -> "hcaptcha"
         [] lc.type = 6 -> "recaptcha" [] OTHER -> "none"

(* Level zero: berghain is disabled, and no level is looked up.            *)
Disabled(r) ==
  /\ stage = "serve" /\ Level(r) = 0
  /\ answer' = [kind |-> "silence", request |-> r]
  /\ UNCHANGED <<file, stage, todo, built>>

Panics(r) ==
  /\ stage = "serve" /\ Level(r) # 0 /\ Index(r) > Len(Frontend(r.name))
  /\ answer' = [kind |-> "panic", request |-> r]
  /\ UNCHANGED <<file, stage, todo, built>>

Challenge(r) ==
  /\ stage = "serve" /\ Level(r) # 0 /\ Index(r) <= Len(Frontend(r.name))
  /\ LET lc   == Frontend(r.name)[Index(r)]
         body == RunValidator(lc)
     IN  answer' = [kind |-> "page", request |-> r, index |-> Index(r),
                    solver |-> Solver(body.t), countdown |-> body.c,
                    endpoint |-> Endpoint(lc)]
  /\ UNCHANGED <<file, stage, todo, built>>

Handle(r) == Disabled(r) \/ Panics(r) \/ Challenge(r)

Next ==
  \/ LoadFails \/ BadSecret \/ NewInstance \/ Serve
  \/ \E name \in todo : LevelFatal(name) \/ AsBerghain(name)
  \/ \E r \in Requests : Handle(r)

Spec == Init /\ [][Next]_vars

------------------------------------------------------------------------------
(* Every variable keeps its type.                                          *)
LevelConfigs == [countdown : Int, type : {1, 2} \cup CaptchaTypes,
                 verify_url : BOOLEAN]
TypeOK ==
  /\ stage \in {"load", "convert", "serve", "fatal"}
  /\ \A n \in DOMAIN built : built[n] \in Seq(LevelConfigs)
  /\ stage = "serve" => todo = {} /\ DefaultFrontend \in DOMAIN built

(* What the conversion has done so far: the sections that are no longer to *)
(* do are right, and a frontend that is done has the levels of its         *)
(* section, which nothing converted later takes away again.                *)
Done(name) == stage \in {"convert", "serve"} /\ name \in Sections \ todo
ConvertedSoFar ==
  /\ Decoded(file)
  /\ stage \in {"convert", "serve"} =>
       DOMAIN built = {DefaultFrontend} \cup DOMAIN file.frontend
  /\ todo \subseteq Sections
  /\ "default section" \in todo => DOMAIN file.frontend \subseteq todo
  /\ \A name \in Sections :
       Done(name) =>
         /\ Wrong(name) = {}
         /\ \/ name = "default section" /\ DefaultFrontend \in DOMAIN file.frontend
            \/ built[Key(name)] = Converted(Section(name))

IInv == TypeOK /\ ConvertedSoFar

(* The section an operator wrote for a name.                               *)
Written(name) ==
  IF name \in DOMAIN file.frontend THEN file.frontend[name]
  ELSE IF DefaultFrontend \in DOMAIN file.frontend
  THEN file.frontend[DefaultFrontend] ELSE file.default

Answered(r) == answer.kind # "none" /\ answer.request = r
Asked       == Written(answer.request.name)[answer.index]

(* A level of zero is the only one that gets no challenge, however large   *)
(* the integer it was converted from. A frontend with one to 255 levels    *)
(* serves all others at the level asked for, or its highest one; and as    *)
(* long as it has any level at all, whatever their number wraps to, no     *)
(* request reads outside of them. (HandleSPOEChallenge, LevelConfig)       *)
LevelIsServed ==
  \A r \in Requests :
    LET n == Len(Written(r.name))
    IN  Answered(r) =>
          /\ answer.kind = "silence" <=> Level(r) = 0
          /\ answer.kind = "panic" => n = 0
          /\ answer.kind = "page" /\ n <= 255 => answer.index = Lesser(n, Level(r))

(* The page gets the solver the operator configured, and a token of its    *)
(* widget goes to the same provider: the types pass through a Go constant  *)
(* with a place left out, a number counted from zero, and the page's own   *)
(* table. (AsLevelConfig, captchaChallengeBody, getChallengeSolver)        *)
ProviderIsConfigured ==
  answer.kind = "page" =>
    /\ answer.solver = Asked.type
    /\ answer.endpoint \in {"none", "configured", Asked.type}
    /\ answer.endpoint = "none" <=> ~Asked.sitekey

(* A countdown that is not negative reaches the page unchanged, three if   *)
(* the file has none. (AsLevelConfig, validatorNone, onNew)                *)
CountdownIsConfigured ==
  answer.kind = "page" /\ (Asked.countdown = Unset \/ Asked.countdown >= 0) =>
    answer.countdown = IF Asked.countdown = Unset THEN 3 ELSE Asked.countdown

(* Whoever serves has checked every section, those that another one has    *)
(* replaced included: a captcha level without both keys, keys on another   *)
(* type, an unknown type, or a countdown above nine serves nobody.         *)
(* (AsBerghain, runBerghain)                                               *)
ServesOnlyChecked ==
  stage = "serve" =>
    \A name \in Sections :
      \A i \in DOMAIN Section(name) :
        LET raw == Section(name)[i]
        IN  /\ raw.type \in Names
            /\ raw.countdown = Unset \/ raw.countdown <= 9
            /\ raw.type \in {"none", "pow"} => ~raw.sitekey /\ ~raw.secret
            /\ raw.type \notin {"none", "pow"} => raw.sitekey /\ raw.secret

(* validator_none.go: adding the countdown to '0' gives the single correct *)
(* digit. docs/index.html: configurable from 0 to 9 seconds.               *)
CountdownIsDigit == answer.kind = "page" => answer.countdown \in 0 .. 9
=============================================================================

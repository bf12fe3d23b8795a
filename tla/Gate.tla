-------------------------------- MODULE Gate --------------------------------
(***************************************************************************)
(* One visitor in front of HAProxy: the rules of haproxy.cfg around both   *)
(* messages to the agent, and the challenge page that fetches, solves and  *)
(* posts a challenge, counts down and reloads (web/src).                   *)
(*                                                                         *)
(* The level HAProxy asks for grows with the rate of the visitor's own     *)
(* requests, those of the challenge page included, and is computed anew    *)
(* for every request. The tabs of a browser share cookie and request rate. *)
(***************************************************************************)
EXTENDS Levels, Sequences, FiniteSets

CONSTANTS
  Tabs,        \* tabs of the browser
  Thresholds,  \* level i is asked for above a request rate of Thresholds[i]
  Types,       \* Types[i]: how the agent's i-th level is earned
  Countdowns,  \* Countdowns[i]: what its challenge page counts down from
  MaxRate,     \* bound: higher request rates are not told apart
  MaxChanges   \* bound: how often the surroundings interfere

ASSUME GateAssumption ==
  /\ Thresholds \in Seq(Nat) /\ Len(Thresholds) \in 1 .. 255
  /\ Len(Types) \in 1 .. 255
  /\ Types \in Seq({"none", "pow", "captcha"})
  /\ Countdowns \in [1 .. Len(Types) -> 0 .. 9]
  /\ MaxRate \in Nat /\ \A i \in DOMAIN Thresholds : Thresholds[i] < MaxRate
  /\ MaxChanges \in Nat

VARIABLES
  rate,     \* requests of the visitor in HAProxy's window
  jar,      \* level of the cookie the browser keeps, NoCookie without one
  tab,      \* tab[t]: what a tab shows and has under way
  lacks,    \* what the browser lacks to run the page
  solved,   \* challenges that were solved (history)
  granted,  \* levels of the cookies that reached the browser (history)
  changes   \* how often the surroundings have interfered

vars == <<rate, jar, tab, lacks, solved, granted, changes>>

NoCookie == 0
Asked    == 0 .. Len(Thresholds)
Stages   == {"blank", "loading", "app", "error", "page", "fetching", "solving",
             "posting", "counting", "failed"}

------------------------------------------------------------------------------
(* HAProxy and the agent                                                   *)

LevelOf(r) == Cardinality({i \in DOMAIN Thresholds : r > Thresholds[i]})
Busier     == Lesser(rate + 1, MaxRate)
Type(level)      == Types[LevelIndex(Len(Types), level)]
Countdown(level) == Countdowns[LevelIndex(Len(Types), level)]

(* The rules in their order: an error is reported, then whatever is not    *)
(* known to be valid gets the challenge page. valid is the set of values   *)
(* the variable has: none if the agent has not set it.                     *)
Admits(valid) == valid = {TRUE}
Rules(level, error, valid) ==
  IF level # 0 /\ error THEN "error"
  ELSE IF level # 0 /\ ~Admits(valid) THEN "page"
  ELSE "app"

(* Mutant: the level of the cookie is not looked at.                       *)
AnyCookie(cookie, level) == cookie # NoCookie
IsValidCookie(cookie, level) == cookie # NoCookie /\ level <= cookie

(* Whether an answer to a challenge of this type, issued at level bound,   *)
(* is accepted at this level: a PoW challenge is bound to its level, a     *)
(* captcha token is not, a none level has nothing to answer.               *)
Unbound(type, bound, level) == level # 0 /\ type # "none" /\ type = Type(level)
IsValid(type, bound, level) ==
  /\ level # 0 /\ type # "none" /\ type = Type(level)
  /\ type = "pow" => bound = level

------------------------------------------------------------------------------
(* The page                                                                *)

View(at, level, cookie, type, bound, left, timer) ==
  [at |-> at, level |-> level, cookie |-> cookie, type |-> type, bound |-> bound,
   left |-> left, timer |-> timer]

Shows(at, level) == View(at, level, NoCookie, "none", 0, 0, FALSE)

Init ==
  /\ rate = 0 /\ jar = NoCookie
  /\ tab = [t \in Tabs |-> Shows("blank", 0)]
  /\ lacks \in {"nothing", "cookies", "features"}
  /\ solved = {} /\ granted = {} /\ changes = 0

At(t, at)    == tab[t].at = at
Becomes(t, x) == tab' = [tab EXCEPT ![t] = x]
Interferes   == changes < MaxChanges /\ changes' = changes + 1

(* Every request is counted before its level is computed; it carries the   *)
(* cookie of the moment.                                                   *)
Sent(x, at, cookie, timer) ==
  View(at, LevelOf(Busier), cookie, x.type, x.bound, x.left, timer)

Sends(t, x, at, cookie, timer) ==
  rate' = Busier /\ Becomes(t, Sent(x, at, cookie, timer))

(* The visitor opens the application, or tries again.                      *)
Visit(t) ==
  /\ At(t, "blank") \/ At(t, "app")
  /\ Sends(t, Shows("blank", 0), "loading", jar, FALSE)
  /\ UNCHANGED <<jar, lacks, solved, granted, changes>>

Retry(t) ==
  /\ At(t, "error") \/ At(t, "failed")
  /\ Sends(t, Shows("blank", 0), "loading", jar, FALSE)
  /\ UNCHANGED <<jar, lacks, solved, granted, changes>>

(* The answer to a page load. The agent decides on the cookie that came    *)
(* with the request.                                                       *)
Loaded(t) ==
  /\ At(t, "loading")
  /\ LET valid == IF tab[t].level = 0 THEN {}
                  ELSE {IsValidCookie(tab[t].cookie, tab[t].level)}
     IN  Becomes(t, Shows(Rules(tab[t].level, FALSE, valid), tab[t].level))
  /\ UNCHANGED <<rate, jar, lacks, solved, granted, changes>>

(* The agent does not answer in time, or returns without a verdict.        *)
LoadedWithoutVerdict(t, error) ==
  /\ At(t, "loading") /\ tab[t].level # 0
  /\ Interferes
  /\ Becomes(t, Shows(Rules(tab[t].level, error, {}), tab[t].level))
  /\ UNCHANGED <<rate, jar, lacks, solved, granted>>

(* DOMContentLoaded: with cookies disabled there is only a warning.        *)
Begin(t) ==
  /\ At(t, "page")
  /\ IF lacks = "cookies"
     THEN Becomes(t, Shows("failed", 0)) /\ UNCHANGED rate
     ELSE Sends(t, tab[t], "fetching", NoCookie, FALSE)
  /\ UNCHANGED <<jar, lacks, solved, granted, changes>>

(* What a browser may lack is needed for PoW alone (capabilities.js). The  *)
(* cookie of a none level comes with its challenge.                        *)
Misses(type) == lacks = "features" /\ type = "pow"

GotChallenge(t) ==
  /\ At(t, "fetching") /\ tab[t].level # 0
  /\ LET level == tab[t].level
         x     == View("solving", level, NoCookie, Type(level), level,
                       Countdown(level), FALSE)
     IN  /\ Becomes(t, IF Misses(x.type) THEN Shows("failed", 0) ELSE x)
         /\ IF Type(level) = "none"
            THEN /\ jar' = level /\ granted' = granted \cup {level}
                 /\ solved' = solved \cup {[type |-> "none", level |-> level]}
            ELSE UNCHANGED <<jar, granted, solved>>
  /\ UNCHANGED <<rate, lacks, changes>>

(* What cannot be parsed fails: the empty answer without a level, an error *)
(* page, nothing at all. A captcha widget may be blocked or fail.          *)
EmptyChallenge(t) ==
  /\ At(t, "fetching") /\ tab[t].level = 0
  /\ Becomes(t, Shows("failed", 0))
  /\ UNCHANGED <<rate, jar, lacks, solved, granted, changes>>

NoChallenge(t) ==
  /\ At(t, "fetching") \/ (At(t, "solving") /\ tab[t].type = "captcha")
  /\ Interferes
  /\ Becomes(t, Shows("failed", 0))
  /\ UNCHANGED <<rate, jar, lacks, solved, granted>>

CountsDown(x, left, timer) ==
  View("counting", x.level, NoCookie, x.type, x.bound, left, timer)

(* Mutants: without a countdown there is no reload; without a cookie the   *)
(* page fails.                                                             *)
NoReload(t, x, cookie) ==
  Becomes(t, CountsDown(x, x.left, x.left # 0)) /\ UNCHANGED rate
OnlyIfGranted(t, x, cookie) ==
  /\ Becomes(t, IF cookie = NoCookie THEN Shows("failed", 0)
                ELSE CountsDown(x, x.left, TRUE))
  /\ UNCHANGED rate

(* stop(countdown): with a countdown of zero the page reloads at once, and *)
(* once more if the first tick of the interval comes before the new page.  *)
Stop(t, x, cookie) ==
  IF x.left = 0 THEN Sends(t, x, "loading", cookie, TRUE)
  ELSE Becomes(t, CountsDown(x, x.left, TRUE)) /\ UNCHANGED rate

Solve(t) ==
  /\ At(t, "solving")
  /\ IF tab[t].type = "none"
     THEN Stop(t, tab[t], jar) /\ UNCHANGED solved
     ELSE /\ Sends(t, tab[t], "posting", NoCookie, FALSE)
          /\ solved' = solved \cup {[type |-> tab[t].type, level |-> tab[t].bound]}
  /\ UNCHANGED <<jar, lacks, granted, changes>>

(* The answer to the POST sets the cookie or not; that of a refused answer *)
(* is an empty 200.                                                        *)
Answered(t) ==
  /\ At(t, "posting")
  /\ LET x       == tab[t]
         cookies == IF IsValid(x.type, x.bound, x.level) THEN {x.level} ELSE {}
     IN  /\ granted' = granted \cup cookies
         /\ jar' = IF cookies = {} THEN jar ELSE x.level
         /\ Stop(t, x, jar')
  /\ UNCHANGED <<lacks, solved, changes>>

(* The challenge has expired, the provider refuses the token.              *)
Refused(t) ==
  /\ At(t, "posting") /\ Interferes
  /\ Stop(t, tab[t], jar)
  /\ UNCHANGED <<jar, lacks, solved, granted>>

(* The POST is lost, or answered with 501. challengePOW catches what it    *)
(* has thrown and logs it.                                                 *)
PostFails(t) ==
  /\ At(t, "posting") /\ Interferes
  /\ IF tab[t].type = "pow" THEN Stop(t, tab[t], jar)
     ELSE Becomes(t, Shows("failed", 0)) /\ UNCHANGED rate
  /\ UNCHANGED <<jar, lacks, solved, granted>>

(* The interval of stop.                                                   *)
Interval(t) ==
  /\ tab[t].timer
  /\ IF tab[t].left = 0
     THEN Sends(t, tab[t], "loading", jar, FALSE)
     ELSE Becomes(t, CountsDown(tab[t], tab[t].left - 1, TRUE)) /\ UNCHANGED rate
  /\ UNCHANGED <<jar, lacks, solved, granted, changes>>

------------------------------------------------------------------------------
(* The surroundings                                                        *)

(* Old requests leave HAProxy's window.                                    *)
Quiet ==
  /\ Interferes /\ \E r \in 0 .. rate - 1 : rate' = r
  /\ UNCHANGED <<jar, tab, lacks, solved, granted>>

CookieExpires ==
  /\ Interferes /\ jar # NoCookie /\ jar' = NoCookie
  /\ UNCHANGED <<rate, tab, lacks, solved, granted>>

(* The visitor follows the page's advice.                                  *)
FixBrowser ==
  /\ lacks # "nothing" /\ lacks' = "nothing"
  /\ UNCHANGED <<rate, jar, tab, solved, granted, changes>>

(* What the page, HAProxy and the agent do by themselves.                  *)
Works(t) ==
  \/ Loaded(t) \/ Begin(t) \/ GotChallenge(t) \/ EmptyChallenge(t)
  \/ Solve(t) \/ Answered(t)

Fails(t) ==
  \/ \E error \in BOOLEAN : LoadedWithoutVerdict(t, error)
  \/ NoChallenge(t) \/ Refused(t) \/ PostFails(t)

Next ==
  \/ \E t \in Tabs : Visit(t) \/ Retry(t) \/ Works(t) \/ Interval(t) \/ Fails(t)
  \/ Quiet \/ CookieExpires \/ FixBrowser

Spec == Init /\ [][Next]_vars

(* Browser timers and requests go on, HAProxy answers every request within *)
(* its timeouts, solvers come to an end.                                   *)
PageSpec == Spec /\ \A t \in Tabs : WF_vars(Works(t)) /\ WF_vars(Interval(t))

(* A visitor who wants in reloads a failed page and mends the browser.     *)
FairSpec == PageSpec /\ WF_vars(FixBrowser) /\ \A t \in Tabs : WF_vars(Retry(t))

------------------------------------------------------------------------------
(* Types                                                                   *)

AnsweredBy == {"none", "pow", "captcha"}
Challenges == [type : AnsweredBy, level : Asked]

TabStates == [at : Stages, level : Asked, cookie : Asked, type : AnsweredBy,
              bound : Asked, left : 0 .. 9, timer : BOOLEAN]

(* Every variable keeps its type.                                          *)
TypeOK ==
  /\ rate \in Nat
  /\ jar \in Asked
  /\ tab \in [Tabs -> TabStates]
  /\ lacks \in {"nothing", "cookies", "features"}
  /\ solved \subseteq Challenges
  /\ granted \subseteq Asked
  /\ changes \in 0 .. MaxChanges

------------------------------------------------------------------------------
(* Properties                                                              *)

(* The work of a level: its PoW challenge, or a captcha from any level.    *)
WorkedFor(level) ==
  \E s \in solved : s.type = Type(level) /\ (s.type # "captcha" => s.level = level)

(* A page of the application that HAProxy wanted a level for was paid for  *)
(* with the work of that level or of one above, however rate and level     *)
(* moved between the challenge, its answer and the reload, and whichever   *)
(* requests failed. (haproxy.cfg, http-request return; the validate        *)
(* message)                                                                *)
AppIsEarned ==
  \A t \in Tabs : At(t, "app") /\ tab[t].level # 0 =>
    \E level \in Asked : tab[t].level <= level /\ WorkedFor(level)

(* Whoever gets the challenge page gets to the application in the end:     *)
(* failures that come to an end, expired cookies, levels that rise with    *)
(* the page's own requests, a second tab that replaces the cookie, only    *)
(* cost more rounds. (doChallenge, stop, haproxy.cfg)                      *)
EventuallyServed == \A t \in Tabs : At(t, "page") ~> At(t, "app")

(* If nothing fails and the rate does not fall, the page gets there        *)
(* without any help of the visitor: it reloads itself after a cookie that  *)
(* is not enough and after an answer given at another level than it was    *)
(* asked for. (stop's reload, challengePOW)                                *)
ServedUnaided ==
  \A t \in Tabs : At(t, "page") /\ lacks = "nothing" ~> At(t, "app")

(* README.md's hooks: the success block reports a challenge that was       *)
(* passed, so the visitor has been given a cookie by then.                 *)
PassedMeansGranted == \A t \in Tabs : tab[t].timer => granted # {}

------------------------------------------------------------------------------
(* What makes AppIsEarned inductive                                        *)

CookiesAreGranted ==
  /\ jar \in granted \cup {NoCookie}
  /\ \A t \in Tabs : tab[t].cookie \in granted \cup {NoCookie}

GrantsAreEarned == \A level \in granted : WorkedFor(level)

PostsAreSolved ==
  \A t \in Tabs : At(t, "posting") =>
    [type |-> tab[t].type, level |-> tab[t].bound] \in solved

AppIsGranted ==
  \A t \in Tabs : At(t, "app") /\ tab[t].level # 0 =>
    \E level \in granted : tab[t].level <= level

IInv ==
  /\ TypeOK
  /\ CookiesAreGranted /\ GrantsAreEarned /\ PostsAreSolved /\ AppIsGranted
=============================================================================

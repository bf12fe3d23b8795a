----------------------------- MODULE GateProofs -----------------------------
(***************************************************************************)
(* For any thresholds, levels and number of tabs: the application is shown *)
(* at a level only after the work of that level or of one above.           *)
(***************************************************************************)
EXTENDS Gate, FiniteSetTheorems, TLAPS

LEMMA Lengths ==
  /\ Len(Thresholds) \in 1 .. 255 /\ Len(Types) \in 1 .. 255
  /\ DOMAIN Thresholds = 1 .. Len(Thresholds)
<1>1. Len(Thresholds) \in 1 .. 255 BY GateAssumption
<1>2. Len(Types) \in 1 .. 255 BY GateAssumption
<1>3. DOMAIN Thresholds = 1 .. Len(Thresholds) BY GateAssumption
<1>4. QED BY <1>1, <1>2, <1>3

LEMMA ZeroIsAsked == 0 \in Asked
  BY Lengths DEF Asked

(* HAProxy asks for one of its levels.                                     *)
LEMMA LevelOfType == ASSUME NEW r \in Nat PROVE LevelOf(r) \in Asked
<1> DEFINE over == {i \in DOMAIN Thresholds : r > Thresholds[i]}
<1>1. DOMAIN Thresholds = 1 .. Len(Thresholds) /\ Len(Thresholds) \in 1 .. 255
  BY Lengths
<1>2. IsFiniteSet(1 .. Len(Thresholds)) /\ Cardinality(1 .. Len(Thresholds)) = Len(Thresholds)
  <2>1. 1 \in Int /\ Len(Thresholds) \in Int /\ ~(1 > Len(Thresholds))
    BY <1>1
  <2>2. Len(Thresholds) - 1 + 1 = Len(Thresholds) BY <2>1
  <2>3. /\ IsFiniteSet(1 .. Len(Thresholds))
        /\ Cardinality(1 .. Len(Thresholds)) =
             IF 1 > Len(Thresholds) THEN 0 ELSE Len(Thresholds) - 1 + 1
    BY <2>1, FS_Interval, Zenon
  <2>4. QED BY <2>1, <2>2, <2>3
<1>3. over \subseteq 1 .. Len(Thresholds) BY <1>1
<1>4. Cardinality(over) \in Nat /\ Cardinality(over) <= Len(Thresholds)
  <2>1. IsFiniteSet(over) /\ Cardinality(over) <= Cardinality(1 .. Len(Thresholds))
    BY <1>2, <1>3, FS_Subset
  <2>2. QED BY <1>2, <2>1, FS_CardinalityType
<1>5. Cardinality(over) \in 0 .. Len(Thresholds) BY <1>1, <1>4
<1>6. QED BY <1>5 DEF LevelOf, Asked

LEMMA BusierType == ASSUME rate \in Nat PROVE Busier \in Nat /\ LevelOf(Busier) \in Asked
<1>1. Busier \in Nat BY GateAssumption DEF Busier, Lesser
<1>2. QED BY <1>1, LevelOfType

(* The agent has a level for every level it is asked for.                  *)
LEMMA TypeOfLevel ==
  ASSUME NEW level \in Asked
  PROVE  Type(level) \in AnsweredBy /\ Countdown(level) \in 0 .. 9
<1> DEFINE n == Len(Types)
<1>1. n \in 1 .. 255 /\ level \in 0 .. 255
  <2>1. Len(Thresholds) \in 1 .. 255 /\ n \in 1 .. 255 BY Lengths
  <2>2. level \in 0 .. Len(Thresholds) BY DEF Asked
  <2>3. \A m \in 1 .. 255 : \A l \in 0 .. m : l \in 0 .. 255 OBVIOUS
  <2>4. QED BY <2>1, <2>2, <2>3
<1>2. LevelIndex(n, level) \in 1 .. n
  <2> HIDE DEF n
  <2>1. QED BY <1>1 DEF LevelIndex, Uint8, Lesser, Greater
<1>3. QED BY <1>1, <1>2, GateAssumption DEF Type, Countdown, AnsweredBy

------------------------------------------------------------------------------
(* What a tab must be for the invariant                                    *)

TabOK(x, solvedNow, grantedNow) ==
  /\ x \in TabStates
  /\ x.cookie \in grantedNow \cup {NoCookie}
  /\ x.at = "posting" => [type |-> x.type, level |-> x.bound] \in solvedNow
  /\ x.at = "app" /\ x.level # 0 => \E level \in grantedNow : x.level <= level

LEMMA TabsAreOK ==
  ASSUME IInv, NEW t \in Tabs
  PROVE  /\ TabOK(tab[t], solved, granted)
         /\ TypeOK /\ tab[t] \in TabStates /\ jar \in granted \cup {NoCookie}
  BY DEF IInv, TypeOK, CookiesAreGranted, PostsAreSolved, AppIsGranted, TabOK, At

(* A step of one tab that solves and grants what it may.                   *)
LEMMA TabSteps ==
  ASSUME IInv, NEW t \in Tabs, NEW x, Becomes(t, x),
         TabOK(x, solved', granted'),
         rate' \in Nat, jar' \in granted' \cup {NoCookie},
         lacks' \in {"nothing", "cookies", "features"}, changes' \in 0 .. MaxChanges,
         solved \subseteq solved', solved' \subseteq Challenges,
         granted \subseteq granted', granted' \subseteq Asked,
         GrantsAreEarned'
  PROVE  IInv'
<1>1. /\ tab' \in [Tabs -> TabStates] /\ tab'[t] = x
      /\ \A u \in Tabs \ {t} : tab'[u] = tab[u]
  BY DEF IInv, TypeOK, Becomes, TabOK
<1>2. \A u \in Tabs : TabOK(tab'[u], solved', granted')
  <2>1. ASSUME NEW u \in Tabs \ {t} PROVE TabOK(tab[u], solved', granted')
    BY TabsAreOK DEF TabOK
  <2>2. QED BY <1>1, <2>1
<1>3. jar' \in Asked
  BY GateAssumption DEF Asked, NoCookie
<1>4. TypeOK' BY <1>1, <1>3 DEF TypeOK
<1>5. CookiesAreGranted' BY <1>2 DEF CookiesAreGranted, TabOK
<1>6. PostsAreSolved' BY <1>2 DEF PostsAreSolved, TabOK, At
<1>7. AppIsGranted' BY <1>2 DEF AppIsGranted, TabOK, At
<1>8. QED BY <1>4, <1>5, <1>6, <1>7 DEF IInv

(* A step of one tab that solves and grants nothing.                       *)
LEMMA TabMoves ==
  ASSUME IInv, NEW t \in Tabs, NEW x, Becomes(t, x), TabOK(x, solved, granted),
         rate' \in Nat, changes' \in 0 .. MaxChanges,
         UNCHANGED <<jar, lacks, solved, granted>>
  PROVE  IInv'
<1>1. GrantsAreEarned' BY DEF IInv, GrantsAreEarned, WorkedFor
<1>2. QED BY <1>1, TabSteps, TabsAreOK DEF TypeOK

LEMMA ShownIsOK ==
  ASSUME NEW at \in Stages \ {"posting", "app"}, NEW level \in Asked,
         NEW solvedNow, NEW grantedNow
  PROVE  TabOK(Shows(at, level), solvedNow, grantedNow)
  BY GateAssumption DEF TabOK, Shows, View, TabStates, Asked, NoCookie, AnsweredBy

LEMMA SentIsOK ==
  ASSUME IInv, NEW x \in TabStates, NEW at \in Stages \ {"app"},
         NEW solvedNow, NEW grantedNow \in SUBSET Asked,
         NEW cookie \in grantedNow \cup {NoCookie}, NEW timer \in BOOLEAN,
         at = "posting" => [type |-> x.type, level |-> x.bound] \in solvedNow
  PROVE  /\ TabOK(Sent(x, at, cookie, timer), solvedNow, grantedNow)
         /\ Busier \in Nat
<1>1. Busier \in Nat /\ LevelOf(Busier) \in Asked /\ cookie \in Asked
  BY BusierType, GateAssumption DEF IInv, TypeOK, Asked, NoCookie
<1>2. QED BY <1>1 DEF TabOK, Sent, View, TabStates

LEMMA CountingIsOK ==
  ASSUME NEW x \in TabStates, NEW left \in 0 .. 9, NEW timer \in BOOLEAN,
         NEW solvedNow, NEW grantedNow
  PROVE  TabOK(CountsDown(x, left, timer), solvedNow, grantedNow)
  BY GateAssumption DEF TabOK, CountsDown, View, TabStates, Asked, NoCookie, Stages

(* stop, with what the answer has granted.                                 *)
LEMMA StopIsOK ==
  ASSUME IInv, NEW t \in Tabs, NEW solvedNow, NEW grantedNow \in SUBSET Asked,
         NEW cookie \in grantedNow \cup {NoCookie}, Stop(t, tab[t], cookie)
  PROVE  /\ rate' \in Nat
         /\ \E x \in TabStates : Becomes(t, x) /\ TabOK(x, solvedNow, grantedNow)
<1> DEFINE x == tab[t]
<1>1. x \in TabStates /\ rate \in Nat BY TabsAreOK DEF TypeOK
<1>2. CASE x.left = 0
  <2>1. "loading" \in Stages \ {"app"} BY DEF Stages
  <2>2. TabOK(Sent(x, "loading", cookie, TRUE), solvedNow, grantedNow) /\ Busier \in Nat
    BY <1>1, <2>1, SentIsOK
  <2>3. QED BY <1>2, <2>2 DEF Stop, Sends, TabOK
<1>3. CASE x.left # 0
  <2>1. x.left \in 0 .. 9 BY <1>1 DEF TabStates
  <2>2. TabOK(CountsDown(x, x.left, TRUE), solvedNow, grantedNow)
    BY <1>1, <2>1, CountingIsOK
  <2>3. QED BY <1>1, <1>3, <2>2 DEF Stop, TabOK
<1>4. QED BY <1>2, <1>3

------------------------------------------------------------------------------
(* One lemma per step                                                      *)

LEMMA Requests ==
  ASSUME IInv, NEW t \in Tabs, Visit(t) \/ Retry(t)
  PROVE  IInv'
<1>1. Shows("blank", 0) \in TabStates /\ "loading" \in Stages \ {"app"}
  <2>1. 0 \in Asked /\ "blank" \in Stages \ {"posting", "app"}
    BY GateAssumption DEF Asked, Stages
  <2>2. QED BY <2>1, ShownIsOK DEF TabOK, Stages
<1>2. jar \in granted \cup {NoCookie} /\ granted \subseteq Asked
  BY TabsAreOK DEF TypeOK
<1>3. /\ TabOK(Sent(Shows("blank", 0), "loading", jar, FALSE), solved, granted)
      /\ Busier \in Nat
  BY <1>1, <1>2, SentIsOK
<1>4. changes' \in 0 .. MaxChanges BY DEF Visit, Retry, IInv, TypeOK
<1>5. QED BY <1>3, <1>4, TabMoves DEF Visit, Retry, Sends

LEMMA Loads ==
  ASSUME IInv, NEW t \in Tabs, Loaded(t)
  PROVE  IInv'
<1> DEFINE x == tab[t]
           valid == IF x.level = 0 THEN {} ELSE {IsValidCookie(x.cookie, x.level)}
           y == Shows(Rules(x.level, FALSE, valid), x.level)
<1>1. x \in TabStates /\ TabOK(x, solved, granted) /\ x.level \in Asked
  BY TabsAreOK DEF TabStates
<1>2. TabOK(y, solved, granted)
  <2>1. CASE Rules(x.level, FALSE, valid) = "app"
    <3>1. x.level = 0 \/ IsValidCookie(x.cookie, x.level)
      BY <2>1 DEF Rules, Admits
    <3>2. x.level # 0 => \E level \in granted : x.level <= level
      BY <1>1, <3>1 DEF IsValidCookie, TabOK, NoCookie
    <3>3. y = View("app", x.level, NoCookie, "none", 0, 0, FALSE)
      BY <2>1 DEF Shows
    <3> HIDE DEF y
    <3>4. y \in TabStates /\ y.cookie = NoCookie
      BY <1>1, <3>3, ZeroIsAsked DEF View, TabStates, Stages, NoCookie, AnsweredBy
    <3>5. y.at = "app" /\ y.level = x.level BY <3>3 DEF View
    <3>6. QED BY <3>2, <3>4, <3>5 DEF TabOK
  <2>2. CASE Rules(x.level, FALSE, valid) # "app"
    <3>1. Rules(x.level, FALSE, valid) \in Stages \ {"posting", "app"}
      BY <2>2 DEF Rules, Stages
    <3>2. QED BY <1>1, <3>1, ShownIsOK
  <2>3. QED BY <2>1, <2>2
<1>3. QED BY <1>2, TabMoves DEF Loaded, IInv, TypeOK

LEMMA LoadsWithoutVerdict ==
  ASSUME IInv, NEW t \in Tabs, NEW error \in BOOLEAN, LoadedWithoutVerdict(t, error)
  PROVE  IInv'
<1> DEFINE at == Rules(tab[t].level, error, {})
<1>1. at \in Stages \ {"posting", "app"} /\ tab[t].level \in Asked
  BY TabsAreOK DEF LoadedWithoutVerdict, Rules, Admits, Stages, TabStates
<1>2. TabOK(Shows(at, tab[t].level), solved, granted) BY <1>1, ShownIsOK
<1>3. QED
  BY <1>2, TabMoves, GateAssumption DEF LoadedWithoutVerdict, Interferes, IInv, TypeOK

LEMMA FailedIsOK ==
  ASSUME NEW solvedNow, NEW grantedNow
  PROVE  TabOK(Shows("failed", 0), solvedNow, grantedNow)
<1>1. "failed" \in Stages \ {"posting", "app"} /\ 0 \in Asked
  BY GateAssumption DEF Stages, Asked
<1>2. QED BY <1>1, ShownIsOK

LEMMA Begins ==
  ASSUME IInv, NEW t \in Tabs, Begin(t)
  PROVE  IInv'
<1>1. tab[t] \in TabStates /\ granted \in SUBSET Asked /\ changes' \in 0 .. MaxChanges
  BY TabsAreOK DEF TypeOK, Begin
<1>2. CASE lacks = "cookies"
  BY <1>1, <1>2, FailedIsOK, TabMoves DEF Begin, IInv, TypeOK
<1>3. CASE lacks # "cookies"
  <2>1. "fetching" \in Stages \ {"app"} BY DEF Stages
  <2>2. /\ TabOK(Sent(tab[t], "fetching", NoCookie, FALSE), solved, granted)
        /\ Busier \in Nat
    BY <1>1, <2>1, SentIsOK
  <2>3. QED BY <1>1, <1>3, <2>2, TabMoves DEF Begin, Sends
<1>4. QED BY <1>2, <1>3

LEMMA EmptyAnswers ==
  ASSUME IInv, NEW t \in Tabs, EmptyChallenge(t) \/ NoChallenge(t)
  PROVE  IInv'
<1>1. changes' \in 0 .. MaxChanges /\ rate' \in Nat
  BY GateAssumption DEF EmptyChallenge, NoChallenge, Interferes, IInv, TypeOK
<1>2. QED BY <1>1, FailedIsOK, TabMoves DEF EmptyChallenge, NoChallenge

LEMMA GetsChallenge ==
  ASSUME IInv, NEW t \in Tabs, GotChallenge(t)
  PROVE  IInv'
<1> DEFINE level == tab[t].level
           x == View("solving", level, NoCookie, Type(level), level,
                     Countdown(level), FALSE)
           y == IF Misses(x.type) THEN Shows("failed", 0) ELSE x
           done == [type |-> "none", level |-> level]
<1>1. /\ level \in Asked /\ Type(level) \in AnsweredBy /\ Countdown(level) \in 0 .. 9
  <2>1. level \in Asked BY TabsAreOK DEF TabStates
  <2>2. QED BY <2>1, TypeOfLevel
<1>2. /\ Becomes(t, y) /\ UNCHANGED <<rate, lacks, changes>>
      /\ IF Type(level) = "none"
         THEN jar' = level /\ granted' = granted \cup {level} /\ solved' = solved \cup {done}
         ELSE UNCHANGED <<jar, granted, solved>>
  BY DEF GotChallenge
<1>3. TabOK(y, solved', granted')
  <2>1. x \in TabStates /\ x.at = "solving" /\ x.cookie = NoCookie
    BY <1>1, ZeroIsAsked DEF View, TabStates, Stages, NoCookie
  <2>2. TabOK(x, solved', granted')
    <3> HIDE DEF x
    <3>1. QED BY <2>1 DEF TabOK
  <2>3. QED BY <2>2, FailedIsOK
<1>4. /\ solved \subseteq solved' /\ solved' \subseteq Challenges
      /\ granted \subseteq granted' /\ granted' \subseteq Asked
      /\ jar' \in granted' \cup {NoCookie}
  BY <1>1, <1>2, TabsAreOK DEF TypeOK, Challenges, AnsweredBy
<1>5. GrantsAreEarned'
  <2>1. \A l \in granted : WorkedFor(l)' BY <1>4 DEF IInv, GrantsAreEarned, WorkedFor
  <2>2. ASSUME NEW l, l = level, Type(level) = "none" PROVE WorkedFor(l)'
    <3>1. done \in solved' /\ done.type = "none" /\ done.level = l
      BY <1>2, <2>2
    <3>2. Type(l) = "none" BY <2>2
    <3> HIDE DEF done
    <3>3. QED BY <3>1, <3>2 DEF WorkedFor
  <2>3. \A l \in granted' : l \in granted \/ (Type(level) = "none" /\ l = level)
    BY <1>2
  <2>4. QED BY <2>1, <2>2, <2>3 DEF GrantsAreEarned
<1>6. /\ rate' \in Nat /\ lacks' \in {"nothing", "cookies", "features"}
      /\ changes' \in 0 .. MaxChanges
  BY <1>2 DEF IInv, TypeOK
<1>7. QED BY <1>2, <1>3, <1>4, <1>5, <1>6, TabSteps

LEMMA Solves ==
  ASSUME IInv, NEW t \in Tabs, Solve(t)
  PROVE  IInv'
<1> DEFINE x == tab[t]
           done == [type |-> x.type, level |-> x.bound]
<1>1. /\ x \in TabStates /\ jar \in granted \cup {NoCookie} /\ TypeOK
      /\ granted \in SUBSET Asked /\ changes' \in 0 .. MaxChanges
      /\ UNCHANGED <<jar, lacks, granted, changes>>
  BY TabsAreOK DEF TypeOK, Solve
<1>2. CASE x.type = "none"
  <2>1. Stop(t, x, jar) /\ UNCHANGED solved BY <1>2 DEF Solve
  <2>2. /\ rate' \in Nat
        /\ \E y \in TabStates : Becomes(t, y) /\ TabOK(y, solved, granted)
    BY <1>1, <2>1, StopIsOK
  <2>3. QED BY <1>1, <2>1, <2>2, TabMoves
<1>3. CASE x.type # "none"
  <2>1. /\ Sends(t, x, "posting", NoCookie, FALSE) /\ solved' = solved \cup {done}
    BY <1>3 DEF Solve
  <2>2. "posting" \in Stages \ {"app"} /\ done \in solved' BY <2>1 DEF Stages
  <2>3. /\ TabOK(Sent(x, "posting", NoCookie, FALSE), solved', granted) /\ Busier \in Nat
    BY <1>1, <2>2, SentIsOK
  <2>4. done \in Challenges BY <1>1 DEF TabStates, Challenges
  <2>5. GrantsAreEarned'
    BY <1>1, <2>1 DEF IInv, GrantsAreEarned, WorkedFor
  <2>6. solved' \subseteq Challenges BY <1>1, <2>1, <2>4 DEF TypeOK
  <2>7. QED BY <1>1, <2>1, <2>3, <2>5, <2>6, TabSteps DEF Sends, TypeOK
<1>4. QED BY <1>2, <1>3

(* The agent grants a level only for the work of that level.               *)
LEMMA GrantIsEarned ==
  ASSUME IInv, NEW t \in Tabs, At(t, "posting"),
         IsValid(tab[t].type, tab[t].bound, tab[t].level)
  PROVE  WorkedFor(tab[t].level)
<1>1. [type |-> tab[t].type, level |-> tab[t].bound] \in solved
  BY DEF IInv, PostsAreSolved
<1>2. tab[t].type = "pow" \/ tab[t].type = "captcha"
  BY TabsAreOK DEF IsValid, TabStates, AnsweredBy
<1>3. QED BY <1>1, <1>2 DEF WorkedFor, IsValid

LEMMA Answers ==
  ASSUME IInv, NEW t \in Tabs, Answered(t)
  PROVE  IInv'
<1> DEFINE x == tab[t]
           cookies == IF IsValid(x.type, x.bound, x.level) THEN {x.level} ELSE {}
<1>1. /\ x \in TabStates /\ jar \in granted \cup {NoCookie} /\ TypeOK /\ At(t, "posting")
      /\ granted' = granted \cup cookies /\ Stop(t, x, jar')
      /\ jar' = IF cookies = {} THEN jar ELSE x.level
      /\ UNCHANGED <<lacks, solved, changes>>
  BY TabsAreOK DEF Answered
<1>2. granted' \in SUBSET Asked /\ jar' \in granted' \cup {NoCookie}
  BY <1>1 DEF TypeOK, TabStates
<1>3. GrantsAreEarned'
  <2>1. \A l \in granted' : WorkedFor(l)
    BY <1>1, GrantIsEarned DEF IInv, GrantsAreEarned
  <2>2. QED BY <1>1, <2>1 DEF GrantsAreEarned, WorkedFor
<1>4. /\ rate' \in Nat
      /\ \E y \in TabStates : Becomes(t, y) /\ TabOK(y, solved', granted')
  BY <1>1, <1>2, StopIsOK
<1>5. QED BY <1>1, <1>2, <1>3, <1>4, TabSteps DEF TypeOK

LEMMA Refuses ==
  ASSUME IInv, NEW t \in Tabs, Refused(t) \/ PostFails(t)
  PROVE  IInv'
<1>1. /\ jar \in granted \cup {NoCookie} /\ granted \in SUBSET Asked
      /\ changes' \in 0 .. MaxChanges /\ UNCHANGED <<jar, lacks, solved, granted>>
  BY TabsAreOK, GateAssumption DEF TypeOK, Refused, PostFails, Interferes
<1>2. CASE Stop(t, tab[t], jar)
  <2>1. /\ rate' \in Nat
        /\ \E y \in TabStates : Becomes(t, y) /\ TabOK(y, solved, granted)
    BY <1>1, <1>2, StopIsOK
  <2>2. QED BY <1>1, <2>1, TabMoves
<1>3. CASE Becomes(t, Shows("failed", 0)) /\ UNCHANGED rate
  BY <1>1, <1>3, FailedIsOK, TabMoves DEF IInv, TypeOK
<1>4. QED BY <1>2, <1>3 DEF Refused, PostFails

LEMMA Ticks ==
  ASSUME IInv, NEW t \in Tabs, Interval(t)
  PROVE  IInv'
<1> DEFINE x == tab[t]
<1>1. /\ x \in TabStates /\ jar \in granted \cup {NoCookie} /\ granted \in SUBSET Asked
      /\ changes' \in 0 .. MaxChanges /\ UNCHANGED <<jar, lacks, solved, granted, changes>>
  BY TabsAreOK DEF TypeOK, Interval
<1>2. CASE x.left = 0
  <2>1. "loading" \in Stages \ {"app"} BY DEF Stages
  <2>2. TabOK(Sent(x, "loading", jar, FALSE), solved, granted) /\ Busier \in Nat
    BY <1>1, <2>1, SentIsOK
  <2>3. QED BY <1>1, <1>2, <2>2, TabMoves DEF Interval, Sends
<1>3. CASE x.left # 0
  <2>1. x.left - 1 \in 0 .. 9 BY <1>1, <1>3 DEF TabStates
  <2>2. TabOK(CountsDown(x, x.left - 1, TRUE), solved, granted)
    BY <1>1, <2>1, CountingIsOK
  <2>3. QED BY <1>1, <1>3, <2>2, TabMoves DEF Interval, IInv, TypeOK
<1>4. QED BY <1>2, <1>3

LEMMA Surroundings ==
  ASSUME IInv, Quiet \/ CookieExpires \/ FixBrowser
  PROVE  IInv'
<1>1. /\ UNCHANGED <<tab, solved, granted>> /\ jar' \in {jar, NoCookie}
      /\ lacks' \in {lacks, "nothing"}
  BY DEF Quiet, CookieExpires, FixBrowser
<1>2. rate' \in Nat /\ changes' \in 0 .. MaxChanges
  BY GateAssumption DEF Quiet, CookieExpires, FixBrowser, Interferes, IInv, TypeOK
<1>3. TypeOK' BY <1>1, <1>2, ZeroIsAsked DEF IInv, TypeOK, NoCookie
<1>4. CookiesAreGranted' BY <1>1 DEF IInv, CookiesAreGranted
<1>5. GrantsAreEarned' /\ PostsAreSolved' /\ AppIsGranted'
  BY <1>1 DEF IInv, GrantsAreEarned, PostsAreSolved, AppIsGranted, WorkedFor, At
<1>6. QED BY <1>3, <1>4, <1>5 DEF IInv

------------------------------------------------------------------------------
(* The invariant                                                           *)

LEMMA GateInit == Init => IInv
<1> SUFFICES ASSUME Init PROVE IInv OBVIOUS
<1>1. "blank" \in Stages \ {"posting", "app"} BY DEF Stages
<1>2. TabOK(Shows("blank", 0), solved, granted) BY <1>1, ZeroIsAsked, ShownIsOK
<1>3. tab \in [Tabs -> TabStates] /\ \A t \in Tabs : tab[t] = Shows("blank", 0)
  BY <1>2 DEF Init, TabOK
<1>4. TypeOK BY <1>3, ZeroIsAsked, GateAssumption DEF Init, TypeOK, NoCookie
<1>5. CookiesAreGranted BY <1>2, <1>3 DEF Init, CookiesAreGranted, TabOK
<1>6. GrantsAreEarned BY DEF Init, GrantsAreEarned
<1>7. PostsAreSolved BY <1>2, <1>3 DEF PostsAreSolved, At, TabOK
<1>8. AppIsGranted BY <1>2, <1>3 DEF AppIsGranted, At, TabOK
<1>9. QED BY <1>4, <1>5, <1>6, <1>7, <1>8 DEF IInv

LEMMA GateStep == IInv /\ [Next]_vars => IInv'
<1> SUFFICES ASSUME IInv, [Next]_vars PROVE IInv' OBVIOUS
<1>1. ASSUME NEW t \in Tabs, Works(t) PROVE IInv'
  BY <1>1, Loads, Begins, GetsChallenge, EmptyAnswers, Solves, Answers DEF Works
<1>2. ASSUME NEW t \in Tabs, Fails(t) PROVE IInv'
  BY <1>2, LoadsWithoutVerdict, EmptyAnswers, Refuses DEF Fails
<1>3. ASSUME NEW t \in Tabs, Visit(t) \/ Retry(t) PROVE IInv'
  BY <1>3, Requests
<1>4. ASSUME NEW t \in Tabs, Interval(t) PROVE IInv'
  BY <1>4, Ticks
<1>5. CASE UNCHANGED vars
  BY <1>5 DEF vars, IInv, TypeOK, CookiesAreGranted, GrantsAreEarned, PostsAreSolved,
              AppIsGranted, WorkedFor, At
<1>6. QED BY <1>1, <1>2, <1>3, <1>4, <1>5, Surroundings DEF Next

(* Every cookie the browser keeps or sends was granted, and every grant    *)
(* was worked for.                                                         *)
THEOREM GateInvariant == Spec => []IInv
  BY GateInit, GateStep, PTL DEF Spec

LEMMA GrantedIsEarned == IInv => AppIsEarned
  BY DEF IInv, TypeOK, AppIsGranted, GrantsAreEarned, AppIsEarned

(* No rate, no order of requests and no failure of the agent shows the     *)
(* application to a visitor who has not done the work of the level.        *)
THEOREM ApplicationIsEarned == Spec => []AppIsEarned
  BY GateInvariant, GrantedIsEarned, PTL
=============================================================================

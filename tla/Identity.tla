------------------------------ MODULE Identity ------------------------------
(***************************************************************************)
(* identity.go and the challenge half of validator_pow.go as operators:    *)
(* what is signed, when it expires, and when it is accepted.               *)
(*                                                                         *)
(* The HMAC is symbolic: the sum of a message is the record of what was    *)
(* signed, so two sums are equal exactly when the signed messages are.     *)
(* Time is counted in ticks; a cookie carries whole seconds.               *)
(***************************************************************************)
EXTENDS Integers

CONSTANT TicksPerSecond
ASSUME TicksAssumption == TicksPerSecond \in Nat \ {0}

(* time.Time.Unix() drops the part of a second.                            *)
Unix(t) == t \div TicksPerSecond

(* The expiration ToCookie writes, and onNew puts into the random: the     *)
(* cached time plus the level's duration, in whole seconds.                *)
ExpireAt(cachedTime, duration) == Unix(cachedTime + duration)

(* Bugs of this kind are tried against the properties: a deadline rounded  *)
(* up, a field left out of the hash, a comparison that is off or missing.  *)
NoLevelInSum(id, level, exp) ==
  [use |-> "cookie", id |-> id, level |-> 0, exp |-> exp]
NoIdentityInSum(id, level, random) ==
  [use |-> "challenge", id |-> <<>>, level |-> level, random |-> random]
NoLevelInChallenge(id, level, random) ==
  [use |-> "challenge", id |-> id, level |-> 0, random |-> random]
ExpiredAtDeadline(cachedTime, exp) == Unix(cachedTime) >= exp

(* A RequestIdentifier is [id, host, level]; id stands for the bytes of    *)
(* Host and SrcAddr exactly as they reach the hash.                        *)
CookieSum(id, level, exp) ==
  [use |-> "cookie", id |-> id, level |-> level, exp |-> exp]

(* The random of a challenge is its expiration followed by the support ID. *)
ChallengeSum(id, level, random) ==
  [use |-> "challenge", id |-> id, level |-> level, random |-> random]

(* What a request carries in its berghain cookie: nothing usable (empty,   *)
(* wrong length, not hex), or the three fields of a well-formed cookie.    *)
NoSum    == [use |-> "none"]
NoCookie == [level |-> 0, exp |-> 0, sum |-> NoSum]

(* A deadline is missed once the cached second lies after it.              *)
Expired(cachedTime, exp) == Unix(cachedTime) > exp

NeverExpires(ri, cookie, cachedTime) ==
  /\ cookie # NoCookie
  /\ ri.level <= cookie.level
  /\ cookie.sum = CookieSum(ri.id, cookie.level, cookie.exp)

IsValidCookie(ri, cookie, cachedTime) ==
  /\ cookie # NoCookie
  /\ ri.level <= cookie.level
  /\ ~Expired(cachedTime, cookie.exp)
  /\ cookie.sum = CookieSum(ri.id, cookie.level, cookie.exp)

OldSolution(ri, solution, cachedTime) ==
  /\ solution.sum = ChallengeSum(ri.id, ri.level, solution.random)
  /\ solution.solves

(* powValidator.isValid: the posted solution names a random, a sum and     *)
(* whether its nonce hashes to the required prefix.                        *)
IsValidSolution(ri, solution, cachedTime) ==
  /\ solution.sum = ChallengeSum(ri.id, ri.level, solution.random)
  /\ ~Expired(cachedTime, solution.random.exp)
  /\ solution.solves
=============================================================================

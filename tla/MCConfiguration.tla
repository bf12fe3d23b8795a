-------------------------- MODULE MCConfiguration --------------------------
(***************************************************************************)
(* Configuration with every section of at most two levels, from levels     *)
(* that are right and levels that are wrong in one way, and with sections  *)
(* of 254 to 257 levels.                                                   *)
(***************************************************************************)
EXTENDS Configuration

CONSTANT unset

Raw(type, countdown, set) ==
  [type |-> type, countdown |-> countdown,
   sitekey |-> "sitekey" \in set, secret |-> "secret" \in set,
   verify_url |-> "url" \in set, skip_hostname_check |-> "skip" \in set]

Plain(type, countdown)   == Raw(type, countdown, {})
Captcha(type, countdown) == Raw(type, countdown, {"sitekey", "secret"})

Good == {Plain("none", 0), Plain("pow", 9), Plain("pow", unset),
         Captcha("turnstile", unset), Captcha("recaptcha", 5),
         Raw("hcaptcha", 0, {"sitekey", "secret", "url", "skip"})}
Bad  == {Plain("none", 10), Plain("pow", 11), Plain("cpu", 3),
         Plain("hcaptcha", 3), Raw("recaptcha", 3, {"sitekey"}),
         Raw("turnstile", 3, {"secret", "skip"}), Raw("pow", 3, {"skip"})}
Negative == {Plain("pow", -1), Plain("none", -247), Captcha("turnstile", -1)}

Few(levels) == {<<>>} \cup {<<l>> : l \in levels} \cup {<<k, l>> : k, l \in levels}
Many(n)     == [i \in 1 .. n |-> IF i = n THEN Plain("none", 1) ELSE Plain("pow", 2)]

File(secret, default, frontend) ==
  [secret |-> secret, default |-> default, frontend |-> frontend]

WithoutFrontends == {File(s, d, << >>) : s \in {31, 32}, d \in Few(Good \cup Bad)}
WithFrontends ==
  {File(32, d, [n \in ns |-> f]) :
     d \in Few({Plain("none", 0)} \cup Bad), f \in Few(Good \cup {Plain("none", 10)}),
     ns \in {{"shop"}, {"default"}, {"shop", "default"}}}
Large == {File(32, Many(n), << >>) : n \in {254, 255, 256, 257}}

AllFiles == WithoutFrontends \cup WithFrontends \cup Large

AllRequests == [name : {"shop", "else"}, level : {0, 1, 2, 255, 256, 258}]

NegativeFiles == {File(32, d, << >>) : d \in Few(Negative \cup {Plain("pow", 9)})}
=============================================================================

----------------------------- MODULE MCClearance -----------------------------
(***************************************************************************)
(* Instances of Clearance for TLC. The hosts are real headers: what they   *)
(* become in an identity, and which captcha pages match it, is computed    *)
(* with HostIdentity.                                                      *)
(***************************************************************************)
EXTENDS ClearanceDoor, TLC

H == INSTANCE HostIdentity

CONSTANTS a1, a2, w1, w2, x1, x2, s1, t1, t2, nobody

None(d)    == [type |-> "none", duration |-> d, skipHostname |-> FALSE]
Pow(d)     == [type |-> "pow", duration |-> d, skipHostname |-> FALSE]
Captcha(d) == [type |-> "captcha", duration |-> d, skipHostname |-> FALSE]

(* "a.b", "c.a.b", "C.a.b:80", and the page "e.b" of somebody else         *)
ab    == <<97, 46, 98>>
cab   == <<99, 46, 97, 46, 98>>
CabP  == <<67, 46, 97, 46, 98, 58, 56, 48>>
eb    == <<101, 46, 98>>

AB       == {ab}
Capital  == {CabP}

(* Every frontend entry trusts a.b, so c.a.b shares its identity.          *)
Trusted  == <<ab>>
HostIds  == [c \in Names |-> [h \in RawHosts |-> H!IdentityHost(h, Trusted)]]
(* An address is one byte no host contains.                                *)
Bytes    == [h \in Hosts |-> [x \in Addrs |-> H!HostAndAddr(h, <<x>>)]]
Matches  == {<<p, h>> \in {ab, cab, eb} \X Hosts : H!captchaHostnameMatches(p, h)}

PowOnly   == [c \in {"default"} |-> <<Pow(2)>>]
Captchas  == [c \in {"default"} |-> <<Captcha(2)>>]
Ladder    == [c \in {"default"} |-> <<None(1), Pow(1), Pow(1)>>]
TwoFronts == [default |-> <<Pow(2)>>, shop |-> <<None(3), Captcha(2)>>]

Pages     == [t \in Tokens |-> IF t = t1 THEN cab ELSE eb]

Swaps     == Permutations(Agents) \cup Permutations(Addrs) \cup Permutations(Workers)
=============================================================================

---------------------------- MODULE HostIdentity ----------------------------
(***************************************************************************)
(* From a Host header to the host of an identity (cmd/spop/frontend.go),   *)
(* and from a captcha provider's verdict back to it (validator_captcha.go).*)
(* A host is a sequence of bytes. Case folding is the ASCII one: the only  *)
(* bytes a host name, an IP literal and a configured domain share.         *)
(***************************************************************************)
EXTENDS Integers, Sequences, SequencesExt

Dot   == 46
Colon == 58
Open  == 91
Close == 93

IsDigit(b) == b \in 48 .. 57
IsUpper(b) == b \in 65 .. 90

LowerByte(b) == IF IsUpper(b) THEN b + 32 ELSE b
Lower(s)     == [i \in DOMAIN s |-> LowerByte(s[i])]
EqualFold(s, t) == Lower(s) = Lower(t)

Drop(s, n) == SubSeq(s, n + 1, Len(s))     \* Go: s[n:]
Take(s, n) == SubSeq(s, 1, n)              \* Go: s[:n]

------------------------------------------------------------------------------
(* The loop gives up as soon as the value exceeds 65535; the value never   *)
(* decreases, so saturating it there decides the same.                     *)
PortValue(port) ==
  LET value[n \in 0 .. Len(port)] ==
        IF n = 0 THEN 0
        ELSE IF value[n - 1] > 65535 THEN value[n - 1]
        ELSE value[n - 1] * 10 + (port[n] - 48)
  IN  value[Len(port)]

PortBelowMax(port) ==         \* mutant: < for <=
  /\ port # <<>>
  /\ \A i \in DOMAIN port : IsDigit(port[i])
  /\ PortValue(port) < 65535

validPort(port) ==
  /\ port # <<>>
  /\ \A i \in DOMAIN port : IsDigit(port[i])
  /\ PortValue(port) <= 65535

(* The first position of a byte, 0 when it does not occur.                 *)
IndexByte(s, b) == SelectInSeq(s, LAMBDA x : x = b)
CountByte(s, b) == Cardinality({i \in DOMAIN s : s[i] = b})

bracketWithoutPort(host) ==
  LET close == IndexByte(host, Close)
  IN  IF /\ close \notin {0, Len(host)}
         /\ host[close + 1] = Colon
         /\ validPort(Drop(host, close + 1))
      THEN Take(host, close)
      ELSE host

(* Mutant: the port is sought behind the last colon of any number.         *)
LastColon(host) ==
  LET separator == SelectLastInSeq(host, LAMBDA x : x = Colon)
  IN  IF separator > 1 /\ validPort(Drop(host, separator))
      THEN Take(host, separator - 1)
      ELSE host

nameWithoutPort(host) ==
  LET separator == IndexByte(host, Colon)
  IN  IF /\ CountByte(host, Colon) = 1
         /\ separator # 1
         /\ validPort(Drop(host, separator))
      THEN Take(host, separator - 1)
      ELSE host

hostWithoutPort(host) ==
  IF host = <<>> THEN host
  ELSE IF host[1] = Open THEN bracketWithoutPort(host)
  ELSE nameWithoutPort(host)

normalizeHost(host) == Lower(hostWithoutPort(host))

(* Mutant: the domain may begin in the middle of a label.                  *)
AnySuffix(h, d) ==
  LET start == Len(h) - Len(d)
  IN  d # <<>> /\ start >= 0 /\ EqualFold(Drop(h, start), d)

(* h is d, or ends in d after a dot.                                       *)
EndsInDomain(h, d) ==
  LET start == Len(h) - Len(d)
  IN  /\ d # <<>> /\ start >= 0
      /\ EqualFold(Drop(h, start), d)
      /\ start = 0 \/ h[start] = Dot

(* The first configured domain that fits; td is a sequence of them. Where  *)
(* none does the code returns nil and the caller keeps the host.           *)
getTrustedDomain(host, td) ==
  LET first == SelectInSeq(td, LAMBDA d : EndsInDomain(host, d))
  IN  IF first = 0 THEN host ELSE Drop(host, Len(host) - Len(td[first]))

(* The host both handlers put into the RequestIdentifier.                  *)
IdentityHost(header, td) == getTrustedDomain(normalizeHost(header), td)

HostOnly(host, addr) == host      \* mutant: the address is not written

(* What WriteTo hashes of an identity before the level: the host and the   *)
(* text of the address, with nothing in between.                           *)
HostAndAddr(host, addr) == host \o addr

(* The domain attribute of the cookie, <<>> where it is left out.          *)
getDomainAttr(host) == IF Contains(host, Dot) THEN host ELSE <<>>

(* Mutants: the case is not folded, the byte before the suffix is not      *)
(* looked at.                                                              *)
CaseSensitive(hostname, host) ==
  LET prefixLen == Len(hostname) - Len(host)
  IN  /\ hostname # <<>> /\ host # <<>>
      /\ \/ hostname = host
         \/ /\ prefixLen >= 1
            /\ hostname[prefixLen] = Dot
            /\ Drop(hostname, prefixLen) = host

SameEnding(hostname, host) ==
  LET prefixLen == Len(hostname) - Len(host)
  IN  /\ hostname # <<>> /\ host # <<>>
      /\ prefixLen >= 0
      /\ EqualFold(Drop(hostname, prefixLen), host)

(* hostname is what the provider reports, host the one of the identity.    *)
captchaHostnameMatches(hostname, host) ==
  LET prefixLen == Len(hostname) - Len(host)
  IN  /\ hostname # <<>> /\ host # <<>>
      /\ \/ prefixLen = 0 /\ EqualFold(hostname, host)
         \/ /\ prefixLen >= 1
            /\ hostname[prefixLen] = Dot
            /\ EqualFold(Drop(hostname, prefixLen), host)
=============================================================================

--------------------------- MODULE MCHostIdentity ---------------------------
(***************************************************************************)
(* Every Host header that can be put together from at most MaxPieces       *)
(* pieces, with a list of trusted domains in which one is a suffix of      *)
(* another.                                                                *)
(***************************************************************************)
EXTENDS HostIdentity

CONSTANT MaxPieces

VARIABLES host, pieces

(* a, A, z, ".", ":", "[", "]", ":65535", ":65536", ":007"                 *)
Pieces == {<<97>>, <<65>>, <<122>>, <<Dot>>, <<Colon>>, <<Open>>, <<Close>>,
           <<Colon, 54, 53, 53, 51, 53>>, <<Colon, 54, 53, 53, 51, 54>>,
           <<Colon, 48, 48, 55>>}

(* "", "A.z", "z": the order in which a configuration might list them.     *)
Domains == << <<>>, <<65, Dot, 122>>, <<122>> >>

(* "1.2.3.4", "11.2.3.4", "::a" and "a::a", of which two end in another.   *)
Addresses == {<<49, Dot, 50, Dot, 51, Dot, 52>>,
              <<49, 49, Dot, 50, Dot, 51, Dot, 52>>,
              <<Colon, Colon, 97>>, <<97, Colon, Colon, 97>>}

Init == host = <<>> /\ pieces = 0

Extend(p) == pieces < MaxPieces /\ host' = host \o p /\ pieces' = pieces + 1

Next == \E p \in Pieces : Extend(p)

Spec == Init /\ [][Next]_<<host, pieces>>

------------------------------------------------------------------------------
(* A port in the sense of the tests: one to any number of digits whose     *)
(* number is at most 65535.                                                *)
Number(s) ==
  LET upTo[n \in 0 .. Len(s)] ==
        IF n = 0 THEN 0 ELSE upTo[n - 1] * 10 + (s[n] - 48)
  IN  upTo[Len(s)]
PortText(s) ==
  /\ s # <<>> /\ \A i \in DOMAIN s : IsDigit(s[i])
  /\ Number(s) <= 65535

(* A name a port can follow: without a colon, or in brackets that close    *)
(* only at its end.                                                        *)
PortMayFollow(name) ==
  /\ name # <<>>
  /\ IF name[1] = Open
     THEN Last(name) = Close /\ CountByte(name, Close) = 1
     ELSE CountByte(name, Colon) = 0

(* hostWithoutPort cuts exactly a port that follows such a name, and       *)
(* leaves every other header alone.                                        *)
PortIsCut ==
  LET cuts == {k \in 1 .. Len(host) :
                 /\ host[k] = Colon
                 /\ PortMayFollow(Take(host, k - 1))
                 /\ PortText(Drop(host, k))}
  IN  /\ \A k \in cuts : hostWithoutPort(host) = Take(host, k - 1)
      /\ cuts = {} => hostWithoutPort(host) = host

(* An identity host is its own identity host: a cookie stays valid when    *)
(* the header changes to the canonical form (normalizeHost's comment).     *)
IdentityIsStable ==
  LET id == IdentityHost(host, Domains) IN IdentityHost(id, Domains) = id

Name == hostWithoutPort(host)
DNSName(s) ==
  /\ s # <<>> /\ \A i \in DOMAIN s : s[i] \notin {Colon, Open, Close}

IsOrIsUnder(h, d) ==
  \/ h = d
  \/ \E k \in 1 .. Len(h) : h[k] = Dot /\ Drop(h, k) = d

(* A browser stores a cookie only if the page's host is the domain of the  *)
(* cookie or lies under it (RFC 6265, domain-match). The domain attribute  *)
(* the challenge handler sets is always one the page's browser accepts.    *)
CookieIsStored ==
  DNSName(Name) =>
    LET domain == getDomainAttr(IdentityHost(host, Domains))
    IN  domain # <<>> => IsOrIsUnder(Lower(Name), domain)

(* A widget solved on the very page the challenge was shown on passes the  *)
(* hostname check, whatever the page's case and port and however far the   *)
(* trusted domains shortened its host.                                     *)
OwnPageMatches ==
  DNSName(Name) => captchaHostnameMatches(Name, IdentityHost(host, Domains))

(* ... and a widget solved elsewhere does not: only the identity host and  *)
(* the hosts under it match.                                               *)
OtherPagesDoNotMatch ==
  \A d \in {<<97, Dot, 122>>, <<122>>} :
    captchaHostnameMatches(host, d) => IsOrIsUnder(Lower(host), d)

(* Nothing separates host and address in what is signed. Two visitors are  *)
(* two to the hash all the same unless the host of one ends in a byte that *)
(* the address of the other is written with; a name that ends in e, say,   *)
(* is safe with every IPv4 address (WriteTo).                              *)
EndsApart(h, addr) == h = <<>> \/ \A i \in 1 .. Len(addr) : addr[i] # Last(h)

IdentitiesAreApart ==
  LET id == IdentityHost(host, Domains)
  IN  \A x, y \in Addresses :
        EndsApart(id, y) =>
          \A n \in 0 .. Len(id \o x) :
            LET other == Take(id \o x, n)
            IN  /\ EndsApart(other, x)
                /\ HostAndAddr(id, x) = HostAndAddr(other, y)
                => other = id /\ x = y
=============================================================================

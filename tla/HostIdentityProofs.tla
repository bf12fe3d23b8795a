------------------------ MODULE HostIdentityProofs ------------------------
(***************************************************************************)
(* Hosts of any length under any list of trusted domains: what is cut off  *)
(* a Host header is a port, and nothing else is; the identity host is a    *)
(* suffix of what is left, and its own identity host; a widget solved on   *)
(* the page itself matches, and what else matches lies under the identity  *)
(* host; and host and address do not run into each other when they are     *)
(* hashed.                                                                 *)
(***************************************************************************)
EXTENDS MCHostIdentity, FiniteSetTheorems, SequenceTheorems,
        WellFoundedInduction, TLAPS

Text == Seq(Nat)

------------------------------------------------------------------------------
(* Sequences                                                               *)

LEMMA LowerByteFacts ==
  ASSUME NEW b \in Nat
  PROVE  /\ LowerByte(b) \in Nat /\ LowerByte(LowerByte(b)) = LowerByte(b)
         /\ LowerByte(b) = Dot <=> b = Dot
BY DEF LowerByte, IsUpper, Dot

LEMMA LowerType ==
  ASSUME NEW s \in Text
  PROVE  /\ Lower(s) \in Text /\ Len(Lower(s)) = Len(s)
         /\ \A i \in 1 .. Len(s) : Lower(s)[i] = LowerByte(s[i])
BY LowerByteFacts DEF Lower, Text

LEMMA DropType ==
  ASSUME NEW s \in Text, NEW n \in 0 .. Len(s)
  PROVE  /\ Drop(s, n) \in Text /\ Len(Drop(s, n)) = Len(s) - n
         /\ \A i \in 1 .. Len(s) - n : Drop(s, n)[i] = s[n + i]
BY SubSeqProperties DEF Drop, Text

LEMMA TakeType ==
  ASSUME NEW s \in Text, NEW n \in 0 .. Len(s)
  PROVE  /\ Take(s, n) \in Text /\ Len(Take(s, n)) = n
         /\ \A i \in 1 .. n : Take(s, n)[i] = s[i]
BY SubSeqProperties DEF Take, Text

LEMMA DropNothing == ASSUME NEW s \in Text PROVE Drop(s, 0) = s
<1>1. Len(s) \in Nat /\ 0 \in 0 .. Len(s)
  BY DEF Text
<1>2. /\ Drop(s, 0) \in Text /\ Len(Drop(s, 0)) = Len(s) - 0
      /\ \A i \in 1 .. Len(s) - 0 : Drop(s, 0)[i] = s[0 + i]
  BY <1>1, DropType
<1>3. Len(Drop(s, 0)) = Len(s) /\ \A i \in 1 .. Len(s) : Drop(s, 0)[i] = s[i]
  BY <1>1, <1>2
<1> QED
  BY <1>2, <1>3, SeqEqual DEF Text

LEMMA LowerOfDrop ==
  ASSUME NEW s \in Text, NEW n \in 0 .. Len(s)
  PROVE  Lower(Drop(s, n)) = Drop(Lower(s), n)
<1>1. /\ Drop(s, n) \in Text /\ Len(Drop(s, n)) = Len(s) - n
      /\ \A i \in 1 .. Len(s) - n : Drop(s, n)[i] = s[n + i]
  BY DropType
<1>2. /\ Lower(s) \in Text /\ Len(Lower(s)) = Len(s)
      /\ \A i \in 1 .. Len(s) : Lower(s)[i] = LowerByte(s[i])
  BY LowerType
<1>3. /\ Lower(Drop(s, n)) \in Text /\ Len(Lower(Drop(s, n))) = Len(s) - n
      /\ \A i \in 1 .. Len(s) - n : Lower(Drop(s, n))[i] = LowerByte(s[n + i])
  BY <1>1, LowerType
<1>4. /\ Drop(Lower(s), n) \in Text /\ Len(Drop(Lower(s), n)) = Len(s) - n
      /\ \A i \in 1 .. Len(s) - n : Drop(Lower(s), n)[i] = Lower(s)[n + i]
  BY <1>2, DropType
<1>5. Len(s) \in Nat /\ \A i \in 1 .. Len(s) - n : n + i \in 1 .. Len(s)
  BY DEF Text
<1>6. \A i \in 1 .. Len(s) - n : Lower(Drop(s, n))[i] = Drop(Lower(s), n)[i]
  BY <1>2, <1>3, <1>4, <1>5
<1> QED
  BY <1>3, <1>4, <1>6, SeqEqual DEF Text

LEMMA LowerTwice == ASSUME NEW s \in Text PROVE Lower(Lower(s)) = Lower(s)
<1>1. /\ Lower(s) \in Text /\ Len(Lower(s)) = Len(s)
      /\ \A i \in 1 .. Len(s) : Lower(s)[i] = LowerByte(s[i])
  BY LowerType
<1>2. /\ Lower(Lower(s)) \in Text /\ Len(Lower(Lower(s))) = Len(s)
      /\ \A i \in 1 .. Len(s) : Lower(Lower(s))[i] = LowerByte(Lower(s)[i])
  BY <1>1, LowerType
<1>3. \A i \in 1 .. Len(s) : s[i] \in Nat
  BY DEF Text
<1>4. \A i \in 1 .. Len(s) : Lower(Lower(s))[i] = Lower(s)[i]
  BY <1>1, <1>2, <1>3, LowerByteFacts
<1> QED
  BY <1>1, <1>2, <1>4, SeqEqual DEF Text

(* A set of positions that is not empty has a first.                       *)
LEMMA LeastOf ==
  ASSUME NEW I \in SUBSET Nat, I # {}
  PROVE  \E x \in I : \A y \in I : x <= y
<1>1. PICK x \in I : \A y \in I : ~(<<y, x>> \in OpToRel(<, Nat))
  BY NatLessThanWellFounded, WFMin
<1>2. ASSUME NEW y \in I PROVE x <= y
  <2>1. <<y, x>> \in Nat \X Nat /\ <<y, x>>[1] = y /\ <<y, x>>[2] = x
    OBVIOUS
  <2>2. ~(<<y, x>>[1] < <<y, x>>[2])
    BY <1>1, <2>1 DEF OpToRel
  <2> QED
    BY <2>1, <2>2
<1> QED
  BY <1>2

LEMMA MinOfSet ==
  ASSUME NEW I \in SUBSET Nat, I # {}
  PROVE  Min(I) \in I /\ \A y \in I : Min(I) <= y
<1>1. PICK x \in I : \A y \in I : x <= y
  BY LeastOf
<1> QED
  BY <1>1 DEF Min

LEMMA IndexByteFacts ==
  ASSUME NEW s \in Text, NEW b
  PROVE  /\ IndexByte(s, b) \in 0 .. Len(s)
         /\ IndexByte(s, b) # 0 =>
              /\ s[IndexByte(s, b)] = b
              /\ \A i \in 1 .. IndexByte(s, b) - 1 : s[i] # b
<1> DEFINE I == {i \in 1 .. Len(s) : s[i] = b}
<1>1. IndexByte(s, b) = IF I # {} THEN Min(I) ELSE 0
  BY DEF IndexByte, SelectInSeq
<1>2. I \in SUBSET Nat /\ Len(s) \in Nat
  BY DEF Text
<1>3. I # {} => Min(I) \in I /\ \A y \in I : Min(I) <= y
  BY <1>2, MinOfSet
<1>4. ASSUME I # {}, NEW i \in 1 .. Min(I) - 1 PROVE s[i] # b
  <2>1. Min(I) \in 1 .. Len(s) /\ \A y \in I : Min(I) <= y
    BY <1>3, <1>4
  <2>2. i \in 1 .. Len(s) /\ ~(Min(I) <= i)
    BY <1>2, <1>4, <2>1
  <2>3. i \notin I
    BY <2>1, <2>2
  <2> QED
    BY <2>2, <2>3
<1> QED
  BY <1>1, <1>2, <1>3, <1>4

------------------------------------------------------------------------------
(* The loop over a port                                                    *)

(* A loop that starts with zero and does step[<<value, n>>] in its n-th    *)
(* round has a value after every round.                                    *)
Runs(v, step, N) ==
  /\ v \in [0 .. N -> Int]
  /\ v[0] = 0
  /\ \A n \in 1 .. N : v[n] = step[<<v[n - 1], n>>]

LEMMA LoopRuns ==
  ASSUME NEW N \in Nat, NEW step \in [Int \X Nat -> Int]
  PROVE  \E v : Runs(v, step, N)
<1> DEFINE Stuck == {n \in Nat : ~ \E v : Runs(v, step, n)}
<1>1. SUFFICES ASSUME Stuck # {} PROVE FALSE
  OBVIOUS
<1>2. PICK n \in Stuck : \A m \in Stuck : n <= m
  <2>1. Stuck \in SUBSET Nat
    OBVIOUS
  <2> QED
    BY <1>1, <2>1, LeastOf
<1>3. n # 0
  <2>1. Runs([k \in 0 .. 0 |-> 0], step, 0)
    BY DEF Runs
  <2> QED
    BY <2>1
<1>4. n \in Nat /\ n - 1 \in Nat
  BY <1>2, <1>3
<1>5. PICK w : Runs(w, step, n - 1)
  <2>1. n - 1 \notin Stuck
    <3> HIDE DEF Stuck
    <3> QED
      BY <1>2, <1>4
  <2> QED
    BY <1>4, <2>1
<1> DEFINE v == [k \in 0 .. n |-> IF k = n THEN step[<<w[n - 1], n>>] ELSE w[k]]
<1>6. \A k \in 0 .. n - 1 : w[k] \in Int /\ v[k] = w[k]
  BY <1>4, <1>5 DEF Runs
<1>7. v[n] = step[<<w[n - 1], n>>] /\ v[n] \in Int
  <2>1. v[n] = step[<<w[n - 1], n>>]
    BY <1>4
  <2>2. w[n - 1] \in Int
    <3>1. n - 1 \in 0 .. n - 1
      BY <1>4
    <3> QED
      BY <1>6, <3>1
  <2>3. <<w[n - 1], n>> \in Int \X Nat
    BY <1>4, <2>2
  <2>4. step[<<w[n - 1], n>>] \in Int
    BY <2>3
  <2> QED
    BY <2>1, <2>4
<1>8. Runs(v, step, n)
  <2>1. v \in [0 .. n -> Int]
    <3>1. \A k \in 0 .. n : v[k] \in Int
      <4> HIDE DEF v
      <4> QED
        BY <1>4, <1>6, <1>7
    <3> QED
      BY <3>1
  <2>2. v[0] = 0
    BY <1>4, <1>5, <1>6 DEF Runs
  <2>3. \A k \in 1 .. n : v[k] = step[<<v[k - 1], k>>]
    <3> TAKE k \in 1 .. n
    <3>1. CASE k = n
      <4>1. v[k - 1] = w[n - 1]
        BY <1>4, <1>6, <3>1
      <4> QED
        BY <1>7, <3>1, <4>1
    <3>2. CASE k # n
      <4>1. k \in 1 .. n - 1 /\ k - 1 \in 0 .. n - 1 /\ k \in 0 .. n - 1
        BY <1>4, <3>2
      <4>2. w[k] = step[<<w[k - 1], k>>]
        BY <1>5, <4>1 DEF Runs
      <4> QED
        BY <1>6, <4>1, <4>2
    <3> QED
      BY <3>1, <3>2
  <2> QED
    BY <2>1, <2>2, <2>3 DEF Runs
<1> QED
  BY <1>8

(* The loop of validPort, and the number its reference reads.              *)
PortStep(port, x, n) == IF x > 65535 THEN x ELSE x * 10 + (port[n] - 48)

NumberStep(s, x, n) == x * 10 + (s[n] - 48)

LEMMA PortValueRuns ==
  ASSUME NEW port \in Text
  PROVE  \E v \in [0 .. Len(port) -> Int] :
           /\ v[0] = 0
           /\ \A n \in 1 .. Len(port) : v[n] = PortStep(port, v[n - 1], n)
           /\ PortValue(port) = v[Len(port)]
<1> DEFINE N == Len(port)
           step == [p \in Int \X Nat |-> IF p[2] \in 1 .. N THEN PortStep(port, p[1], p[2]) ELSE 0]
           Is(v) == v = [n \in 0 .. N |-> IF n = 0 THEN 0 ELSE
                          IF v[n - 1] > 65535 THEN v[n - 1]
                          ELSE v[n - 1] * 10 + (port[n] - 48)]
<1>1. N \in Nat /\ \A n \in 1 .. N : port[n] \in Nat
  BY DEF Text
<1>2. step \in [Int \X Nat -> Int]
  BY <1>1 DEF PortStep
<1>3. \A x \in Int : \A n \in 1 .. N : step[<<x, n>>] = PortStep(port, x, n)
  BY <1>1
<1> HIDE DEF step
<1>4. PICK w : Runs(w, step, N)
  BY <1>1, <1>2, LoopRuns
<1>5. \A n \in 1 .. N : w[n] = PortStep(port, w[n - 1], n)
  <2> TAKE n \in 1 .. N
  <2>1. n - 1 \in 0 .. N /\ w[n] = step[<<w[n - 1], n>>]
    BY <1>1, <1>4 DEF Runs
  <2>2. w[n - 1] \in Int
    BY <1>4, <2>1 DEF Runs
  <2> QED
    BY <1>3, <2>1, <2>2
<1>6. Is(w)
  BY <1>1, <1>4, <1>5 DEF Runs, PortStep
<1> DEFINE v == CHOOSE u : Is(u)
<1>7. PortValue(port) = v[N]
  BY DEF PortValue
<1>8. Is(v)
  <2> HIDE DEF Is
  <2> QED
    BY <1>6, Zenon
<1> HIDE DEF v
<1>9. \A n \in 0 .. N : v[n] = IF n = 0 THEN 0 ELSE PortStep(port, v[n - 1], n)
  BY <1>8 DEF PortStep
<1>10. ASSUME NEW n \in 0 .. N, v[n] # w[n] PROVE FALSE
  <2> DEFINE Differs == {k \in 0 .. N : v[k] # w[k]}
  <2>1. PICK k \in Differs : \A m \in Differs : k <= m
    <3>1. Differs \in SUBSET Nat /\ Differs # {}
      BY <1>1, <1>10
    <3> QED
      BY <3>1, LeastOf
  <2>2. k # 0 /\ k \in 1 .. N /\ k - 1 \in 0 .. N
    BY <1>1, <1>4, <1>9, <2>1 DEF Runs
  <2>3. v[k - 1] = w[k - 1]
    BY <2>1, <2>2
  <2> QED
    BY <1>5, <1>9, <2>1, <2>2, <2>3
<1> QED
  BY <1>1, <1>4, <1>5, <1>7, <1>10 DEF Runs

LEMMA NumberRuns ==
  ASSUME NEW s \in Text
  PROVE  \E v \in [0 .. Len(s) -> Int] :
           /\ v[0] = 0
           /\ \A n \in 1 .. Len(s) : v[n] = NumberStep(s, v[n - 1], n)
           /\ Number(s) = v[Len(s)]
<1> DEFINE N == Len(s)
           step == [p \in Int \X Nat |-> IF p[2] \in 1 .. N THEN NumberStep(s, p[1], p[2]) ELSE 0]
           Is(v) == v = [n \in 0 .. N |-> IF n = 0 THEN 0 ELSE
                          v[n - 1] * 10 + (s[n] - 48)]
<1>1. N \in Nat /\ \A n \in 1 .. N : s[n] \in Nat
  BY DEF Text
<1>2. step \in [Int \X Nat -> Int]
  BY <1>1 DEF NumberStep
<1>3. \A x \in Int : \A n \in 1 .. N : step[<<x, n>>] = NumberStep(s, x, n)
  BY <1>1
<1> HIDE DEF step
<1>4. PICK w : Runs(w, step, N)
  BY <1>1, <1>2, LoopRuns
<1>5. \A n \in 1 .. N : w[n] = NumberStep(s, w[n - 1], n)
  <2> TAKE n \in 1 .. N
  <2>1. n - 1 \in 0 .. N /\ w[n] = step[<<w[n - 1], n>>]
    BY <1>1, <1>4 DEF Runs
  <2>2. w[n - 1] \in Int
    BY <1>4, <2>1 DEF Runs
  <2> QED
    BY <1>3, <2>1, <2>2
<1>6. Is(w)
  BY <1>1, <1>4, <1>5 DEF Runs, NumberStep
<1> DEFINE v == CHOOSE u : Is(u)
<1>7. Number(s) = v[N]
  BY DEF Number
<1>8. Is(v)
  <2> HIDE DEF Is
  <2> QED
    BY <1>6, Zenon
<1> HIDE DEF v
<1>9. \A n \in 0 .. N : v[n] = IF n = 0 THEN 0 ELSE NumberStep(s, v[n - 1], n)
  BY <1>8 DEF NumberStep
<1>10. ASSUME NEW n \in 0 .. N, v[n] # w[n] PROVE FALSE
  <2> DEFINE Differs == {k \in 0 .. N : v[k] # w[k]}
  <2>1. PICK k \in Differs : \A m \in Differs : k <= m
    <3>1. Differs \in SUBSET Nat /\ Differs # {}
      BY <1>1, <1>10
    <3> QED
      BY <3>1, LeastOf
  <2>2. k # 0 /\ k \in 1 .. N /\ k - 1 \in 0 .. N
    BY <1>1, <1>4, <1>9, <2>1 DEF Runs
  <2>3. v[k - 1] = w[k - 1]
    BY <2>1, <2>2
  <2> QED
    BY <1>5, <1>9, <2>1, <2>2, <2>3
<1> QED
  BY <1>1, <1>4, <1>5, <1>7, <1>10 DEF Runs

(* A round keeps the value and the number on the same side of the limit.   *)
LEMMA RoundAgrees ==
  ASSUME NEW x \in Int, NEW y \in Int, NEW b \in 48 .. 57, NEW z \in Int,
         x >= 0, x <= 65535 => y = x, x > 65535 => y > 65535,
         z = IF y > 65535 THEN y ELSE y * 10 + (b - 48)
  PROVE  /\ x * 10 + (b - 48) >= 0
         /\ x * 10 + (b - 48) <= 65535 => z = x * 10 + (b - 48)
         /\ x * 10 + (b - 48) > 65535 => z > 65535
<1>1. CASE x <= 65535
  BY <1>1
<1>2. CASE x > 65535
  BY <1>2
<1> QED
  BY <1>1, <1>2

(* A port is valid if it is one in the sense of the tests: saturating the  *)
(* value does not change what it is compared with.                         *)
LEMMA ValidPortIsPort ==
  ASSUME NEW s \in Text
  PROVE  validPort(s) <=> PortText(s)
<1>1. SUFFICES ASSUME \A i \in 1 .. Len(s) : s[i] \in 48 .. 57
               PROVE  PortValue(s) <= 65535 <=> Number(s) <= 65535
  BY DEF validPort, PortText, IsDigit, Text
<1> DEFINE N == Len(s)
<1>2. N \in Nat
  BY DEF Text
<1>3. PICK v \in [0 .. N -> Int] :
        /\ v[0] = 0 /\ \A n \in 1 .. N : v[n] = PortStep(s, v[n - 1], n)
        /\ PortValue(s) = v[N]
  BY PortValueRuns
<1>4. PICK u \in [0 .. N -> Int] :
        /\ u[0] = 0 /\ \A n \in 1 .. N : u[n] = NumberStep(s, u[n - 1], n)
        /\ Number(s) = u[N]
  BY NumberRuns
<1> DEFINE Agree(n) == /\ u[n] >= 0
                       /\ u[n] <= 65535 => v[n] = u[n]
                       /\ u[n] > 65535 => v[n] > 65535
           Differ   == {n \in 0 .. N : ~Agree(n)}
<1>5. ASSUME Differ # {} PROVE FALSE
  <2>1. PICK k \in Differ : \A m \in Differ : k <= m
    <3>1. Differ \in SUBSET Nat
      BY <1>2
    <3> HIDE DEF Differ
    <3> QED
      BY <1>5, <3>1, LeastOf
  <2>2. k \in 1 .. N /\ k - 1 \in 0 .. N
    BY <1>2, <1>3, <1>4, <2>1
  <2>3. Agree(k - 1)
    BY <2>1, <2>2
  <2>4. /\ u[k - 1] \in Int /\ v[k - 1] \in Int /\ s[k] \in 48 .. 57
        /\ u[k] = u[k - 1] * 10 + (s[k] - 48)
        /\ v[k] = IF v[k - 1] > 65535 THEN v[k - 1] ELSE v[k - 1] * 10 + (s[k] - 48)
    BY <1>1, <1>3, <1>4, <2>2 DEF PortStep, NumberStep
  <2>5. Agree(k)
    <3> DEFINE x == u[k - 1]
               y == v[k - 1]
               z == v[k]
               b == s[k]
    <3>1. z \in Int
      BY <1>2, <2>2
    <3>2. x \in Int /\ y \in Int /\ b \in 48 .. 57
      BY <2>4
    <3>3. x >= 0 /\ (x <= 65535 => y = x) /\ (x > 65535 => y > 65535)
      BY <2>3
    <3>4. z = (IF y > 65535 THEN y ELSE y * 10 + (b - 48)) /\ u[k] = x * 10 + (b - 48)
      BY <2>4
    <3> HIDE DEF x, y, z, b
    <3>5. /\ x * 10 + (b - 48) >= 0
          /\ x * 10 + (b - 48) <= 65535 => z = x * 10 + (b - 48)
          /\ x * 10 + (b - 48) > 65535 => z > 65535
      BY <3>1, <3>2, <3>3, <3>4, RoundAgrees
    <3> QED
      BY <3>4, <3>5 DEF z
  <2> QED
    BY <2>1, <2>5
<1>6. N \in 0 .. N /\ u[N] \in Int /\ v[N] \in Int
  BY <1>2
<1>7. Agree(N)
  BY <1>5, <1>6
<1> QED
  BY <1>3, <1>4, <1>6, <1>7

LEMMA CountFacts ==
  ASSUME NEW s \in Text, NEW b
  PROVE  /\ CountByte(s, b) = 0 <=> \A i \in 1 .. Len(s) : s[i] # b
         /\ CountByte(s, b) = 1 <=>
              \E k \in 1 .. Len(s) : s[k] = b /\ \A i \in 1 .. Len(s) : s[i] = b => i = k
<1> DEFINE I == {i \in 1 .. Len(s) : s[i] = b}
<1>1. CountByte(s, b) = Cardinality(I)
  BY DEF CountByte, Text
<1>2. IsFiniteSet(I)
  <2>1. Len(s) \in Nat
    BY DEF Text
  <2>2. IsFiniteSet(1 .. Len(s))
    BY <2>1, FS_Interval
  <2> QED
    BY <2>2, FS_Subset
<1>3. Cardinality(I) = 0 <=> I = {}
  BY <1>2, FS_EmptySet
<1>4. Cardinality(I) = 1 <=> \E x : I = {x}
  BY <1>2, FS_Singleton
<1> QED
  BY <1>1, <1>3, <1>4

LEMMA IndexByteFirst ==
  ASSUME NEW s \in Text, NEW b, NEW k \in 1 .. Len(s), s[k] = b,
         \A i \in 1 .. k - 1 : s[i] # b
  PROVE  IndexByte(s, b) = k
<1> DEFINE I == {i \in 1 .. Len(s) : s[i] = b}
<1>1. IndexByte(s, b) = Min(I)
  BY DEF IndexByte, SelectInSeq
<1>2. I \in SUBSET Nat /\ k \in I /\ Len(s) \in Nat
  BY DEF Text
<1>3. Min(I) \in I /\ Min(I) <= k
  BY <1>2, MinOfSet
<1> QED
  BY <1>1, <1>2, <1>3

------------------------------------------------------------------------------
(* What hostWithoutPort cuts off                                           *)

(* A port behind a name that it can follow is cut off.                     *)
LEMMA PortsAreCut ==
  ASSUME NEW h \in Text, NEW k \in 1 .. Len(h), h[k] = Colon,
         PortMayFollow(Take(h, k - 1)), PortText(Drop(h, k))
  PROVE  hostWithoutPort(h) = Take(h, k - 1)
<1> DEFINE name == Take(h, k - 1)
           port == Drop(h, k)
<1>1. /\ Len(h) \in Nat /\ k \in Nat /\ k - 1 \in 0 .. Len(h) /\ k \in 0 .. Len(h)
      /\ \A i \in 1 .. Len(h) : h[i] \in Nat
  BY DEF Text
<1>2. /\ name \in Text /\ Len(name) = k - 1
      /\ \A i \in 1 .. k - 1 : name[i] = h[i]
  BY <1>1, TakeType
<1>3. /\ port \in Text /\ Len(port) = Len(h) - k /\ port # <<>>
      /\ \A i \in 1 .. Len(h) - k : port[i] = h[k + i]
  BY <1>1, DropType DEF PortText
<1>4. validPort(port)
  BY <1>3, ValidPortIsPort
<1>5. /\ k < Len(h) /\ k > 1 /\ h # <<>> /\ name[1] = h[1]
  BY <1>1, <1>2, <1>3 DEF PortMayFollow
<1>6. \A i \in k + 1 .. Len(h) : h[i] \in 48 .. 57
  <2> TAKE i \in k + 1 .. Len(h)
  <2>1. i - k \in 1 .. Len(port) /\ port[i - k] = h[i]
    BY <1>1, <1>3
  <2>2. \A j \in 1 .. Len(port) : IsDigit(port[j])
    BY <1>3 DEF PortText, Text
  <2> QED
    BY <2>1, <2>2 DEF IsDigit
<1>7. CASE h[1] = Open
  <2>1. name[k - 1] = Close /\ CountByte(name, Close) = 1
    BY <1>2, <1>5, <1>7 DEF PortMayFollow, Last
  <2>2. \A i \in 1 .. k - 1 : name[i] = Close => i = k - 1
    BY <1>1, <1>2, <1>5, <2>1, CountFacts
  <2>3. IndexByte(h, Close) = k - 1
    <3>1. k - 1 \in 1 .. Len(h) /\ h[k - 1] = Close
      BY <1>1, <1>2, <1>5, <2>1
    <3>2. \A i \in 1 .. k - 2 : h[i] # Close
      BY <1>1, <1>2, <2>2
    <3> QED
      BY <1>1, <3>1, <3>2, IndexByteFirst
  <2>4. k - 1 # 0 /\ k - 1 # Len(h) /\ (k - 1) + 1 = k
    BY <1>1, <1>5
  <2>5. bracketWithoutPort(h) = name
    BY <1>4, <2>3, <2>4 DEF bracketWithoutPort
  <2> QED
    BY <1>5, <1>7, <2>5 DEF hostWithoutPort
<1>8. CASE h[1] # Open
  <2>1. CountByte(name, Colon) = 0
    BY <1>5, <1>8 DEF PortMayFollow
  <2>2. \A i \in 1 .. k - 1 : h[i] # Colon
    BY <1>2, <2>1, CountFacts
  <2>3. \A i \in 1 .. Len(h) : h[i] = Colon => i = k
    BY <1>1, <1>6, <2>2 DEF Colon
  <2>4. CountByte(h, Colon) = 1
    BY <2>3, CountFacts
  <2>5. IndexByte(h, Colon) = k
    BY <2>2, IndexByteFirst
  <2>6. nameWithoutPort(h) = name
    BY <1>4, <1>5, <2>4, <2>5 DEF nameWithoutPort
  <2> QED
    BY <1>5, <1>8, <2>6 DEF hostWithoutPort
<1> QED
  BY <1>7, <1>8

(* Nothing else is.                                                        *)
LEMMA OnlyPortsAreCut ==
  ASSUME NEW h \in Text, hostWithoutPort(h) # h
  PROVE  \E k \in 1 .. Len(h) :
           /\ h[k] = Colon
           /\ PortMayFollow(Take(h, k - 1))
           /\ PortText(Drop(h, k))
<1>1. Len(h) \in Nat /\ h # <<>> /\ Len(h) > 0
  BY DEF hostWithoutPort, Text
<1>2. ASSUME NEW k \in 1 .. Len(h), k # 1
      PROVE  /\ Take(h, k - 1) \in Text /\ Len(Take(h, k - 1)) = k - 1
             /\ Take(h, k - 1) # <<>>
             /\ \A i \in 1 .. k - 1 : Take(h, k - 1)[i] = h[i]
             /\ Take(h, k - 1)[1] = h[1]
             /\ Last(Take(h, k - 1)) = h[k - 1]
             /\ Drop(h, k) \in Text
             /\ validPort(Drop(h, k)) => PortText(Drop(h, k))
  <2>1. k - 1 \in 0 .. Len(h) /\ k \in 0 .. Len(h) /\ k - 1 \in 1 .. Len(h)
    BY <1>1, <1>2
  <2>2. /\ Take(h, k - 1) \in Text /\ Len(Take(h, k - 1)) = k - 1
        /\ \A i \in 1 .. k - 1 : Take(h, k - 1)[i] = h[i]
    BY <2>1, TakeType
  <2>3. Drop(h, k) \in Text
    BY <2>1, DropType
  <2> QED
    BY <2>1, <2>2, <2>3, ValidPortIsPort DEF Last
<1>3. CASE h[1] = Open
  <2> DEFINE close == IndexByte(h, Close)
  <2>1. /\ close \in 1 .. Len(h) /\ close # Len(h) /\ h[close + 1] = Colon
        /\ validPort(Drop(h, close + 1))
    BY <1>1, <1>3, IndexByteFacts DEF hostWithoutPort, bracketWithoutPort
  <2>2. h[close] = Close /\ \A i \in 1 .. close - 1 : h[i] # Close
    BY <2>1, IndexByteFacts
  <2> DEFINE k    == close + 1
             name == Take(h, k - 1)
  <2>3. k \in 1 .. Len(h) /\ k # 1 /\ close = k - 1
    BY <1>1, <2>1
  <2>4. /\ name \in Text /\ Len(name) = close /\ name # <<>> /\ name[1] = Open
        /\ Last(name) = Close /\ \A i \in 1 .. close : name[i] = h[i]
    BY <1>2, <1>3, <2>2, <2>3
  <2>5. CountByte(name, Close) = 1
    <3>1. close \in 1 .. Len(name) /\ name[close] = Close
      BY <2>1, <2>2, <2>4
    <3>2. \A i \in 1 .. Len(name) : name[i] = Close => i = close
      <4> TAKE i \in 1 .. Len(name)
      <4> HIDE DEF name, close
      <4>1. i \in 1 .. close /\ name[i] = h[i] /\ close \in Nat
        BY <1>1, <2>1, <2>4
      <4>2. i # close => i \in 1 .. close - 1
        BY <4>1
      <4> QED
        BY <2>2, <4>1, <4>2
    <3> HIDE DEF name, close
    <3>3. \E j \in 1 .. Len(name) :
            name[j] = Close /\ \A i \in 1 .. Len(name) : name[i] = Close => i = j
      BY <3>1, <3>2
    <3> QED
      BY <2>4, <3>3, CountFacts
  <2>6. PortMayFollow(name)
    BY <2>4, <2>5 DEF PortMayFollow
  <2> QED
    BY <1>2, <2>1, <2>3, <2>6
<1>4. CASE h[1] # Open
  <2> DEFINE k    == IndexByte(h, Colon)
             name == Take(h, k - 1)
  <2>1. CountByte(h, Colon) = 1 /\ k # 1 /\ validPort(Drop(h, k))
    BY <1>1, <1>4 DEF hostWithoutPort, nameWithoutPort
  <2>2. PICK j \in 1 .. Len(h) :
          h[j] = Colon /\ \A i \in 1 .. Len(h) : h[i] = Colon => i = j
    BY <2>1, CountFacts
  <2>3. k = j
    <3>1. \A i \in 1 .. j - 1 : h[i] # Colon
      BY <1>1, <2>2
    <3> QED
      BY <2>2, <3>1, IndexByteFirst
  <2>4. /\ name \in Text /\ Len(name) = k - 1 /\ name # <<>> /\ name[1] # Open
        /\ \A i \in 1 .. k - 1 : name[i] = h[i]
    BY <1>2, <1>4, <2>1, <2>2, <2>3
  <2>5. CountByte(name, Colon) = 0
    <3>1. \A i \in 1 .. Len(name) : name[i] # Colon
      BY <1>1, <2>2, <2>3, <2>4
    <3> QED
      BY <2>4, <3>1, CountFacts
  <2>6. PortMayFollow(name)
    BY <2>4, <2>5 DEF PortMayFollow
  <2> QED
    BY <1>2, <2>1, <2>2, <2>3, <2>6
<1> QED
  BY <1>3, <1>4

------------------------------------------------------------------------------
(* The identity host                                                       *)

LEMMA WithoutPortType == ASSUME NEW h \in Text PROVE hostWithoutPort(h) \in Text
<1>1. ASSUME NEW n \in -1 .. Len(h) PROVE Take(h, n) \in Text
  <2>1. CASE n = -1
    <3>1. Take(h, n) = <<>>
      BY <2>1, SubSeqEmpty DEF Take
    <3> QED
      BY <3>1 DEF Text
  <2>2. CASE n # -1
    <3>1. n \in 0 .. Len(h)
      BY <2>2 DEF Text
    <3> QED
      BY <3>1, TakeType
  <2> QED
    BY <2>1, <2>2
<1>2. bracketWithoutPort(h) \in Text
  BY <1>1, IndexByteFacts DEF bracketWithoutPort, Text
<1>3. nameWithoutPort(h) \in Text
  BY <1>1, IndexByteFacts DEF nameWithoutPort, Text
<1> QED
  BY <1>2, <1>3 DEF hostWithoutPort

(* The trusted domain that fits is the first of the list that does.        *)
LEMMA FirstThatFits ==
  ASSUME NEW h \in Text, NEW td \in Seq(Text)
  PROVE  \/ /\ getTrustedDomain(h, td) = h
            /\ \A i \in 1 .. Len(td) : ~EndsInDomain(h, td[i])
         \/ \E i \in 1 .. Len(td) :
              /\ EndsInDomain(h, td[i])
              /\ \A j \in 1 .. Len(td) : EndsInDomain(h, td[j]) => i <= j
              /\ getTrustedDomain(h, td) = Drop(h, Len(h) - Len(td[i]))
<1> DEFINE I == {i \in 1 .. Len(td) : EndsInDomain(h, td[i])}
<1>1. CASE I = {}
  BY <1>1 DEF getTrustedDomain, SelectInSeq
<1>2. CASE I # {}
  <2>1. I \in SUBSET Nat
    OBVIOUS
  <2>2. Min(I) \in I /\ \A y \in I : Min(I) <= y
    BY <1>2, <2>1, MinOfSet
  <2>3. getTrustedDomain(h, td) = Drop(h, Len(h) - Len(td[Min(I)]))
    BY <1>2, <2>2 DEF getTrustedDomain, SelectInSeq
  <2> QED
    BY <2>2, <2>3
<1> QED
  BY <1>1, <1>2

(* The identity host is what is left of the page's name, in lower case,    *)
(* from its beginning or from behind one of its dots on.                   *)
LEMMA IdentityIsSuffix ==
  ASSUME NEW h \in Text, NEW td \in Seq(Text)
  PROVE  LET name == hostWithoutPort(h)
         IN  \E start \in 0 .. Len(name) :
               /\ IdentityHost(h, td) = Drop(Lower(name), start)
               /\ start = 0 \/ name[start] = Dot
               /\ name # <<>> => start < Len(name)
<1> DEFINE name == hostWithoutPort(h)
           low  == Lower(name)
<1>1. name \in Text /\ Len(name) \in Nat
  BY WithoutPortType DEF Text
<1>2. /\ low \in Text /\ Len(low) = Len(name)
      /\ \A i \in 1 .. Len(name) : low[i] = LowerByte(name[i])
  BY <1>1, LowerType
<1>3. IdentityHost(h, td) = getTrustedDomain(low, td)
  BY DEF IdentityHost, normalizeHost
<1>4. CASE getTrustedDomain(low, td) = low
  <2>1. Drop(low, 0) = low
    BY <1>2, DropNothing
  <2>2. name # <<>> => 0 < Len(name)
    BY <1>1 DEF Text
  <2> QED
    BY <1>1, <1>3, <1>4, <2>1, <2>2
<1>5. ASSUME NEW d \in Text, EndsInDomain(low, d),
             getTrustedDomain(low, td) = Drop(low, Len(low) - Len(d))
      PROVE  \E start \in 0 .. Len(name) :
               /\ IdentityHost(h, td) = Drop(low, start)
               /\ start = 0 \/ name[start] = Dot
               /\ name # <<>> => start < Len(name)
  <2> DEFINE start == Len(low) - Len(d)
  <2>1. /\ d # <<>> /\ start >= 0
        /\ start = 0 \/ low[start] = Dot
    BY <1>5 DEF EndsInDomain
  <2>2. Len(d) \in Nat /\ Len(d) > 0
    BY <2>1 DEF Text
  <2>3. start \in 0 .. Len(name) /\ start < Len(name)
    BY <1>1, <1>2, <2>1, <2>2
  <2>4. start = 0 \/ name[start] = Dot
    <3>1. CASE start # 0
      <4>1. start \in 1 .. Len(name)
        BY <1>1, <2>3, <3>1
      <4>2. low[start] = LowerByte(name[start])
        BY <1>2, <4>1
      <4>3. name[start] \in Nat
        BY <1>1, <4>1, ElementOfSeq DEF Text
      <4> QED
        BY <2>1, <3>1, <4>2, <4>3, LowerByteFacts
    <3> QED
      BY <3>1
  <2> QED
    BY <1>3, <1>5, <2>3, <2>4
<1>6. \A i \in 1 .. Len(td) : td[i] \in Text
  BY SMT
<1> QED
  BY <1>2, <1>3, <1>4, <1>5, <1>6, FirstThatFits

------------------------------------------------------------------------------
(* The host name check of a captcha                                        *)

LEMMA NameMatchesIdentity ==
  ASSUME NEW h \in Text, NEW td \in Seq(Text), hostWithoutPort(h) # <<>>
  PROVE  captchaHostnameMatches(hostWithoutPort(h), IdentityHost(h, td))
<1> DEFINE name == hostWithoutPort(h)
           id   == IdentityHost(h, td)
<1>1. name \in Text /\ Len(name) \in Nat
  BY WithoutPortType DEF Text
<1>2. PICK start \in 0 .. Len(name) :
        /\ id = Drop(Lower(name), start)
        /\ start = 0 \/ name[start] = Dot
        /\ start < Len(name)
  BY IdentityIsSuffix
<1>3. Lower(name) \in Text /\ Len(Lower(name)) = Len(name)
  BY <1>1, LowerType
<1>4. id \in Text /\ Len(id) = Len(name) - start
  BY <1>2, <1>3, DropType
<1>5. id # <<>>
  BY <1>1, <1>2, <1>4
<1>6. Lower(id) = Lower(Drop(name, start))
  BY <1>1, <1>2, <1>3, LowerOfDrop, LowerTwice
<1>7. Len(name) - Len(id) = start
  BY <1>1, <1>2, <1>4
<1>8. CASE start = 0
  <2>1. Lower(name) = Lower(id)
    BY <1>1, <1>6, <1>8, DropNothing
  <2> QED
    BY <1>5, <1>7, <1>8, <2>1 DEF captchaHostnameMatches, EqualFold
<1>9. CASE start # 0
  <2>1. start >= 1 /\ name[start] = Dot
    BY <1>2, <1>9
  <2> QED
    BY <1>5, <1>6, <1>7, <2>1 DEF captchaHostnameMatches, EqualFold
<1> QED
  BY <1>8, <1>9

LEMMA MatchLiesUnder ==
  ASSUME NEW page \in Text, NEW h \in Text, captchaHostnameMatches(page, h)
  PROVE  IsOrIsUnder(Lower(page), Lower(h))
<1> DEFINE n == Len(page) - Len(h)
<1>1. Len(page) \in Nat /\ Len(h) \in Nat
  BY DEF Text
<1>2. CASE EqualFold(page, h)
  BY <1>2 DEF EqualFold, IsOrIsUnder
<1>3. CASE n >= 1 /\ page[n] = Dot /\ EqualFold(Drop(page, n), h)
  <2>1. n \in 1 .. Len(page)
    BY <1>1, <1>3
  <2>2. Drop(Lower(page), n) = Lower(h)
    BY <1>3, <2>1, LowerOfDrop DEF EqualFold
  <2>3. Lower(page)[n] = Dot /\ n \in 1 .. Len(Lower(page))
    <3>1. Lower(page)[n] = LowerByte(page[n]) /\ Len(Lower(page)) = Len(page)
      BY <2>1, LowerType
    <3> QED
      BY <1>3, <2>1, <3>1 DEF LowerByte, IsUpper, Dot
  <2> QED
    BY <2>2, <2>3 DEF IsOrIsUnder
<1> QED
  BY <1>2, <1>3 DEF captchaHostnameMatches

(* The domain of the cookie is one the page's browser accepts.             *)
LEMMA DomainIsStored ==
  ASSUME NEW h \in Text, NEW td \in Seq(Text),
         getDomainAttr(IdentityHost(h, td)) # <<>>
  PROVE  IsOrIsUnder(Lower(hostWithoutPort(h)), getDomainAttr(IdentityHost(h, td)))
<1> DEFINE name == hostWithoutPort(h)
           low  == Lower(name)
<1>1. name \in Text
  BY WithoutPortType
<1>2. /\ low \in Text /\ Len(low) = Len(name)
      /\ \A i \in 1 .. Len(name) : low[i] = LowerByte(name[i])
  BY <1>1, LowerType
<1>3. PICK start \in 0 .. Len(name) :
        /\ IdentityHost(h, td) = Drop(low, start)
        /\ start = 0 \/ name[start] = Dot
  BY IdentityIsSuffix
<1>4. getDomainAttr(IdentityHost(h, td)) = Drop(low, start)
  BY <1>3 DEF getDomainAttr
<1>5. CASE start = 0
  BY <1>2, <1>4, <1>5, DropNothing DEF IsOrIsUnder
<1>6. CASE start # 0
  <2>1. Len(name) \in Nat
    BY <1>1 DEF Text
  <2>2. start \in 1 .. Len(name) /\ Len(low) = Len(name) /\ name[start] = Dot
    BY <1>2, <1>3, <1>6, <2>1
  <2>3. low[start] = LowerByte(name[start])
    BY <1>2, <2>2
  <2>4. low[start] = Dot
    BY <2>2, <2>3 DEF LowerByte, IsUpper, Dot
  <2> QED
    BY <1>4, <2>2, <2>4 DEF IsOrIsUnder
<1> QED
  BY <1>5, <1>6

------------------------------------------------------------------------------
(* Host and address in the hash                                            *)

LEMMA HostIsNotCutShort ==
  ASSUME NEW g \in Text, NEW h \in Text, NEW x \in Text, NEW y \in Text,
         EndsApart(h, x), h \o y = g \o x
  PROVE  Len(h) <= Len(g)
<1>1. Len(g) \in Nat /\ Len(h) \in Nat /\ Len(x) \in Nat /\ Len(y) \in Nat
  BY DEF Text
<1>2. SUFFICES ASSUME Len(h) > Len(g) PROVE FALSE
  BY <1>1
<1> DEFINE n == Len(h)
<1>3. /\ Len(h \o y) = Len(h) + Len(y)
      /\ \A i \in 1 .. Len(h) + Len(y) :
           (h \o y)[i] = IF i <= Len(h) THEN h[i] ELSE y[i - Len(h)]
  BY ConcatProperties DEF Text
<1>4. /\ Len(g \o x) = Len(g) + Len(x)
      /\ \A i \in 1 .. Len(g) + Len(x) :
           (g \o x)[i] = IF i <= Len(g) THEN g[i] ELSE x[i - Len(g)]
  BY <1>1, ConcatProperties DEF Text
<1>5. Len(h) + Len(y) = Len(g) + Len(x)
  BY <1>3, <1>4
<1>6. n \in 1 .. Len(h) + Len(y) /\ n - Len(g) \in 1 .. Len(x)
  BY <1>1, <1>2, <1>5
<1>7. h[n] = x[n - Len(g)]
  BY <1>1, <1>2, <1>3, <1>4, <1>5, <1>6
<1>8. h # <<>> /\ Last(h) = h[n]
  BY <1>1, <1>2 DEF Last
<1> QED
  BY <1>6, <1>7, <1>8 DEF EndsApart

LEMMA HostsAndAddressesAreApart ==
  ASSUME NEW g \in Text, NEW h \in Text,
         NEW x \in Text, NEW y \in Text,
         EndsApart(g, y), EndsApart(h, x), HostAndAddr(h, y) = HostAndAddr(g, x)
  PROVE  g = h /\ x = y
<1>1. Len(g) \in Nat /\ Len(h) \in Nat /\ Len(x) \in Nat /\ Len(y) \in Nat
  BY DEF Text
<1>2. h \o y = g \o x
  BY DEF HostAndAddr
<1>3. Len(g) = Len(h)
  <2>1. Len(h) <= Len(g)
    BY <1>1, <1>2, HostIsNotCutShort
  <2>2. Len(g) <= Len(h)
    BY <1>1, <1>2, HostIsNotCutShort
  <2> QED
    BY <1>1, <2>1, <2>2
<1>4. /\ Len(h \o y) = Len(h) + Len(y) /\ Len(g \o x) = Len(g) + Len(x)
      /\ \A i \in 1 .. Len(h) + Len(y) :
           (h \o y)[i] = IF i <= Len(h) THEN h[i] ELSE y[i - Len(h)]
      /\ \A i \in 1 .. Len(g) + Len(x) :
           (g \o x)[i] = IF i <= Len(g) THEN g[i] ELSE x[i - Len(g)]
  BY <1>1, ConcatProperties DEF Text
<1>5. Len(x) = Len(y)
  BY <1>1, <1>2, <1>3, <1>4
<1>6. \A i \in 1 .. Len(g) : g[i] = h[i]
  BY <1>1, <1>2, <1>3, <1>4, <1>5
<1>7. ASSUME NEW i \in 1 .. Len(x) PROVE x[i] = y[i]
  <2>1. Len(g) + i \in 1 .. Len(g) + Len(x) /\ ~(Len(g) + i <= Len(g))
        /\ Len(g) + i - Len(g) = i
    BY <1>1
  <2> QED
    BY <1>2, <1>3, <1>4, <1>5, <2>1
<1> QED
  BY <1>1, <1>3, <1>5, <1>6, <1>7, SeqEqual DEF Text

------------------------------------------------------------------------------
(* The identity host of an identity host                                   *)

LEMMA LowerKeepsMarks ==
  ASSUME NEW b \in Nat
  PROVE  /\ \A c \in {Colon, Open, Close} : LowerByte(b) = c <=> b = c
         /\ IsDigit(LowerByte(b)) <=> IsDigit(b)
         /\ IsDigit(b) => LowerByte(b) = b
BY DEF LowerByte, IsUpper, IsDigit, Colon, Open, Close

LEMMA IndexByteOfLower ==
  ASSUME NEW s \in Text, NEW b \in {Colon, Open, Close}
  PROVE  /\ IndexByte(Lower(s), b) = IndexByte(s, b)
         /\ CountByte(Lower(s), b) = CountByte(s, b)
<1>1. /\ Lower(s) \in Text /\ Len(Lower(s)) = Len(s)
      /\ \A i \in 1 .. Len(s) : Lower(s)[i] = LowerByte(s[i])
  BY LowerType
<1>2. \A i \in 1 .. Len(s) : Lower(s)[i] = b <=> s[i] = b
  BY <1>1, LowerKeepsMarks DEF Text
<1>3. {i \in 1 .. Len(s) : Lower(s)[i] = b} = {i \in 1 .. Len(s) : s[i] = b}
  BY <1>2
<1>4. DOMAIN s = 1 .. Len(s) /\ DOMAIN Lower(s) = 1 .. Len(s)
  BY <1>1 DEF Text
<1> QED
  BY <1>1, <1>3, <1>4 DEF IndexByte, SelectInSeq, CountByte

LEMMA LowerOfTake ==
  ASSUME NEW s \in Text, NEW n \in 0 .. Len(s)
  PROVE  Lower(Take(s, n)) = Take(Lower(s), n)
<1>1. /\ Take(s, n) \in Text /\ Len(Take(s, n)) = n
      /\ \A i \in 1 .. n : Take(s, n)[i] = s[i]
  BY TakeType
<1>2. /\ Lower(s) \in Text /\ Len(Lower(s)) = Len(s)
      /\ \A i \in 1 .. Len(s) : Lower(s)[i] = LowerByte(s[i])
  BY LowerType
<1>3. /\ Lower(Take(s, n)) \in Text /\ Len(Lower(Take(s, n))) = n
      /\ \A i \in 1 .. n : Lower(Take(s, n))[i] = LowerByte(Take(s, n)[i])
  BY <1>1, LowerType
<1>4. /\ Take(Lower(s), n) \in Text /\ Len(Take(Lower(s), n)) = n
      /\ \A i \in 1 .. n : Take(Lower(s), n)[i] = Lower(s)[i]
  BY <1>2, TakeType
<1>5. Len(s) \in Nat /\ \A i \in 1 .. n : i \in 1 .. Len(s)
  BY DEF Text
<1>6. \A i \in 1 .. n : Lower(Take(s, n))[i] = Take(Lower(s), n)[i]
  BY <1>1, <1>2, <1>3, <1>4, <1>5
<1> QED
  BY <1>3, <1>4, <1>6, SeqEqual DEF Text

(* Only digits can be a port, and they have no case.                       *)
LEMMA PortOfLower ==
  ASSUME NEW s \in Text
  PROVE  validPort(Lower(s)) <=> validPort(s)
<1>1. /\ Lower(s) \in Text /\ Len(Lower(s)) = Len(s)
      /\ \A i \in 1 .. Len(s) : Lower(s)[i] = LowerByte(s[i])
  BY LowerType
<1>2. \A i \in 1 .. Len(s) : /\ IsDigit(Lower(s)[i]) <=> IsDigit(s[i])
                             /\ IsDigit(s[i]) => Lower(s)[i] = s[i]
  BY <1>1, LowerKeepsMarks DEF Text
<1>3. DOMAIN s = 1 .. Len(s) /\ DOMAIN Lower(s) = 1 .. Len(s)
  BY <1>1 DEF Text
<1>4. CASE \A i \in 1 .. Len(s) : IsDigit(s[i])
  <2>1. Lower(s) = s
    BY <1>1, <1>2, <1>4, SeqEqual DEF Text
  <2> QED
    BY <2>1
<1>5. CASE ~ \A i \in 1 .. Len(s) : IsDigit(s[i])
  BY <1>2, <1>3, <1>5 DEF validPort
<1> QED
  BY <1>4, <1>5

LEMMA WithoutPortOfLower ==
  ASSUME NEW h \in Text
  PROVE  hostWithoutPort(Lower(h)) = Lower(hostWithoutPort(h))
<1> DEFINE low == Lower(h)
<1>1. /\ low \in Text /\ Len(low) = Len(h) /\ Len(h) \in Nat
      /\ \A i \in 1 .. Len(h) : low[i] = LowerByte(h[i])
      /\ \A i \in 1 .. Len(h) : h[i] \in Nat
  BY LowerType DEF Text
<1>2. \A i \in 1 .. Len(h) : \A b \in {Colon, Open, Close} : low[i] = b <=> h[i] = b
  BY <1>1, LowerKeepsMarks
<1>3. ASSUME NEW n \in 0 .. Len(h)
      PROVE  /\ validPort(Drop(low, n)) <=> validPort(Drop(h, n))
             /\ Take(low, n) = Lower(Take(h, n))
  <2>1. Drop(h, n) \in Text /\ Drop(low, n) = Lower(Drop(h, n))
    BY DropType, LowerOfDrop
  <2> QED
    BY <2>1, PortOfLower, LowerOfTake
<1>4. \A b \in {Colon, Open, Close} :
        /\ IndexByte(low, b) = IndexByte(h, b) /\ CountByte(low, b) = CountByte(h, b)
        /\ IndexByte(h, b) \in 0 .. Len(h)
  BY IndexByteOfLower, IndexByteFacts
<1>5. CASE h = <<>>
  BY <1>1, <1>5 DEF hostWithoutPort, Text
<1>6. CASE h # <<>>
  <2>1. low # <<>> /\ 1 \in 1 .. Len(h)
    BY <1>1, <1>6 DEF Text
  <2>2. low[1] = Open <=> h[1] = Open
    BY <1>2, <2>1
  <2>3. bracketWithoutPort(low) = Lower(bracketWithoutPort(h))
    <3> DEFINE close == IndexByte(h, Close)
    <3>1. close \in 0 .. Len(h) /\ IndexByte(low, Close) = close
      BY <1>4
    <3> HIDE DEF low, close
    <3>2. CASE close \in {0, Len(h)}
      BY <1>1, <3>1, <3>2 DEF bracketWithoutPort, low, close
    <3>3. CASE close \notin {0, Len(h)}
      <4>1. close + 1 \in 1 .. Len(h) /\ close + 1 \in 0 .. Len(h)
        BY <1>1, <3>1, <3>3
      <4>2. low[close + 1] = Colon <=> h[close + 1] = Colon
        BY <1>2, <4>1
      <4>3. validPort(Drop(low, close + 1)) <=> validPort(Drop(h, close + 1))
        BY <1>3, <4>1
      <4>4. Take(low, close) = Lower(Take(h, close))
        BY <1>3, <3>1
      <4> QED
        BY <1>1, <3>1, <4>2, <4>3, <4>4 DEF bracketWithoutPort, low, close
    <3> QED
      BY <3>2, <3>3
  <2>4. nameWithoutPort(low) = Lower(nameWithoutPort(h))
    <3> DEFINE separator == IndexByte(h, Colon)
    <3>1. /\ separator \in 0 .. Len(h) /\ IndexByte(low, Colon) = separator
          /\ CountByte(low, Colon) = CountByte(h, Colon)
      BY <1>4
    <3>2. validPort(Drop(low, separator)) <=> validPort(Drop(h, separator))
      BY <1>3, <3>1
    <3>3. CountByte(h, Colon) = 1 => separator # 0
      <4>1. SUFFICES ASSUME CountByte(h, Colon) = 1 PROVE separator # 0
        OBVIOUS
      <4>2. PICK k \in 1 .. Len(h) :
              h[k] = Colon /\ \A i \in 1 .. Len(h) : h[i] = Colon => i = k
        BY <4>1, CountFacts
      <4>3. \A i \in 1 .. k - 1 : h[i] # Colon
        BY <1>1, <4>2
      <4>4. separator = k
        BY <4>2, <4>3, IndexByteFirst
      <4> QED
        BY <4>4
    <3>4. separator # 0 => Take(low, separator - 1) = Lower(Take(h, separator - 1))
      <4>1. separator # 0 => separator - 1 \in 0 .. Len(h)
        BY <1>1, <3>1
      <4> QED
        BY <1>3, <4>1
    <3> QED
      BY <3>1, <3>2, <3>3, <3>4 DEF nameWithoutPort
  <2> QED
    BY <1>6, <2>1, <2>2, <2>3, <2>4 DEF hostWithoutPort
<1> QED
  BY <1>5, <1>6

(* A second cut finds nothing.                                             *)
LEMMA WithoutPortTwice ==
  ASSUME NEW h \in Text
  PROVE  hostWithoutPort(hostWithoutPort(h)) = hostWithoutPort(h)
<1>1. SUFFICES ASSUME hostWithoutPort(h) # h
               PROVE  hostWithoutPort(hostWithoutPort(h)) = hostWithoutPort(h)
  OBVIOUS
<1>2. PICK k \in 1 .. Len(h) :
        h[k] = Colon /\ PortMayFollow(Take(h, k - 1)) /\ PortText(Drop(h, k))
  BY <1>1, OnlyPortsAreCut
<1> DEFINE name == Take(h, k - 1)
<1>3. hostWithoutPort(h) = name
  BY <1>2, PortsAreCut
<1>4. name \in Text /\ name # <<>> /\ Len(name) \in Nat
  <2>1. k - 1 \in 0 .. Len(h)
    BY DEF Text
  <2> QED
    BY <1>2, <2>1, TakeType DEF PortMayFollow, Text
<1>5. SUFFICES ASSUME hostWithoutPort(name) # name PROVE FALSE
  BY <1>3
<1> HIDE DEF name
<1>6. PICK j \in 1 .. Len(name) :
        name[j] = Colon /\ PortMayFollow(Take(name, j - 1))
  BY <1>4, <1>5, OnlyPortsAreCut
<1>7. j - 1 \in 0 .. Len(name) /\ j \in Nat
  BY <1>4
<1>8. /\ Take(name, j - 1) \in Text /\ Len(Take(name, j - 1)) = j - 1
      /\ \A i \in 1 .. j - 1 : Take(name, j - 1)[i] = name[i]
  BY <1>4, <1>7, TakeType
<1>9. /\ PortMayFollow(name) /\ Take(name, j - 1) # <<>>
      /\ j - 1 \in 1 .. Len(name) /\ Take(name, j - 1)[1] = name[1]
  BY <1>2, <1>4, <1>6, <1>7, <1>8 DEF PortMayFollow, name
<1>10. CASE name[1] = Open
  <2>1. /\ Last(Take(name, j - 1)) = Close /\ Last(name) = Close
        /\ CountByte(name, Close) = 1
    BY <1>6, <1>9, <1>10 DEF PortMayFollow
  <2>2. name[j - 1] = Close /\ name[Len(name)] = Close
    BY <1>7, <1>8, <1>9, <2>1 DEF Last
  <2>3. Len(name) \in 1 .. Len(name) /\ j - 1 # Len(name)
    BY <1>4, <1>7, <1>9
  <2> QED
    BY <1>4, <1>9, <2>1, <2>2, <2>3, CountFacts
<1>11. CASE name[1] # Open
  <2>1. CountByte(name, Colon) = 0
    BY <1>9, <1>11 DEF PortMayFollow
  <2> QED
    BY <1>4, <1>6, <2>1, CountFacts
<1> QED
  BY <1>10, <1>11

LEMMA NormalTwice ==
  ASSUME NEW h \in Text
  PROVE  /\ normalizeHost(h) \in Text
         /\ Lower(normalizeHost(h)) = normalizeHost(h)
         /\ normalizeHost(normalizeHost(h)) = normalizeHost(h)
<1> DEFINE name == hostWithoutPort(h)
<1>1. name \in Text /\ Lower(name) \in Text
  BY WithoutPortType, LowerType
<1>2. hostWithoutPort(Lower(name)) = Lower(name)
  BY <1>1, WithoutPortOfLower, WithoutPortTwice
<1>3. Lower(Lower(name)) = Lower(name)
  BY <1>1, LowerTwice
<1> QED
  BY <1>1, <1>2, <1>3 DEF normalizeHost

(* Domains that look like a DNS name: without a colon or an opening        *)
(* bracket.                                                                *)
PlainDomains ==
  {d \in Text : \A i \in 1 .. Len(d) : d[i] # Colon /\ d[i] # Open}

LEMMA DropTwice ==
  ASSUME NEW s \in Text, NEW m \in 0 .. Len(s), NEW n \in 0 .. Len(s) - m
  PROVE  Drop(Drop(s, m), n) = Drop(s, m + n)
<1>1. Len(s) \in Nat /\ m + n \in 0 .. Len(s)
  BY DEF Text
<1>2. /\ Drop(s, m) \in Text /\ Len(Drop(s, m)) = Len(s) - m
      /\ \A i \in 1 .. Len(s) - m : Drop(s, m)[i] = s[m + i]
  BY DropType
<1>3. /\ Drop(Drop(s, m), n) \in Text /\ Len(Drop(Drop(s, m), n)) = (Len(s) - m) - n
      /\ \A i \in 1 .. (Len(s) - m) - n : Drop(Drop(s, m), n)[i] = Drop(s, m)[n + i]
  BY <1>2, DropType
<1>4. /\ Drop(s, m + n) \in Text /\ Len(Drop(s, m + n)) = Len(s) - (m + n)
      /\ \A i \in 1 .. Len(s) - (m + n) : Drop(s, m + n)[i] = s[(m + n) + i]
  BY <1>1, DropType
<1>5. ASSUME NEW i \in 1 .. (Len(s) - m) - n
      PROVE  Drop(Drop(s, m), n)[i] = Drop(s, m + n)[i]
  <2>1. /\ n + i \in 1 .. Len(s) - m /\ m + (n + i) = (m + n) + i
        /\ i \in 1 .. Len(s) - (m + n)
    BY <1>1
  <2> QED
    BY <1>2, <1>3, <1>4, <2>1
<1>6. Len(s) - (m + n) = (Len(s) - m) - n
  BY <1>1
<1> QED
  BY <1>3, <1>4, <1>5, <1>6, SeqEqual DEF Text

(* A host that ends in a domain ends in whatever the domain's part of it   *)
(* ends in.                                                                *)
LEMMA EndsAlike ==
  ASSUME NEW h \in Text, NEW c \in Text, NEW d \in Text,
         EndsInDomain(h, d), EndsInDomain(Drop(h, Len(h) - Len(d)), c)
  PROVE  EndsInDomain(h, c)
<1> DEFINE m  == Len(h) - Len(d)
           id == Drop(h, m)
           n  == Len(id) - Len(c)
<1>1. /\ Len(h) \in Nat /\ Len(d) \in Nat /\ Len(c) \in Nat
      /\ m >= 0 /\ (m = 0 \/ h[m] = Dot)
  BY DEF EndsInDomain, Text
<1>2. m \in 0 .. Len(h)
  BY <1>1
<1>3. /\ id \in Text /\ Len(id) = Len(h) - m
      /\ \A i \in 1 .. Len(h) - m : id[i] = h[m + i]
  BY <1>2, DropType
<1>4. /\ c # <<>> /\ n >= 0 /\ EqualFold(Drop(id, n), c) /\ (n = 0 \/ id[n] = Dot)
  BY DEF EndsInDomain
<1>5. n \in 0 .. Len(h) - m /\ m + n = Len(h) - Len(c)
  BY <1>1, <1>2, <1>3, <1>4
<1>6. Drop(id, n) = Drop(h, m + n)
  BY <1>2, <1>5, DropTwice
<1>7. n # 0 => id[n] = h[m + n]
  BY <1>1, <1>3, <1>5
<1>8. m + n = 0 \/ h[m + n] = Dot
  BY <1>1, <1>4, <1>5, <1>7
<1>9. m + n >= 0
  BY <1>1, <1>5
<1> HIDE DEF m, id, n
<1> QED
  BY <1>4, <1>5, <1>6, <1>8, <1>9 DEF EndsInDomain

LEMMA TrustedTwice ==
  ASSUME NEW h \in Text, Lower(h) = h, normalizeHost(h) = h, NEW td \in Seq(PlainDomains)
  PROVE  IdentityHost(getTrustedDomain(h, td), td) = getTrustedDomain(h, td)
<1>1. td \in Seq(Text) /\ \A i \in 1 .. Len(td) : td[i] \in PlainDomains
  <2>1. PlainDomains \subseteq Text
    BY DEF PlainDomains
  <2> QED
    BY <2>1, SeqMonotonic
<1>2. CASE getTrustedDomain(h, td) = h
  BY <1>2 DEF IdentityHost
<1>3. ASSUME NEW i \in 1 .. Len(td), EndsInDomain(h, td[i]),
             \A j \in 1 .. Len(td) : EndsInDomain(h, td[j]) => i <= j,
             getTrustedDomain(h, td) = Drop(h, Len(h) - Len(td[i]))
      PROVE  IdentityHost(getTrustedDomain(h, td), td) = getTrustedDomain(h, td)
  <2> DEFINE d  == td[i]
             m  == Len(h) - Len(d)
             id == Drop(h, m)
  <2>1. /\ d \in Text /\ d # <<>> /\ Len(d) \in Nat /\ Len(h) \in Nat
        /\ m \in 0 .. Len(h) /\ Lower(id) = Lower(d)
    BY <1>1, <1>3 DEF PlainDomains, EndsInDomain, EqualFold, Text
  <2>2. /\ id \in Text /\ Len(id) = Len(d)
    <3>1. Drop(h, m) \in Text /\ Len(Drop(h, m)) = Len(h) - m
      <4> HIDE DEF m
      <4> QED
        BY <2>1, DropType
    <3>2. Len(h) - m = Len(d)
      BY <2>1
    <3> QED
      BY <3>1, <3>2
  <2>3. Lower(id) = id
    BY <2>1, LowerOfDrop
  <2>4. \A k \in 1 .. Len(d) : id[k] # Colon /\ id[k] # Open
    <3>1. \A k \in 1 .. Len(d) :
            d[k] \in Nat /\ d[k] # Colon /\ d[k] # Open /\ Lower(d)[k] = LowerByte(d[k])
      <4>1. d \in PlainDomains
        BY <1>1
      <4> HIDE DEF d
      <4>2. \A k \in 1 .. Len(d) : Lower(d)[k] = LowerByte(d[k])
        BY <2>1, LowerType
      <4>3. \A k \in 1 .. Len(d) : d[k] \in Nat
        BY <2>1 DEF Text
      <4>4. \A k \in 1 .. Len(d) : d[k] # Colon /\ d[k] # Open
        BY <4>1 DEF PlainDomains
      <4> QED
        BY <4>2, <4>3, <4>4
    <3>2. \A k \in 1 .. Len(d) : Lower(d)[k] # Colon /\ Lower(d)[k] # Open
      BY <3>1, LowerKeepsMarks
    <3> QED
      BY <2>1, <2>3, <3>2
  <2>5. hostWithoutPort(id) = id
    <3>1. CountByte(id, Colon) = 0
      BY <2>2, <2>4, CountFacts
    <3>2. id # <<>> /\ id[1] # Open
      BY <2>1, <2>2, <2>4 DEF Text
    <3> HIDE DEF id
    <3> QED
      BY <3>1, <3>2 DEF hostWithoutPort, nameWithoutPort
  <2>6. normalizeHost(id) = id
    BY <2>3, <2>5 DEF normalizeHost
  <2>7. EndsInDomain(id, d)
    <3>1. Len(id) - Len(d) = 0 /\ Drop(id, 0) = id
      BY <2>1, <2>2, DropNothing
    <3> HIDE DEF id, d
    <3> QED
      BY <2>1, <3>1 DEF EndsInDomain, EqualFold
  <2>8. \A j \in 1 .. Len(td) : EndsInDomain(id, td[j]) => i <= j
    BY <1>1, <1>3, EndsAlike, <2>1
  <2> HIDE DEF id, d, m
  <2>9. getTrustedDomain(id, td) = id
    <3>1. PICK k \in 1 .. Len(td) :
            /\ EndsInDomain(id, td[k])
            /\ \A j \in 1 .. Len(td) : EndsInDomain(id, td[j]) => k <= j
            /\ getTrustedDomain(id, td) = Drop(id, Len(id) - Len(td[k]))
      BY <1>1, <2>2, <2>7, FirstThatFits DEF d
    <3>2. k = i
      BY <2>7, <2>8, <3>1 DEF d
    <3> QED
      BY <2>1, <2>2, <3>1, <3>2, DropNothing DEF d
  <2> QED
    BY <1>3, <2>6, <2>9 DEF IdentityHost, id, d, m
<1> QED
  BY <1>1, <1>2, <1>3, FirstThatFits

(* For every header and every list of domains that look like DNS names.    *)
LEMMA IdentityTwice ==
  ASSUME NEW h \in Text, NEW td \in Seq(PlainDomains)
  PROVE  IdentityHost(IdentityHost(h, td), td) = IdentityHost(h, td)
<1>1. /\ normalizeHost(h) \in Text
      /\ Lower(normalizeHost(h)) = normalizeHost(h)
      /\ normalizeHost(normalizeHost(h)) = normalizeHost(h)
  BY NormalTwice
<1> QED
  BY <1>1, TrustedTwice DEF IdentityHost

------------------------------------------------------------------------------
(* The theorems                                                            *)

LEMMA DomainsType == Domains \in Seq(Text)
BY DEF Domains, Text, Dot

LEMMA DomainsArePlain == Domains \in Seq(PlainDomains)
<1>1. /\ <<>> \in Text /\ <<65, Dot, 122>> \in Text /\ <<122>> \in Text
  BY DEF Text, Dot
<1>2. /\ <<>> \in PlainDomains /\ <<65, Dot, 122>> \in PlainDomains
      /\ <<122>> \in PlainDomains
  BY <1>1 DEF PlainDomains, Dot, Colon, Open
<1> QED
  BY <1>2 DEF Domains

LEMMA PiecesType == Pieces \subseteq Text
<1>1. \A a \in Nat : <<a>> \in Text
  BY DEF Text
<1>2. \A a, b, c, d \in Nat : <<a, b, c, d>> \in Text
  BY DEF Text
<1>3. \A a, b, c, d, e, f \in Nat : <<a, b, c, d, e, f>> \in Text
  BY DEF Text
<1>4. /\ <<97>> \in Text /\ <<65>> \in Text /\ <<122>> \in Text
      /\ <<Dot>> \in Text /\ <<Colon>> \in Text
      /\ <<Open>> \in Text /\ <<Close>> \in Text
  BY <1>1 DEF Dot, Colon, Open, Close
<1>5. <<Colon, 48, 48, 55>> \in Text
  BY <1>2 DEF Colon
<1>6. /\ <<Colon, 54, 53, 53, 51, 53>> \in Text
      /\ <<Colon, 54, 53, 53, 51, 54>> \in Text
  BY <1>3 DEF Colon
<1> QED
  BY <1>4, <1>5, <1>6 DEF Pieces

LEMMA AddressesType == Addresses \subseteq Text
<1> DEFINE S == {49, 50, 51, 52, Dot, Colon, 97}
<1>1. Addresses \subseteq Seq(S)
  BY DEF Addresses
<1>2. S \subseteq Nat
  BY DEF Dot, Colon
<1> QED
  BY <1>1, <1>2, SeqMonotonic DEF Text

HeaderIsText == host \in Text

LEMMA HeaderType == Spec => []HeaderIsText
<1>1. Init => HeaderIsText
  BY DEF Init, HeaderIsText, Text
<1>2. HeaderIsText /\ [Next]_<<host, pieces>> => HeaderIsText'
  <2>1. ASSUME HeaderIsText, NEW p \in Pieces, Extend(p) PROVE HeaderIsText'
    <3>1. host' = host \o p /\ host \in Text /\ p \in Text
      BY <2>1, PiecesType DEF Extend, HeaderIsText
    <3> QED
      BY <3>1, ConcatProperties DEF HeaderIsText, Text
  <2>2. CASE UNCHANGED <<host, pieces>>
    BY <2>2 DEF HeaderIsText
  <2> QED
    BY <2>1, <2>2 DEF Next
<1> QED
  BY <1>1, <1>2, PTL DEF Spec

(* A widget solved on the page itself passes the host name check, for      *)
(* every header and, by NameMatchesIdentity, every list of trusted         *)
(* domains. (captchaHostnameMatches, getTrustedDomain)                     *)
THEOREM PagesMatchThemselves == Spec => []OwnPageMatches
<1>1. HeaderIsText => OwnPageMatches
  BY NameMatchesIdentity, DomainsType DEF HeaderIsText, OwnPageMatches, Name, DNSName
<1> QED
  BY <1>1, HeaderType, PTL

(* A page whose widget passes the check has the identity host or lies      *)
(* under it. (captchaHostnameMatches)                                      *)
THEOREM OnlyPagesUnderItMatch == Spec => []OtherPagesDoNotMatch
<1>1. \A d \in {<<97, Dot, 122>>, <<122>>} : d \in Text /\ Lower(d) = d
  <2> TAKE d \in {<<97, Dot, 122>>, <<122>>}
  <2>1. d \in Text
    <3>1. <<97, Dot, 122>> \in Text /\ <<122>> \in Text
      BY DEF Text, Dot
    <3> QED
      BY <3>1
  <2>2. \A i \in 1 .. Len(d) : d[i] \in {97, 46, 122}
    BY DEF Dot
  <2>3. \A b \in {97, 46, 122} : LowerByte(b) = b
    BY DEF LowerByte, IsUpper
  <2>4. /\ Lower(d) \in Text /\ Len(Lower(d)) = Len(d)
        /\ \A i \in 1 .. Len(d) : Lower(d)[i] = LowerByte(d[i])
    BY <2>1, LowerType
  <2>5. \A i \in 1 .. Len(d) : Lower(d)[i] = d[i]
    BY <2>2, <2>3, <2>4
  <2> QED
    BY <2>1, <2>4, <2>5, SeqEqual DEF Text
<1>2. HeaderIsText => OtherPagesDoNotMatch
  BY <1>1, MatchLiesUnder DEF HeaderIsText, OtherPagesDoNotMatch
<1> QED
  BY <1>2, HeaderType, PTL

(* The browser of every page stores the cookie it is given.                *)
(* (getDomainAttr, getTrustedDomain)                                       *)
THEOREM CookiesAreStored == Spec => []CookieIsStored
<1>1. HeaderIsText => CookieIsStored
  BY DomainIsStored, DomainsType DEF HeaderIsText, CookieIsStored, Name
<1> QED
  BY <1>1, HeaderType, PTL

(* Host and address, hashed without a separator, are told apart unless one *)
(* visitor's host ends in a byte of the other's address. (WriteTo)         *)
THEOREM IdentitiesStayApart == Spec => []IdentitiesAreApart
<1>1. ASSUME NEW h \in Text PROVE IdentityHost(h, Domains) \in Text
  <2> DEFINE low == Lower(hostWithoutPort(h))
  <2>1. low \in Text /\ Len(low) = Len(hostWithoutPort(h))
    BY WithoutPortType, LowerType
  <2>2. PICK start \in 0 .. Len(hostWithoutPort(h)) :
          IdentityHost(h, Domains) = Drop(low, start)
    BY IdentityIsSuffix, DomainsType
  <2> QED
    BY <2>1, <2>2, DropType
<1>2. ASSUME HeaderIsText PROVE IdentitiesAreApart
  <2> DEFINE id == IdentityHost(host, Domains)
  <2>1. id \in Text
    BY <1>1, <1>2 DEF HeaderIsText
  <2>2. ASSUME NEW x \in Addresses, NEW y \in Addresses, NEW n \in 0 .. Len(id \o x)
        PROVE  Take(id \o x, n) \in Text
    <3>1. id \o x \in Text
      BY <2>1, AddressesType, ConcatProperties DEF Text
    <3> QED
      BY <3>1, TakeType
  <2> QED
    BY <2>1, <2>2, AddressesType, HostsAndAddressesAreApart DEF IdentitiesAreApart
<1> QED
  BY <1>2, HeaderType, PTL

(* A port behind a name, and nothing else, is cut off every header.        *)
(* (hostWithoutPort, validPort)                                            *)
THEOREM PortsAndOnlyPortsAreCut == Spec => []PortIsCut
<1>1. HeaderIsText => PortIsCut
  BY PortsAreCut, OnlyPortsAreCut DEF HeaderIsText, PortIsCut
<1> QED
  BY <1>1, HeaderType, PTL

(* The identity host of an identity host is itself, for every header and,  *)
(* by IdentityTwice, every list of trusted domains without a colon or an   *)
(* opening bracket. (normalizeHost, getTrustedDomain)                      *)
THEOREM IdentitiesAreStable == Spec => []IdentityIsStable
<1>1. HeaderIsText => IdentityIsStable
  BY IdentityTwice, DomainsArePlain DEF HeaderIsText, IdentityIsStable
<1> QED
  BY <1>1, HeaderType, PTL
=============================================================================

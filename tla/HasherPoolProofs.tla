-------------------------- MODULE HasherPoolProofs --------------------------
(***************************************************************************)
(* Whatever number of calls runs at once, each pooled object has one user, *)
(* every answer is made of its own request's data, and each call behaves   *)
(* as if it were alone.                                                    *)
(***************************************************************************)
EXTENDS HasherPool, TLAPS

(* What the messages consist of.                                           *)
LEMMA FieldFacts ==
  ASSUME NEW op \in Ops
  PROVE  /\ FieldsOf[op] \in Seq(FieldNames)
         /\ Len(FieldsOf[op]) = IF op = "work" THEN 2 ELSE 4
         /\ FieldsOf[op][1] = IF op = "work" THEN "random" ELSE "host"
         /\ FieldsOf[op][2] = IF op = "work" THEN "nonce" ELSE "addr"
         /\ op # "work" => FieldsOf[op][3] = "level"
         /\ op \in {"check", "mint"} => FieldsOf[op][4] = "exp"
         /\ op \in {"issue", "verify"} => FieldsOf[op][4] = "random"
<1>1. CASE op = "check" BY <1>1 DEF FieldsOf, FieldNames
<1>2. CASE op = "mint" BY <1>2 DEF FieldsOf, FieldNames
<1>3. CASE op = "issue" BY <1>3 DEF FieldsOf, FieldNames
<1>4. CASE op = "verify" BY <1>4 DEF FieldsOf, FieldNames
<1>5. CASE op = "work" BY <1>5 DEF FieldsOf, FieldNames
<1>6. QED BY <1>1, <1>2, <1>3, <1>4, <1>5 DEF Ops

LEMMA MessageFacts ==
  ASSUME NEW op \in Ops, NEW c \in Calls
  PROVE  /\ Message(op, c) \in Seq(Pieces)
         /\ Len(Message(op, c)) = Len(FieldsOf[op])
         /\ \A i \in 1 .. Len(FieldsOf[op]) : Message(op, c)[i] = Piece(FieldsOf[op][i], c)
  BY FieldFacts DEF Message, Pieces, Piece

(* Two calls never have the same message.                                  *)
LEMMA MessagesDiffer ==
  ASSUME NEW op \in Ops, NEW c \in Calls, NEW d \in Calls,
         Message(op, c) = Message(op, d)
  PROVE  c = d
<1>1. Message(op, c)[1] = Message(op, d)[1] /\ 1 \in 1 .. Len(FieldsOf[op])
  BY FieldFacts
<1>2. Piece(FieldsOf[op][1], c) = Piece(FieldsOf[op][1], d)
  BY <1>1, MessageFacts
<1>3. Piece(FieldsOf[op][1], c).of = Piece(FieldsOf[op][1], d).of
  BY <1>2
<1>4. QED BY <1>3 DEF Piece

(* A hasher fed all of a message holds the message.                        *)
LEMMA FedIsMessage ==
  ASSUME NEW c \in Calls, NEW x, x.op \in Ops, NEW fed \in Seq(Pieces),
         FedSoFar(c, x, fed), x.n = Len(FieldsOf[x.op])
  PROVE  fed = Message(x.op, c)
<1>1. Message(x.op, c) \in Seq(Pieces) /\ Len(Message(x.op, c)) = Len(fed)
  BY MessageFacts DEF FedSoFar
<1>2. \A i \in 1 .. Len(fed) : fed[i] = Message(x.op, c)[i]
  BY MessageFacts DEF FedSoFar
<1>3. QED BY <1>1, <1>2

------------------------------------------------------------------------------
(* What a step of one call leaves to the others                            *)

Others(c) ==
  \A d \in Calls \ {c} :
    /\ st'[d] = st[d] /\ held'[d] = held[d]
    /\ \A s \in Slots : held[d][s] # None =>
         /\ content'[held[d][s]] = content[held[d][s]]
         /\ token'[held[d][s]] = token[held[d][s]]
         /\ sum'[held[d][s]] = sum[held[d][s]]

Step(c) ==
  /\ TypeOK' /\ OneUserEach' /\ PooledIsEmpty' /\ AnswerIsOwn'
  /\ CallOK(c, st'[c], held'[c], content', token', sum')
  /\ Others(c)

(* A call sees only the objects it holds.                                  *)
LEMMA SeesOwnObjects ==
  ASSUME NEW d \in Calls, NEW x \in States, NEW mine \in [Slots -> Objects \cup {None}],
         NEW data, NEW tokens, NEW sums, NEW data2, NEW tokens2, NEW sums2,
         CallOK(d, x, mine, data, tokens, sums),
         \A s \in Slots : mine[s] # None =>
           /\ data2[mine[s]] = data[mine[s]]
           /\ tokens2[mine[s]] = tokens[mine[s]]
           /\ sums2[mine[s]] = sums[mine[s]]
  PROVE  CallOK(d, x, mine, data2, tokens2, sums2)
<1>1. Route(d, x) /\ Holding(x, mine) BY DEF CallOK
<1>2. Response(d, x, mine, data2, tokens2)
  BY DEF CallOK, Response, Has, Slots
<1>3. Fed(d, x, mine, data2, sums2)
  <2> DEFINE slot   == IF x.op = "work" THEN "sha" ELSE "hmac"
             hasher == mine[slot]
  <2>1. slot \in Slots BY DEF Slots
  <2>2. /\ x.pc \in {"hash", "filled", "sum"} => hasher # None
        /\ x.pc = "buffer" /\ WritesTo(x.op) => hasher # None
    BY <1>1 DEF Holding, Has, WritesTo
  <2>3. /\ x.pc \in {"hash", "filled"} => data2[hasher] = data[hasher]
        /\ x.pc = "buffer" /\ WritesTo(x.op) => data2[hasher] = data[hasher]
        /\ x.pc = "sum" => sums2[hasher] = sums[hasher]
    BY <2>1, <2>2
  <2>4. \A s \in {"host", "req", "buf"} : Has(mine, s) => data2[mine[s]] = data[mine[s]]
    BY DEF Has, Slots
  <2>5. x.pc = "filled" => Has(mine, "buf")
    BY <1>1 DEF Holding
  <2>6. Fed(d, x, mine, data, sums) BY DEF CallOK
  <2>7. QED BY <2>3, <2>4, <2>5, <2>6 DEF Fed
<1>4. QED BY <1>1, <1>2, <1>3 DEF CallOK

LEMMA OneCallSteps ==
  ASSUME IInv, NEW c \in Calls, Step(c)
  PROVE  IInv'
<1>1. ASSUME NEW d \in Calls, d # c
      PROVE  CallOK(d, st'[d], held'[d], content', token', sum')
  <2>1. st'[d] = st[d] /\ held'[d] = held[d] /\ st[d] \in States
          /\ held[d] \in [Slots -> Objects \cup {None}]
    BY <1>1 DEF Step, Others, IInv, TypeOK
  <2>2. CallOK(d, st[d], held[d], content, token, sum) BY <1>1 DEF IInv
  <2>3. \A s \in Slots : held[d][s] # None =>
           /\ content'[held[d][s]] = content[held[d][s]]
           /\ token'[held[d][s]] = token[held[d][s]]
           /\ sum'[held[d][s]] = sum[held[d][s]]
    BY <1>1 DEF Step, Others
  <2>4. CallOK(d, st[d], held[d], content', token', sum')
    BY <2>1, <2>2, <2>3, SeesOwnObjects
  <2>5. QED BY <2>1, <2>4
<1>2. QED BY <1>1 DEF Step, IInv

------------------------------------------------------------------------------
(* Taking and returning                                                    *)

(* What a call holds came from the pool it says. *)
FromPools == \A d \in Calls, t \in Slots : held[d][t] # None => PoolOf[held[d][t]] = t

LEMMA InvFromPools == IInv => FromPools
  BY DEF IInv, CallOK, Holding, Has, FromPools

LEMMA GetKeepsUsers ==
  ASSUME TypeOK, OneUserEach, NEW c \in Calls, NEW s \in Slots, NEW o \in Objects,
         Get(c, s, o), held[c][s] = None
  PROVE  /\ OneUserEach'
         /\ held' \in [Calls -> [Slots -> Objects \cup {None}]]
         /\ free' \subseteq Objects
         /\ held'[c][s] = o
         /\ \A t \in Slots \ {s} : held'[c][t] = held[c][t]
         /\ \A d \in Calls \ {c} :
              held'[d] = held[d] /\ \A t \in Slots : held[d][t] # o
         /\ \A t \in Slots : held[c][t] # o
  BY PoolAssumption DEF TypeOK, OneUserEach, Get

LEMMA PutKeepsUsers ==
  ASSUME TypeOK, OneUserEach, FromPools, NEW c \in Calls, NEW s \in Slots, NEW also,
         Put(c, s, also)
  PROVE  /\ OneUserEach'
         /\ held' \in [Calls -> [Slots -> Objects \cup {None}]]
         /\ free' \subseteq Objects
         /\ held'[c][s] = None
         /\ \A t \in Slots \ {s} : held'[c][t] = held[c][t]
         /\ \A d \in Calls \ {c} :
              held'[d] = held[d] /\ \A t \in Slots : held[d][t] # held[c][s]
         /\ held[c][s] \in Objects
<1> DEFINE o == held[c][s]
<1>1. o \in Objects /\ o # None /\ o \notin free
  BY DEF TypeOK, Put, OneUserEach
<1>2. /\ held' \in [Calls -> [Slots -> Objects \cup {None}]]
      /\ free' = free \cup {o}
      /\ held'[c][s] = None
      /\ \A t \in Slots \ {s} : held'[c][t] = held[c][t]
      /\ \A d \in Calls \ {c} : held'[d] = held[d]
  BY DEF TypeOK, Put
<1>3. \A d \in Calls, t \in Slots : held[d][t] = o => d = c /\ t = s
  BY <1>1 DEF OneUserEach, FromPools
<1>4. OneUserEach' BY <1>1, <1>2, <1>3, PoolAssumption DEF OneUserEach
<1>5. QED BY <1>1, <1>2, <1>3, <1>4 DEF TypeOK

------------------------------------------------------------------------------
(* One lemma per operation                                                 *)

LEMMA Own ==
  ASSUME IInv, NEW c \in Calls
  PROVE  /\ TypeOK /\ OneUserEach /\ PooledIsEmpty /\ FromPools
         /\ st[c] \in States /\ held[c] \in [Slots -> Objects \cup {None}]
         /\ Route(c, st[c]) /\ Holding(st[c], held[c])
         /\ Fed(c, st[c], held[c], content, sum)
         /\ Response(c, st[c], held[c], content, token)
  BY InvFromPools DEF IInv, TypeOK, CallOK

(* The step changes the data of objects in mine only.                      *)
Touches(mine) ==
  \A p \in Objects : (\A s \in Slots : mine[s] # p) =>
     content'[p] = content[p] /\ token'[p] = token[p] /\ sum'[p] = sum[p]

(* The call c is at y now, the others where they were.                     *)
Moves(c, y) ==
  /\ y \in States
  /\ st' \in [Calls -> States]
  /\ st'[c] = y
  /\ \A d \in Calls \ {c} : st'[d] = st[d]

Typed ==
  /\ content' \in [Objects -> Seq(Pieces)]
  /\ token' \in [Objects -> Seq(Pieces)]
  /\ sum' \in [Objects -> Seq(Pieces)]

LEMMA Apart ==
  ASSUME TypeOK, OneUserEach, FromPools, NEW c \in Calls, NEW d \in Calls \ {c},
         NEW s \in Slots, held[d][s] # None
  PROVE  /\ held[d][s] \in Objects \ free
         /\ \A t \in Slots : held[c][t] # held[d][s]
<1>1. held[d][s] \in Objects BY DEF TypeOK
<1>2. ASSUME NEW t \in Slots, held[c][t] = held[d][s] PROVE FALSE
  <2>1. t = s BY <1>1, <1>2 DEF FromPools
  <2>2. QED BY <1>1, <1>2, <2>1 DEF OneUserEach
<1>3. QED BY <1>1, <1>2 DEF OneUserEach

(* A step that neither takes nor returns an object.                        *)
LEMMA Working ==
  ASSUME IInv, NEW c \in Calls, NEW y, UNCHANGED <<held, free>>, answer' = NoAnswer,
         Moves(c, y), Typed, Touches(held[c]),
         Route(c, y), Holding(y, held[c]), Fed(c, y, held[c], content', sum'),
         Response(c, y, held[c], content', token')
  PROVE  Step(c)
<1>1. TypeOK' BY DEF IInv, TypeOK, Moves, Typed
<1>2. OneUserEach' BY DEF IInv, OneUserEach
<1>3. PooledIsEmpty'
  <2>1. \A p \in free : p \in Objects /\ \A s \in Slots : held[c][s] # p
    BY Own DEF OneUserEach, TypeOK
  <2>2. QED BY <2>1, Own DEF PooledIsEmpty, Touches
<1>4. AnswerIsOwn' BY DEF AnswerIsOwn, NoAnswer
<1>5. Others(c)
  BY Own, Apart DEF Others, Moves, Touches
<1>6. QED BY <1>1, <1>2, <1>3, <1>4, <1>5 DEF Step, CallOK, Moves

(* A step that takes an object: what it changes is what it holds then.     *)
LEMMA Taking ==
  ASSUME IInv, NEW c \in Calls, NEW y, NEW s \in Slots, NEW o \in Objects,
         Get(c, s, o), held[c][s] = None, answer' = NoAnswer,
         Moves(c, y), Typed, Touches(held'[c]),
         Route(c, y), Holding(y, held'[c]), Fed(c, y, held'[c], content', sum'),
         Response(c, y, held'[c], content', token')
  PROVE  Step(c)
<1>1. /\ OneUserEach'
      /\ held' \in [Calls -> [Slots -> Objects \cup {None}]]
      /\ free' \subseteq Objects
      /\ held'[c][s] = o
      /\ \A t \in Slots \ {s} : held'[c][t] = held[c][t]
      /\ \A d \in Calls \ {c} : held'[d] = held[d] /\ \A t \in Slots : held[d][t] # o
      /\ \A t \in Slots : held[c][t] # o
  BY Own, GetKeepsUsers
<1>2. TypeOK' BY <1>1 DEF IInv, TypeOK, Moves, Typed
<1>3. PooledIsEmpty'
  <2>1. \A p \in free' : p \in free /\ p \in Objects /\ \A t \in Slots : held'[c][t] # p
    BY <1>1 DEF OneUserEach, Get
  <2>2. QED BY <2>1, Own DEF PooledIsEmpty, Touches
<1>4. AnswerIsOwn' BY DEF AnswerIsOwn, NoAnswer
<1>5. Others(c)
  <2>1. ASSUME NEW d \in Calls \ {c}, NEW t \in Slots, held[d][t] # None
        PROVE  held[d][t] \in Objects /\ \A u \in Slots : held'[c][u] # held[d][t]
    BY <1>1, <2>1, Own, Apart
  <2>2. QED BY <1>1, <2>1 DEF Others, Moves, Touches
<1>6. QED BY <1>1, <1>2, <1>3, <1>4, <1>5 DEF Step, CallOK, Moves

(* A step that returns an object, and may empty others it holds.           *)
LEMMA Returning ==
  ASSUME IInv, NEW c \in Calls, NEW y, NEW s \in Slots, NEW also,
         Put(c, s, also), answer' = NoAnswer, Moves(c, y),
         \A p \in also : \E t \in Slots : held[c][t] = p,
         Route(c, y), Holding(y, held'[c]), Fed(c, y, held'[c], content', sum'),
         Response(c, y, held'[c], content', token')
  PROVE  Step(c)
<1>1. /\ OneUserEach'
      /\ held' \in [Calls -> [Slots -> Objects \cup {None}]]
      /\ free' \subseteq Objects
      /\ held'[c][s] = None
      /\ \A t \in Slots \ {s} : held'[c][t] = held[c][t]
      /\ \A d \in Calls \ {c} :
           held'[d] = held[d] /\ \A t \in Slots : held[d][t] # held[c][s]
      /\ held[c][s] \in Objects
  BY Own, PutKeepsUsers
<1>2. <<>> \in Seq(Pieces) OBVIOUS
<1>3. TypeOK' BY <1>1, <1>2 DEF IInv, TypeOK, Moves, Put
<1>4. PooledIsEmpty'
  BY <1>1, Own DEF PooledIsEmpty, TypeOK, Put
<1>5. AnswerIsOwn' BY DEF AnswerIsOwn, NoAnswer
<1>6. Touches(held[c])
  BY <1>1, Own DEF Touches, Put, TypeOK
<1>7. Others(c)
  BY <1>1, <1>6, Own, Apart DEF Others, Moves, Touches
<1>8. QED BY <1>1, <1>3, <1>4, <1>5, <1>7 DEF Step, CallOK, Moves

(* What Get and Put do to the holdings.                                    *)
LEMMA Gotten ==
  ASSUME TypeOK, NEW c \in Calls, NEW s \in Slots, NEW o \in Objects, Get(c, s, o)
  PROVE  /\ held'[c][s] = o /\ PoolOf[o] = s /\ o # None /\ o \in free
         /\ \A t \in Slots \ {s} : held'[c][t] = held[c][t]
  BY PoolAssumption DEF TypeOK, Get

LEMMA Given ==
  ASSUME TypeOK, NEW c \in Calls, NEW s \in Slots, NEW also, Put(c, s, also)
  PROVE  /\ held'[c][s] = None
         /\ \A t \in Slots \ {s} : held'[c][t] = held[c][t]
         /\ held[c][s] \in Objects
  BY DEF TypeOK, Put

LEMMA Begins ==
  ASSUME IInv, NEW c \in Calls, NEW kind \in Kinds, NEW shown \in Calls,
         NEW o \in Objects, Start(c, kind, shown, o)
  PROVE  Step(c)
<1> DEFINE x == st[c]
           y == [pc |-> IF kind = "validate" THEN "buffer" ELSE "request",
                 kind |-> kind, shown |-> shown, op |-> FirstOp[kind], n |-> 0,
                 ok |-> FALSE]
<1>1. "host" \in Slots BY DEF Slots
<1>2. held[c]["host"] = None /\ Get(c, "host", o) /\ x.pc = "idle"
  BY Own DEF Start, At, Holding, Has
<1>3. /\ held'[c]["host"] = o /\ PoolOf[o] = "host" /\ o # None
      /\ \A t \in Slots \ {"host"} : held'[c][t] = held[c][t]
      /\ o \in free
  <2>1. TypeOK BY DEF IInv
  <2>2. QED BY <1>1, <1>2, <2>1, Gotten
<1>4. Moves(c, y)
  BY Own DEF Start, TypeOK, States, Stages, FirstOp, Kinds, Ops, Moves
<1>5. content' = [content EXCEPT ![o] = <<Piece("host", c)>>]
  <2>1. content[o] = <<>> BY <1>3, Own DEF PooledIsEmpty
  <2>2. Append(<<>>, Piece("host", c)) = <<Piece("host", c)>> OBVIOUS
  <2>3. QED BY <2>1, <2>2 DEF Start
<1>6. Typed
  <2>1. <<Piece("host", c)>> \in Seq(Pieces) BY DEF Pieces, Piece, FieldNames
  <2>2. QED BY <1>5, <2>1, Own DEF Start, Typed, TypeOK
<1>7. Touches(held'[c])
  BY <1>1, <1>3, <1>5, Own DEF Touches, Start, TypeOK
<1>8. Route(c, y)
  BY DEF Route, FirstOp, Kinds
<1>9. Holding(y, held'[c])
  BY <1>2, <1>3, Own DEF Holding, Has, Slots, HoldsBuffer, WritesTo, FirstOp, Kinds
<1>10. /\ Fed(c, y, held'[c], content', sum')
       /\ Response(c, y, held'[c], content', token')
  <2>1. /\ y.pc \in {"buffer", "request"} /\ ~(y.pc = "buffer" /\ WritesTo(y.op))
        /\ ~Has(held'[c], "req") /\ ~Has(held'[c], "resp")
    BY <1>9 DEF Holding, WritesTo, FirstOp, Kinds
  <2>2. content'[held'[c]["host"]] = <<Piece("host", c)>>
    BY <1>3, <1>5, Own DEF TypeOK
  <2>3. QED BY <2>1, <2>2 DEF Fed, Response
<1>11. answer' = NoAnswer BY DEF Start
<1>12. QED BY <1>1, <1>2, <1>4, <1>6, <1>7, <1>8, <1>9, <1>10, <1>11, Taking

(* A step to another stage of the same call. *)
LEMMA Going ==
  ASSUME TypeOK, NEW c \in Calls, NEW pc \in Stages, Goto(c, pc)
  PROVE  Moves(c, [st[c] EXCEPT !.pc = pc])
  BY DEF TypeOK, Goto, Moves, States

LEMMA TakesRequest ==
  ASSUME IInv, NEW c \in Calls, NEW o \in Objects, AcquireValidatorRequest(c, o)
  PROVE  Step(c)
<1> DEFINE x == st[c]
           y == [x EXCEPT !.pc = "response"]
<1>1. "req" \in Slots /\ TypeOK BY DEF Slots, IInv
<1>2. x.pc = "request" /\ held[c]["req"] = None /\ Get(c, "req", o)
  BY Own DEF AcquireValidatorRequest, At, Holding, Has
<1>3. /\ held'[c]["req"] = o /\ PoolOf[o] = "req" /\ o # None /\ o \in free
      /\ \A t \in Slots \ {"req"} : held'[c][t] = held[c][t]
  BY <1>1, <1>2, Gotten
<1>4. Moves(c, y) BY <1>1, Going DEF AcquireValidatorRequest, Stages
<1>5. Typed
  <2>1. <<Piece("identifier", c)>> \in Seq(Pieces) BY DEF Pieces, Piece, FieldNames
  <2>2. QED BY <2>1, <1>1 DEF AcquireValidatorRequest, Typed, TypeOK
<1>6. Touches(held'[c])
  BY <1>1, <1>3 DEF Touches, AcquireValidatorRequest, TypeOK
<1>7. y = [pc |-> "response", kind |-> x.kind, shown |-> x.shown, op |-> x.op,
           n |-> x.n, ok |-> x.ok]
  BY Own DEF States
<1>8. Route(c, y) BY <1>2, <1>7, Own DEF Route
<1>9. Holding(y, held'[c])
  BY <1>2, <1>3, <1>7, Own DEF Holding, Has, Slots, Route
<1>10. Fed(c, y, held'[c], content', sum')
  <2>1. content'[o] = <<Piece("identifier", c)>>
    BY <1>1 DEF AcquireValidatorRequest, TypeOK
  <2>2. held[c]["host"] # o /\ held'[c]["host"] = held[c]["host"]
    BY <1>2, <1>3, Own DEF FromPools, Slots
  <2>3. content'[held'[c]["host"]] = content[held[c]["host"]]
    BY <1>1, <2>2 DEF AcquireValidatorRequest, TypeOK
  <2>4. content[held[c]["host"]] = <<Piece("host", c)>>
    BY <1>2, Own DEF Fed, Holding
  <2>5. QED BY <1>3, <1>7, <2>1, <2>3, <2>4 DEF Fed
<1>11. Response(c, y, held'[c], content', token')
  BY <1>7, <1>9 DEF Response, Holding
<1>12. answer' = NoAnswer BY DEF AcquireValidatorRequest
<1>13. QED
  BY <1>1, <1>2, <1>4, <1>5, <1>6, <1>8, <1>9, <1>10, <1>11, <1>12, Taking

LEMMA TakesResponse ==
  ASSUME IInv, NEW c \in Calls, NEW o \in Objects, AcquireValidatorResponse(c, o)
  PROVE  Step(c)
<1> DEFINE x == st[c]
           pc == CASE x.kind = "refuse" -> "answer"
                   [] x.kind = "grant"  -> "buffer"
                   [] OTHER             -> "hasher"
           y == [x EXCEPT !.pc = pc]
<1>1. "resp" \in Slots /\ TypeOK BY DEF Slots, IInv
<1>2. x.pc = "response" /\ held[c]["resp"] = None /\ Get(c, "resp", o)
  BY Own DEF AcquireValidatorResponse, At, Holding, Has
<1>3. /\ held'[c]["resp"] = o /\ PoolOf[o] = "resp" /\ o # None /\ o \in free
      /\ \A t \in Slots \ {"resp"} : held'[c][t] = held[c][t]
  BY <1>1, <1>2, Gotten
<1>4. pc \in Stages /\ Moves(c, y)
  BY <1>1, Going DEF AcquireValidatorResponse, Stages
<1>5. Typed /\ Touches(held'[c])
  BY <1>1 DEF AcquireValidatorResponse, Typed, Touches, TypeOK
<1>6. y = [pc |-> pc, kind |-> x.kind, shown |-> x.shown, op |-> x.op,
           n |-> x.n, ok |-> x.ok]
  BY Own DEF States
<1>7. /\ x.kind \in {"refuse", "grant", "get", "post"} /\ x.n = 0
      /\ x.op = FirstOp[x.kind]
  BY <1>2, Own DEF Route, States, Kinds
<1>8. Route(c, y)
  BY <1>2, <1>6, <1>7, Own DEF Route, FirstOp, States
<1>9. Holding(y, held'[c])
  BY <1>2, <1>3, <1>6, <1>7, Own DEF Holding, Has, Slots, FirstOp, HoldsBuffer, WritesTo
<1>10. /\ Fed(c, y, held'[c], content', sum')
       /\ content' = content /\ token' = token
  <2>1. content' = content /\ token' = token BY DEF AcquireValidatorResponse
  <2>2. /\ held'[c]["host"] = held[c]["host"] /\ held'[c]["req"] = held[c]["req"]
        /\ held'[c]["buf"] = held[c]["buf"]
    BY <1>3 DEF Slots
  <2>3. ~Has(held[c], "buf")
    BY <1>2, Own DEF Holding
  <2>4. ~(y.pc = "buffer" /\ WritesTo(y.op)) /\ y.pc \notin {"hash", "filled", "sum"}
    BY <1>6, <1>7 DEF WritesTo, FirstOp
  <2>5. QED BY <1>2, <2>1, <2>2, <2>3, <2>4, Own DEF Fed, Has
<1>11. Response(c, y, held'[c], content', token')
  <2>1. content[o] = <<>> /\ token[o] = <<>> BY <1>3, Own DEF PooledIsEmpty
  <2>2. QED BY <1>3, <1>6, <1>7, <1>10, <2>1 DEF Response, FirstOp
<1>12. answer' = NoAnswer BY DEF AcquireValidatorResponse
<1>13. QED
  BY <1>1, <1>2, <1>4, <1>5, <1>8, <1>9, <1>10, <1>11, <1>12, Taking

LEMMA TakesBuffer ==
  ASSUME IInv, NEW c \in Calls, NEW o \in Objects, AcquireCookieBuffer(c, o)
  PROVE  Step(c)
<1> DEFINE x == st[c]
           pc == IF HoldsBuffer(x.op) THEN "hasher" ELSE "hash"
           y == [x EXCEPT !.pc = pc]
<1>1. "buf" \in Slots /\ TypeOK BY DEF Slots, IInv
<1>2. /\ x.pc = "buffer" /\ held[c]["buf"] = None /\ Get(c, "buf", o)
      /\ x.op \in {"check", "mint", "issue", "verify"} /\ x.n = 0
  BY Own DEF AcquireCookieBuffer, At, Holding, Has, Route, States, Ops
<1>3. /\ held'[c]["buf"] = o /\ PoolOf[o] = "buf" /\ o # None /\ o \in free
      /\ \A t \in Slots \ {"buf"} : held'[c][t] = held[c][t]
  BY <1>1, <1>2, Gotten
<1>4. pc \in Stages /\ Moves(c, y)
  BY <1>1, Going DEF AcquireCookieBuffer, Stages
<1>5. /\ Typed /\ Touches(held'[c])
      /\ content' = content /\ token' = token /\ answer' = NoAnswer
  BY <1>1 DEF AcquireCookieBuffer, Typed, Touches, TypeOK
<1>6. y = [pc |-> pc, kind |-> x.kind, shown |-> x.shown, op |-> x.op,
           n |-> x.n, ok |-> x.ok]
  BY Own DEF States
<1>7. Route(c, y)
  BY <1>2, <1>6, Own, FieldFacts DEF Route, Ops, States
<1>8. Holding(y, held'[c])
  BY <1>2, <1>3, <1>6, Own DEF Holding, Has, Slots, HoldsBuffer, WritesTo
<1>9. Fed(c, y, held'[c], content', sum')
  <2>1. content[o] = <<>> BY <1>3, Own DEF PooledIsEmpty
  <2>2. \A t \in {"host", "req", "hmac", "sha"} : held'[c][t] = held[c][t]
    BY <1>3 DEF Slots
  <2>3. pc = "hash" => FedSoFar(c, y, content[held[c]["hmac"]])
    <3>1. pc = "hash" => content[held[c]["hmac"]] = <<>>
      BY <1>2, Own DEF Fed, WritesTo, HoldsBuffer
    <3>2. FedSoFar(c, y, <<>>) BY <1>2, <1>6 DEF FedSoFar
    <3>3. QED BY <3>1, <3>2
  <2>4. QED BY <1>2, <1>3, <1>5, <1>6, <2>1, <2>2, <2>3, Own DEF Fed, Has
<1>10. Response(c, y, held'[c], content', token')
  <2>1. held'[c]["resp"] = held[c]["resp"] BY <1>3 DEF Slots
  <2>2. Response(c, x, held[c], content, token) BY Own
  <2>3. x.kind = "get" => pc = "hash"
    BY <1>2, Own DEF Route, HoldsBuffer
  <2>4. QED BY <1>2, <1>5, <1>6, <2>1, <2>2, <2>3 DEF Response, Has
<1>11. QED
  BY <1>1, <1>2, <1>4, <1>5, <1>7, <1>8, <1>9, <1>10, Taking

LEMMA TakesHMAC ==
  ASSUME IInv, NEW c \in Calls, NEW o \in Objects, AcquireHMAC(c, o)
  PROVE  Step(c)
<1> DEFINE x == st[c]
           pc == IF HoldsBuffer(x.op) THEN "hash" ELSE "buffer"
           y == [x EXCEPT !.pc = pc]
           r == held[c]["resp"]
<1>1. "hmac" \in Slots /\ "resp" \in Slots /\ TypeOK BY DEF Slots, IInv
<1>2. /\ x.pc = "hasher" /\ held[c]["hmac"] = None /\ Get(c, "hmac", o)
      /\ x.op \in {"check", "mint", "issue", "verify"} /\ x.n = 0
  BY Own DEF AcquireHMAC, At, Holding, Has, Route, States, Ops
<1>3. /\ held'[c]["hmac"] = o /\ PoolOf[o] = "hmac" /\ o # None /\ o \in free
      /\ \A t \in Slots \ {"hmac"} : held'[c][t] = held[c][t] /\ held[c][t] # o
  <2>1. \A t \in Slots \ {"hmac"} : held[c][t] # o
    <3>1. o # None /\ PoolOf[o] = "hmac"
      BY <1>2, PoolAssumption DEF Get
    <3>2. QED BY <1>1, <3>1, Own DEF FromPools
  <2>2. QED BY <1>1, <1>2, <2>1, Gotten
<1>4. pc \in Stages /\ Moves(c, y)
  BY <1>1, Going DEF AcquireHMAC, Stages
<1>5. token' = token /\ sum' = sum /\ answer' = NoAnswer
  BY DEF AcquireHMAC
<1>6. y = [pc |-> pc, kind |-> x.kind, shown |-> x.shown, op |-> x.op,
           n |-> x.n, ok |-> x.ok]
  BY Own DEF States
<1>7. x.op = "issue" => x.kind = "get" /\ r \in Objects /\ content[r] = <<>>
  <2>1. SUFFICES ASSUME x.op = "issue" PROVE x.kind = "get" /\ r \in Objects /\ content[r] = <<>>
    OBVIOUS
  <2>2. x.kind = "get"
    BY <1>2, <2>1, Own DEF Route, States, Kinds, FirstOp
  <2>3. Has(held[c], "resp") BY <1>2, <2>2, Own DEF Holding
  <2>4. QED BY <1>1, <1>2, <2>2, <2>3, Own DEF Response, Has
<1>8. /\ content' = IF x.op = "issue" THEN [content EXCEPT ![r] = <<Piece("random", c)>>]
                    ELSE content
  <2>1. Append(<<>>, Piece("random", c)) = <<Piece("random", c)>> OBVIOUS
  <2>2. QED BY <1>7, <2>1 DEF AcquireHMAC
<1>9. Typed
  <2>1. <<Piece("random", c)>> \in Seq(Pieces) BY DEF Pieces, Piece, FieldNames
  <2>2. QED BY <1>1, <1>5, <1>8, <2>1 DEF Typed, TypeOK
<1>10. Touches(held'[c])
  BY <1>1, <1>3, <1>5, <1>8 DEF Touches, TypeOK
<1>11. Route(c, y)
  <2>1. Len(FieldsOf[x.op]) = 4 BY <1>2, FieldFacts DEF Ops
  <2>2. y.pc \in {"hash", "buffer"} /\ y.op = x.op /\ y.n = 0 /\ y.kind = x.kind
          /\ y.shown = x.shown /\ y.ok = x.ok
    BY <1>2, <1>6
  <2>3. x.kind # "refuse" BY <1>2, Own DEF Route
  <2>4. QED BY <1>2, <2>1, <2>2, <2>3, Own DEF Route
<1>12. Holding(y, held'[c])
  BY <1>2, <1>3, <1>6, Own DEF Holding, Has, Slots, HoldsBuffer, WritesTo
<1>13. Fed(c, y, held'[c], content', sum')
  <2>1. content'[o] = <<>>
    <3>1. content[o] = <<>> BY <1>3, Own DEF PooledIsEmpty
    <3>2. QED BY <1>1, <1>3, <1>8, <3>1 DEF TypeOK
  <2>2. \A t \in {"host", "req", "buf"} : Has(held[c], t) =>
           content'[held'[c][t]] = content[held[c][t]] /\ held'[c][t] = held[c][t]
    <3>1. \A t \in {"host", "req", "buf"} : Has(held[c], t) => held[c][t] # r \/ ~Has(held[c], "resp")
      BY Own DEF FromPools, Has, Slots
    <3>2. x.op = "issue" => Has(held[c], "resp")
      BY <1>7, PoolAssumption DEF Has
    <3>3. QED BY <1>1, <1>3, <1>8, <3>1, <3>2 DEF Slots, TypeOK
  <2>3. \A t \in {"host", "req", "buf"} : held'[c][t] = held[c][t]
    BY <1>3 DEF Slots
  <2>4. FedSoFar(c, y, <<>>) BY <1>2, <1>6 DEF FedSoFar
  <2>5. QED BY <1>2, <1>3, <1>6, <2>1, <2>2, <2>3, <2>4, Own DEF Fed, Has
<1>14. Response(c, y, held'[c], content', token')
  <2>1. held'[c]["resp"] = r BY <1>1, <1>3
  <2>2. Response(c, x, held[c], content, token) BY Own
  <2>3. x.kind = "get" <=> x.op = "issue"
    BY <1>2, Own DEF Route, States, Kinds
  <2>4. x.kind = "get" => content'[r] = <<Piece("random", c)>> /\ pc = "buffer"
    BY <1>1, <1>7, <1>8, <2>3 DEF TypeOK, HoldsBuffer
  <2>5. x.kind # "get" => content' = content
    BY <1>8, <2>3
  <2>6. QED BY <1>2, <1>5, <1>6, <2>1, <2>2, <2>4, <2>5 DEF Response, Has
<1>15. QED
  BY <1>1, <1>2, <1>4, <1>5, <1>9, <1>10, <1>11, <1>12, <1>13, <1>14, Taking

LEMMA TakesSHA ==
  ASSUME IInv, NEW c \in Calls, NEW o \in Objects, AcquireSHA256(c, o)
  PROVE  Step(c)
<1> DEFINE x == st[c]
           y == [x EXCEPT !.pc = "hash"]
<1>1. "sha" \in Slots /\ TypeOK BY DEF Slots, IInv
<1>2. /\ x.pc = "hasher" /\ held[c]["sha"] = None /\ Get(c, "sha", o)
      /\ x.op = "work" /\ x.n = 0 /\ x.kind = "post"
  BY Own DEF AcquireSHA256, At, Holding, Has, Route, States, Kinds
<1>3. /\ held'[c]["sha"] = o /\ PoolOf[o] = "sha" /\ o # None /\ o \in free
      /\ \A t \in Slots \ {"sha"} : held'[c][t] = held[c][t]
  BY <1>1, <1>2, Gotten
<1>4. Moves(c, y) BY <1>1, Going DEF AcquireSHA256, Stages
<1>5. /\ Typed /\ Touches(held'[c])
      /\ content' = content /\ token' = token /\ answer' = NoAnswer
  BY <1>1 DEF AcquireSHA256, Typed, Touches, TypeOK
<1>6. y = [pc |-> "hash", kind |-> x.kind, shown |-> x.shown, op |-> x.op,
           n |-> x.n, ok |-> x.ok]
  BY Own DEF States
<1>7. Route(c, y) BY <1>2, <1>6, Own, FieldFacts DEF Route, Ops
<1>8. Holding(y, held'[c])
  BY <1>2, <1>3, <1>6, Own DEF Holding, Has, Slots, HoldsBuffer, WritesTo
<1>9. Fed(c, y, held'[c], content', sum')
  <2>1. content[o] = <<>> BY <1>3, Own DEF PooledIsEmpty
  <2>2. \A t \in {"host", "req", "buf"} : held'[c][t] = held[c][t]
    BY <1>3 DEF Slots
  <2>3. FedSoFar(c, y, <<>>) BY <1>2, <1>6 DEF FedSoFar
  <2>4. QED BY <1>2, <1>3, <1>5, <1>6, <2>1, <2>2, <2>3, Own DEF Fed, Has
<1>10. Response(c, y, held'[c], content', token')
  <2>1. held'[c]["resp"] = held[c]["resp"] BY <1>3 DEF Slots
  <2>2. QED BY <1>2, <1>5, <1>6, <2>1, Own DEF Response, Has
<1>11. QED
  BY <1>1, <1>2, <1>4, <1>5, <1>7, <1>8, <1>9, <1>10, Taking

------------------------------------------------------------------------------
(* Hashing                                                                 *)

LEMMA Distinct ==
  ASSUME IInv, NEW c \in Calls, NEW s \in Slots, NEW t \in Slots, s # t,
         held[c][s] # None
  PROVE  held[c][s] \in Objects /\ held[c][t] # held[c][s]
  BY Own DEF FromPools

(* While it hashes, a call holds the hasher it writes to.                  *)
LEMMA OwnHasher ==
  ASSUME IInv, NEW c \in Calls, st[c].pc \in {"hash", "filled", "sum"}
  PROVE  /\ Hasher(c) \in Objects /\ Hasher(c) # None
         /\ Hasher(c) = held[c][IF st[c].op = "work" THEN "sha" ELSE "hmac"]
         /\ \E s \in Slots : held[c][s] = Hasher(c)
         /\ \A s \in {"host", "req", "resp", "buf"} : held[c][s] # Hasher(c)
<1>1. "sha" \in Slots /\ "hmac" \in Slots /\ {"host", "req", "resp", "buf"} \subseteq Slots
  BY DEF Slots
<1>2. Hasher(c) # None BY Own DEF Hasher, Holding, Has
<1>3. QED BY <1>1, <1>2, Distinct DEF Hasher

LEMMA OwnIdentity ==
  ASSUME IInv, NEW c \in Calls, st[c].pc \in {"hash", "filled", "sum"}
  PROVE  /\ Identity(c) = c
         /\ content[held[c]["host"]] = <<Piece("host", c)>>
<1>1. Has(held[c], "req") => content[held[c]["req"]] = <<Piece("identifier", c)>>
  BY Own DEF Fed
<1>2. Identity(c) = c BY <1>1 DEF Identity, Has, Piece
<1>3. QED BY <1>2, Own DEF Fed, Holding

LEMMA Feeding ==
  ASSUME NEW c \in Calls, NEW x \in States, NEW y, y.op = x.op, y.n = x.n + 1,
         NEW fed \in Seq(Pieces), FedSoFar(c, x, fed),
         NEW p, p = Piece(FieldsOf[x.op][x.n + 1], c)
  PROVE  FedSoFar(c, y, fed \o <<p>>)
<1>1. Len(fed) = x.n /\ x.n \in Nat BY DEF FedSoFar, States
<1>2. Len(fed \o <<p>>) = x.n + 1 BY <1>1
<1>3. ASSUME NEW i \in 1 .. x.n + 1
      PROVE  (fed \o <<p>>)[i] = Piece(FieldsOf[x.op][i], c)
  <2>1. CASE i = x.n + 1 BY <1>1, <2>1
  <2>2. CASE i # x.n + 1
    <3>1. i \in 1 .. x.n BY <1>1, <2>2
    <3>2. (fed \o <<p>>)[i] = fed[i] BY <1>1, <3>1
    <3>3. QED BY <3>1, <3>2 DEF FedSoFar
  <2>3. QED BY <2>1, <2>2
<1>4. QED BY <1>2, <1>3 DEF FedSoFar

(* The fields of a message have names.                                     *)
LEMMA NextFieldFacts ==
  ASSUME NEW c \in Calls, st[c] \in States, More(c)
  PROVE  /\ NextField(c) \in FieldNames
         /\ Piece(NextField(c), c) \in Pieces
         /\ st[c].n + 1 \in 1 .. Len(FieldsOf[st[c].op])
         /\ st[c].n + 1 \in 0 .. 4
<1>1. st[c].op \in Ops /\ st[c].n \in Nat BY DEF States
<1>2. st[c].n + 1 \in 1 .. Len(FieldsOf[st[c].op]) BY <1>1, FieldFacts DEF More
<1>3. NextField(c) \in FieldNames
  BY <1>1, <1>2, FieldFacts DEF NextField
<1>4. QED BY <1>1, <1>2, <1>3, FieldFacts DEF Pieces, Piece

LEMMA Becoming ==
  ASSUME TypeOK, NEW c \in Calls, NEW pc \in Stages, NEW op \in Ops, NEW n \in 0 .. 4,
         NEW ok \in BOOLEAN, Becomes(c, pc, op, n, ok)
  PROVE  Moves(c, [pc |-> pc, kind |-> st[c].kind, shown |-> st[c].shown,
                   op |-> op, n |-> n, ok |-> ok])
  BY DEF TypeOK, Becomes, Moves, States

LEMMA WritesDirect ==
  ASSUME IInv, NEW c \in Calls, WriteDirect(c)
  PROVE  Step(c)
<1> DEFINE x == st[c]
           y == [pc |-> "hash", kind |-> x.kind, shown |-> x.shown, op |-> x.op,
                 n |-> x.n + 1, ok |-> x.ok]
           h == Hasher(c)
           p == Piece(NextField(c), c)
<1>1. x.pc = "hash" /\ More(c) /\ TypeOK /\ x \in States /\ x.op \in Ops
  BY Own DEF WriteDirect, At, States
<1>2. UNCHANGED <<held, free, token, sum>> /\ answer' = NoAnswer
  BY DEF WriteDirect
<1>3. y = [pc |-> x.pc, kind |-> x.kind, shown |-> x.shown, op |-> x.op,
           n |-> x.n + 1, ok |-> x.ok]
  BY <1>1
<1>4. Moves(c, y)
  <2>1. Becomes(c, "hash", x.op, x.n + 1, x.ok) BY DEF WriteDirect
  <2>2. x.n + 1 \in 0 .. 4 /\ "hash" \in Stages /\ x.ok \in BOOLEAN
    BY <1>1, NextFieldFacts DEF States, Stages
  <2>3. QED BY <1>1, <2>1, <2>2, Becoming
<1>5. Direct(c) = <<p>>
  <2>1. CASE NextField(c) = "host" BY <2>1, <1>1, OwnIdentity DEF Direct
  <2>2. CASE NextField(c) = "random" /\ x.op = "issue"
    <3>1. x.kind = "get" BY <1>1, <2>2, Own DEF Route, States, Kinds
    <3>2. content[held[c]["resp"]] = <<Piece("random", c)>>
      BY <1>1, <3>1, Own DEF Response, Holding
    <3>3. Head(<<Piece("random", c)>>) = Piece("random", c) OBVIOUS
    <3>4. QED BY <2>2, <3>2, <3>3 DEF Direct
  <2>3. CASE NextField(c) # "host" /\ ~(NextField(c) = "random" /\ x.op = "issue")
    BY <2>3 DEF Direct
  <2>4. QED BY <2>1, <2>2, <2>3
<1>6. content' = [content EXCEPT ![h] = @ \o <<p>>] /\ h \in Objects
  BY <1>1, <1>5, OwnHasher DEF WriteDirect
<1>7. Typed
  <2>1. content[h] \o <<p>> \in Seq(Pieces)
    BY <1>1, <1>6, NextFieldFacts DEF TypeOK
  <2>2. QED BY <1>1, <1>2, <1>6, <2>1 DEF Typed, TypeOK
<1>8. Touches(held[c])
  BY <1>1, <1>2, <1>6, OwnHasher DEF Touches, TypeOK
<1>9. Route(c, y)
  BY <1>1, <1>3, NextFieldFacts, Own DEF Route
<1>10. Holding(y, held[c])
  <2>1. NextField(c) \in {"host", "random", "nonce"}
          /\ (NextField(c) = "random" => held[c]["buf"] = None)
    BY DEF WriteDirect
  <2>2. WritesTo(x.op) => (x.n # 1 /\ x.n # 2) /\ (x.n = 3 => held[c]["buf"] = None)
    BY <1>1, <2>1, FieldFacts DEF NextField, WritesTo, States
  <2>3. QED BY <1>1, <1>3, <2>2, Own DEF Holding, Has, WritesTo, States
<1>11. Fed(c, y, held[c], content', sum')
  <2>1. FedSoFar(c, x, content[h]) BY <1>1, OwnHasher, Own DEF Fed
  <2>2. FedSoFar(c, y, content'[h])
    <3>1. content[h] \in Seq(Pieces) BY <1>1, <1>6 DEF TypeOK
    <3>2. y.op = x.op /\ y.n = x.n + 1 BY <1>3
    <3>3. FedSoFar(c, y, content[h] \o <<p>>)
      BY <1>1, <2>1, <3>1, <3>2, Feeding DEF NextField
    <3>4. QED BY <1>1, <1>6, <3>3 DEF TypeOK
  <2>3. \A s \in {"host", "req", "buf"} : Has(held[c], s) => content'[held[c][s]] = content[held[c][s]]
    BY <1>1, <1>6, OwnHasher, Distinct DEF TypeOK, Has, Slots
  <2>4. QED BY <1>1, <1>3, <2>2, <2>3, OwnHasher, Own DEF Fed, Holding
<1>12. Response(c, y, held[c], content', token')
  <2>1. Has(held[c], "resp") => content'[held[c]["resp"]] = content[held[c]["resp"]]
    BY <1>1, <1>6, OwnHasher, Distinct DEF TypeOK, Has, Slots
  <2>2. QED BY <1>1, <1>2, <1>3, <2>1, Own DEF Response
<1>13. QED BY <1>2, <1>4, <1>7, <1>8, <1>9, <1>10, <1>11, <1>12, Working

LEMMA Fills ==
  ASSUME IInv, NEW c \in Calls, Fill(c)
  PROVE  Step(c)
<1> DEFINE x == st[c]
           y == [x EXCEPT !.pc = "filled"]
           b == held[c]["buf"]
           p == Piece(NextField(c), c)
<1>1. /\ x.pc = "hash" /\ More(c) /\ TypeOK /\ x \in States /\ x.op \in Ops
      /\ NextField(c) \in {"addr", "level", "exp"} /\ "buf" \in Slots
  BY Own DEF Fill, At, States, Slots
<1>2. UNCHANGED <<held, free, token, sum>> /\ answer' = NoAnswer
  BY DEF Fill
<1>3. y = [pc |-> "filled", kind |-> x.kind, shown |-> x.shown, op |-> x.op,
           n |-> x.n, ok |-> x.ok]
  BY <1>1 DEF States
<1>4. Moves(c, y) BY <1>1, Going DEF Fill, Stages
<1>5. Has(held[c], "buf") /\ x.op # "work"
  <2>1. x.op # "work"
    <3>1. x.n + 1 \in 1 .. Len(FieldsOf[x.op]) BY <1>1, NextFieldFacts
    <3>2. x.op = "work" => NextField(c) \in {"random", "nonce"}
      BY <1>1, <3>1, FieldFacts DEF NextField, States
    <3>3. QED BY <1>1, <3>2
  <2>2. WritesTo(x.op) => x.n < 3
    <3>1. WritesTo(x.op) => Len(FieldsOf[x.op]) = 4 /\ FieldsOf[x.op][4] = "random"
      BY <1>1, FieldFacts DEF WritesTo
    <3>2. QED BY <1>1, <3>1 DEF More, NextField, States
  <2>3. QED BY <1>1, <2>1, <2>2, Own DEF Holding, HoldsBuffer, WritesTo, Ops
<1>6. b \in Objects /\ content[b] = <<>> /\ b # None
  BY <1>1, <1>5, Own DEF Fed, Has, TypeOK
<1>7. content' = [content EXCEPT ![b] = <<p>>]
  <2>1. Append(<<>>, p) = <<p>> OBVIOUS
  <2>2. Identity(c) = c BY <1>1, OwnIdentity
  <2>3. QED BY <1>1, <1>6, <2>1, <2>2 DEF Fill
<1>8. Typed
  <2>1. <<p>> \in Seq(Pieces) BY <1>1, NextFieldFacts
  <2>2. QED BY <1>1, <1>2, <1>7, <2>1 DEF Typed, TypeOK
<1>9. Touches(held[c])
  BY <1>1, <1>2, <1>6, <1>7 DEF Touches, TypeOK
<1>10. Route(c, y)
  BY <1>1, <1>3, Own, FieldFacts DEF Route, More, NextField
<1>11. Holding(y, held[c])
  BY <1>1, <1>3, <1>5, Own DEF Holding, Has
<1>12. Fed(c, y, held[c], content', sum')
  <2>1. \A s \in {"host", "req", "hmac"} : Has(held[c], s) => content'[held[c][s]] = content[held[c][s]]
    BY <1>1, <1>6, <1>7, Distinct DEF TypeOK, Has, Slots
  <2>2. Has(held[c], "hmac") BY <1>1, Own DEF Holding
  <2>3. content'[b] = <<p>> BY <1>1, <1>6, <1>7 DEF TypeOK
  <2>4. FedSoFar(c, y, content[held[c]["hmac"]])
    <3>1. FedSoFar(c, x, content[held[c]["hmac"]]) BY <1>1, <1>5, Own DEF Fed
    <3>2. QED BY <1>3, <3>1 DEF FedSoFar
  <2>5. content'[b] = <<Piece(FieldsOf[y.op][y.n + 1], c)>>
    BY <1>3, <2>3 DEF NextField
  <2>6. QED BY <1>1, <1>3, <1>5, <2>1, <2>2, <2>4, <2>5, Own DEF Fed
<1>13. Response(c, y, held[c], content', token')
  <2>1. Has(held[c], "resp") => content'[held[c]["resp"]] = content[held[c]["resp"]]
    BY <1>1, <1>6, <1>7, Distinct DEF TypeOK, Has, Slots
  <2>2. QED BY <1>1, <1>2, <1>3, <2>1, Own DEF Response
<1>14. QED BY <1>2, <1>4, <1>8, <1>9, <1>10, <1>11, <1>12, <1>13, Working

LEMMA WritesBuffer ==
  ASSUME IInv, NEW c \in Calls, WriteBuffer(c)
  PROVE  Step(c)
<1> DEFINE x == st[c]
           y == [pc |-> "hash", kind |-> x.kind, shown |-> x.shown, op |-> x.op,
                 n |-> x.n + 1, ok |-> x.ok]
           b == held[c]["buf"]
           h == Hasher(c)
           p == Piece(NextField(c), c)
<1>1. /\ x.pc = "filled" /\ TypeOK /\ x \in States /\ x.op \in Ops /\ More(c)
      /\ NextField(c) \in {"addr", "level", "exp"} /\ "buf" \in Slots
  BY Own DEF WriteBuffer, At, States, Slots, Route, More, NextField
<1>2. UNCHANGED <<held, free, token, sum>> /\ answer' = NoAnswer
  BY DEF WriteBuffer
<1>3. y.n = x.n + 1 /\ y.op = x.op /\ y.pc = "hash"
  OBVIOUS
<1>4. Moves(c, y)
  <2>1. Becomes(c, "hash", x.op, x.n + 1, x.ok) BY DEF WriteBuffer
  <2>2. x.n + 1 \in 0 .. 4 /\ "hash" \in Stages /\ x.ok \in BOOLEAN
    BY <1>1, NextFieldFacts DEF States, Stages
  <2>3. QED BY <1>1, <2>1, <2>2, Becoming
<1>5. /\ Has(held[c], "buf") /\ content[b] = <<p>> /\ x.op # "work"
      /\ b \in Objects /\ b # h /\ h \in Objects /\ h = held[c]["hmac"]
  <2>1. Has(held[c], "buf") BY <1>1, Own DEF Holding
  <2>2. x.op # "work" BY <1>1, <2>1, Own DEF Holding
  <2>3. content[b] = <<p>> BY <1>1, Own DEF Fed, NextField
  <2>4. QED BY <1>1, <2>1, <2>2, <2>3, OwnHasher, Distinct DEF Has
<1>6. content' = [content EXCEPT ![h] = @ \o <<p>>, ![b] = <<>>]
  BY <1>1, <1>5 DEF WriteBuffer, TypeOK
<1>7. content' = [o \in Objects |-> IF o = b THEN <<>>
                                    ELSE IF o = h THEN content[h] \o <<p>> ELSE content[o]]
  BY <1>1, <1>5, <1>6 DEF TypeOK
<1>8. Typed
  <2>1. content[h] \o <<p>> \in Seq(Pieces)
    BY <1>1, <1>5, NextFieldFacts DEF TypeOK
  <2>2. QED BY <1>1, <1>2, <1>7, <2>1 DEF Typed, TypeOK
<1>9. Touches(held[c])
  BY <1>1, <1>2, <1>5, <1>7, OwnHasher DEF Touches
<1>10. Route(c, y)
  BY <1>1, <1>3, NextFieldFacts, Own DEF Route
<1>11. Holding(y, held[c])
  <2>1. WritesTo(x.op) => x.n + 1 # 4
    <3>1. WritesTo(x.op) => FieldsOf[x.op][4] = "random"
      BY <1>1, FieldFacts DEF WritesTo
    <3>2. QED BY <1>1, <3>1 DEF NextField, States
  <2>2. QED BY <1>1, <1>3, <1>5, <2>1, Own DEF Holding, Has, WritesTo
<1>12. Fed(c, y, held[c], content', sum')
  <2>1. \A s \in {"host", "req"} : Has(held[c], s) => content'[held[c][s]] = content[held[c][s]]
    BY <1>1, <1>5, <1>7, Distinct, OwnHasher DEF TypeOK, Has, Slots
  <2>2. FedSoFar(c, y, content'[h])
    <3>1. content[h] \in Seq(Pieces) BY <1>1, <1>5 DEF TypeOK
    <3>2. y.op = x.op /\ y.n = x.n + 1 BY <1>3
    <3>3. FedSoFar(c, x, content[h]) BY <1>1, <1>5, Own DEF Fed
    <3>4. FedSoFar(c, y, content[h] \o <<p>>)
      BY <1>1, <3>1, <3>2, <3>3, Feeding DEF NextField
    <3>5. QED BY <1>5, <1>7, <3>4
  <2>3. content'[b] = <<>> BY <1>5, <1>7
  <2>4. QED BY <1>1, <1>3, <1>5, <2>1, <2>2, <2>3, Own DEF Fed
<1>13. Response(c, y, held[c], content', token')
  <2>1. Has(held[c], "resp") => content'[held[c]["resp"]] = content[held[c]["resp"]]
    BY <1>1, <1>5, <1>7, Distinct, OwnHasher DEF TypeOK, Has, Slots
  <2>2. QED BY <1>1, <1>2, <1>3, <2>1, Own DEF Response
<1>14. QED BY <1>2, <1>4, <1>8, <1>9, <1>10, <1>11, <1>12, <1>13, Working

LEMMA Summing ==
  ASSUME IInv, NEW c \in Calls, Sum(c)
  PROVE  Step(c)
<1> DEFINE x == st[c]
           y == [x EXCEPT !.pc = "sum"]
           h == Hasher(c)
<1>1. /\ x.pc = "hash" /\ ~More(c) /\ TypeOK /\ x \in States /\ x.op \in Ops
      /\ WritesTo(x.op) => held[c]["buf"] = None
  BY Own DEF Sum, At, States
<1>2. UNCHANGED <<held, free, content, token>> /\ answer' = NoAnswer
  BY DEF Sum
<1>3. y = [pc |-> "sum", kind |-> x.kind, shown |-> x.shown, op |-> x.op,
           n |-> x.n, ok |-> x.ok]
  BY <1>1 DEF States
<1>4. Moves(c, y) BY <1>1, Going DEF Sum, Stages
<1>5. h \in Objects /\ sum' = [sum EXCEPT ![h] = content[h]]
  BY <1>1, OwnHasher DEF Sum
<1>6. content[h] = Message(x.op, c)
  <2>1. FedSoFar(c, x, content[h]) BY <1>1, OwnHasher, Own DEF Fed
  <2>2. x.n = Len(FieldsOf[x.op])
    BY <1>1, FieldFacts, Own DEF More, Route, States
  <2>3. content[h] \in Seq(Pieces) BY <1>1, <1>5 DEF TypeOK
  <2>4. QED BY <1>1, <2>1, <2>2, <2>3, FedIsMessage
<1>7. Typed BY <1>1, <1>2, <1>5 DEF Typed, TypeOK
<1>8. Touches(held[c])
  BY <1>1, <1>2, <1>5, OwnHasher DEF Touches, TypeOK
<1>9. Route(c, y) BY <1>1, <1>3, Own DEF Route
<1>10. Holding(y, held[c]) BY <1>1, <1>3, Own DEF Holding, Has
<1>11. Fed(c, y, held[c], content', sum')
  <2>1. sum'[h] = Message(x.op, c) BY <1>1, <1>5, <1>6 DEF TypeOK
  <2>2. QED BY <1>1, <1>2, <1>3, <2>1, OwnHasher, Own DEF Fed
<1>12. Response(c, y, held[c], content', token')
  BY <1>1, <1>2, <1>3, Own DEF Response
<1>13. QED BY <1>2, <1>4, <1>7, <1>8, <1>9, <1>10, <1>11, <1>12, Working

------------------------------------------------------------------------------
(* Using the sum, and returning early                                      *)

(* A step to the deferred releases that changes nothing.                   *)
LEMMA JustUnwinds ==
  ASSUME IInv, NEW c \in Calls, NEW ok \in BOOLEAN, Done(c, ok),
         UNCHANGED <<held, free, content, token, sum>>, answer' = NoAnswer,
         st[c].pc \in {"buffer", "hash", "filled", "sum"}, st[c].op \in {"check", "work"},
         st[c].op = "check" /\ ok => st[c].shown = c
  PROVE  Step(c)
<1> DEFINE x == st[c]
           y == [pc |-> "unwind", kind |-> x.kind, shown |-> x.shown, op |-> x.op,
                 n |-> x.n, ok |-> ok]
<1>1. x \in States /\ TypeOK BY Own
<1>2. Moves(c, y)
  <2>1. x.op \in Ops /\ x.n \in 0 .. 4 /\ "unwind" \in Stages
    BY <1>1 DEF States, Stages
  <2>2. QED BY <1>1, <2>1, Becoming DEF Done
<1>3. Typed /\ Touches(held[c]) BY <1>1 DEF Typed, Touches, TypeOK
<1>4. Route(c, y) BY Own DEF Route
<1>5. Holding(y, held[c]) BY Own DEF Holding, Has, HoldsBuffer, WritesTo
<1>6. Fed(c, y, held[c], content', sum') BY Own DEF Fed
<1>7. Response(c, y, held[c], content', token')
  <2>1. x.kind # "get" /\ x.kind # "grant" BY Own DEF Route
  <2>2. x.op = "work" => Has(held[c], "hmac") BY Own DEF Holding, Route
  <2>3. x.op = "check" => ~Has(held[c], "resp") BY Own DEF Holding, Route, States, Kinds
  <2>4. QED BY <2>1, <2>2, <2>3, Own DEF Response, Route
<1>8. QED BY <1>2, <1>3, <1>4, <1>5, <1>6, <1>7, Working

LEMMA FailsEarly ==
  ASSUME IInv, NEW c \in Calls, IsValidCookieFails(c)
  PROVE  Step(c)
  BY JustUnwinds DEF IsValidCookieFails, At

(* When a sum is read it is the sum of this call's message.                *)
LEMMA OurSumIsOurs ==
  ASSUME IInv, NEW c \in Calls, st[c].pc = "sum"
  PROVE  OurSum(c) = Message(st[c].op, c)
  BY OwnHasher, Own DEF Fed, OurSum

LEMMA ShownIsOwn ==
  ASSUME IInv, NEW c \in Calls, st[c].pc = "sum", OurSum(c) = Shown(c)
  PROVE  st[c].shown = c
<1>1. st[c].shown \in Calls /\ st[c].op \in Ops BY Own DEF Route, States
<1>2. QED BY <1>1, OurSumIsOurs, MessagesDiffer DEF Shown

LEMMA ComparesCookie ==
  ASSUME IInv, NEW c \in Calls, CompareCookie(c)
  PROVE  Step(c)
  BY JustUnwinds, ShownIsOwn DEF CompareCookie, At

LEMMA ChecksWork ==
  ASSUME IInv, NEW c \in Calls, NEW solves \in BOOLEAN, CheckWork(c, solves)
  PROVE  Step(c)
<1>1. (solves /\ OurSum(c) = Message("work", c)) \in BOOLEAN OBVIOUS
<1>2. QED BY <1>1, JustUnwinds DEF CheckWork, At

(* A step that writes into the response.                                   *)
LEMMA Responds ==
  ASSUME IInv, NEW c \in Calls, st[c].pc = "sum",
         NEW y, Moves(c, y), UNCHANGED <<held, free, sum>>, answer' = NoAnswer,
         NEW body \in Seq(Pieces), NEW tok \in Seq(Pieces),
         content' = [content EXCEPT ![held[c]["resp"]] = body],
         token' = [token EXCEPT ![held[c]["resp"]] = tok],
         st[c].kind # "validate",
         y.kind = st[c].kind, Route(c, y), Holding(y, held[c]),
         y.pc = "unwind" \/ (y.pc = "hasher" /\ y.op = "work"),
         Response(c, y, held[c], content', token')
  PROVE  Step(c)
<1> DEFINE r == held[c]["resp"]
<1>1. /\ TypeOK /\ "resp" \in Slots /\ r \in Objects /\ r # None
  BY Own, Distinct DEF Holding, Has, Slots, TypeOK
<1>2. Typed /\ Touches(held[c])
  BY <1>1 DEF Typed, Touches, TypeOK
<1>3. \A s \in {"host", "req"} : Has(held[c], s) => content'[held[c][s]] = content[held[c][s]]
  BY <1>1, Distinct DEF TypeOK, Has, Slots
<1>4. y.pc = "hasher" => ~Has(held[c], "buf")
  BY Own DEF Holding, HoldsBuffer
<1>5. Fed(c, y, held[c], content', sum')
  BY <1>3, <1>4, Own DEF Fed
<1>6. QED BY <1>2, <1>5, Working

LEMMA Issues ==
  ASSUME IInv, NEW c \in Calls, IssueChallenge(c)
  PROVE  Step(c)
<1> DEFINE x == st[c]
           r == held[c]["resp"]
           y == [pc |-> "unwind", kind |-> x.kind, shown |-> x.shown, op |-> x.op,
                 n |-> x.n, ok |-> TRUE]
           body == <<Piece("random", c)>> \o Message("issue", c)
<1>1. /\ x.pc = "sum" /\ x.op = "issue" /\ x.kind = "get" /\ TypeOK /\ x \in States
      /\ r \in Objects /\ Has(held[c], "resp")
  BY Own DEF IssueChallenge, At, Route, States, Kinds, Holding, Has, TypeOK, Slots
<1>2. Moves(c, y)
  <2>1. x.op \in Ops /\ x.n \in 0 .. 4 /\ "unwind" \in Stages
    BY <1>1 DEF States, Stages
  <2>2. QED BY <1>1, <2>1, Becoming DEF IssueChallenge, Done
<1>3. content[r] = <<Piece("random", c)>> /\ token[r] = <<>>
  BY <1>1, Own DEF Response
<1>4. content' = [content EXCEPT ![r] = body]
  BY <1>1, <1>3, OurSumIsOurs DEF IssueChallenge
<1>5. token' = [token EXCEPT ![r] = <<>>] BY <1>1, <1>3 DEF IssueChallenge, TypeOK
<1>6. body \in Seq(Pieces) /\ <<>> \in Seq(Pieces)
  <2>1. <<Piece("random", c)>> \in Seq(Pieces) BY DEF Pieces, Piece, FieldNames
  <2>2. Message("issue", c) \in Seq(Pieces) BY MessageFacts DEF Ops
  <2>3. QED BY <2>1, <2>2
<1>7. Route(c, y) BY <1>1, Own DEF Route
<1>8. Holding(y, held[c]) BY <1>1, Own DEF Holding, Has, HoldsBuffer, WritesTo
<1>9. Response(c, y, held[c], content', token')
  <2>1. content'[r] = body /\ token'[r] = <<>> BY <1>1, <1>4, <1>5 DEF TypeOK
  <2>2. QED BY <1>1, <2>1 DEF Response
<1>10. UNCHANGED <<held, free, sum>> /\ answer' = NoAnswer BY DEF IssueChallenge
<1>11. QED BY <1>1, <1>2, <1>4, <1>5, <1>6, <1>7, <1>8, <1>9, <1>10, Responds

LEMMA Mints ==
  ASSUME IInv, NEW c \in Calls, MintCookie(c)
  PROVE  Step(c)
<1> DEFINE x == st[c]
           r == held[c]["resp"]
           y == [pc |-> "unwind", kind |-> x.kind, shown |-> x.shown, op |-> x.op,
                 n |-> x.n, ok |-> TRUE]
<1>1. /\ x.pc = "sum" /\ x.op = "mint" /\ x.kind \in {"post", "grant"} /\ TypeOK
      /\ x \in States /\ r \in Objects /\ Has(held[c], "resp")
  BY Own DEF MintCookie, At, Route, States, Kinds, Holding, Has, TypeOK, Slots
<1>2. Moves(c, y)
  <2>1. x.op \in Ops /\ x.n \in 0 .. 4 /\ "unwind" \in Stages
    BY <1>1 DEF States, Stages
  <2>2. QED BY <1>1, <2>1, Becoming DEF MintCookie, Done
<1>3. content[r] = <<>> /\ token[r] = <<>>
  BY <1>1, Own DEF Response
<1>4. content' = [content EXCEPT ![r] = <<>>] BY <1>1, <1>3 DEF MintCookie, TypeOK
<1>5. token' = [token EXCEPT ![r] = Message("mint", c)]
  <2>1. Message("mint", c) \in Seq(Pieces) BY MessageFacts DEF Ops
  <2>2. <<>> \o Message("mint", c) = Message("mint", c) BY <2>1
  <2>3. QED BY <1>1, <1>3, <2>2, OurSumIsOurs DEF MintCookie
<1>6. Message("mint", c) \in Seq(Pieces) /\ <<>> \in Seq(Pieces)
  BY MessageFacts DEF Ops
<1>7. Route(c, y) BY <1>1, Own DEF Route
<1>8. Holding(y, held[c]) BY <1>1, Own DEF Holding, Has, HoldsBuffer, WritesTo
<1>9. Response(c, y, held[c], content', token')
  <2>1. content'[r] = <<>> /\ token'[r] = Message("mint", c)
    BY <1>1, <1>4, <1>5 DEF TypeOK
  <2>2. QED BY <1>1, <2>1 DEF Response
<1>10. UNCHANGED <<held, free, sum>> /\ answer' = NoAnswer BY DEF MintCookie
<1>11. QED BY <1>1, <1>2, <1>4, <1>5, <1>6, <1>7, <1>8, <1>9, <1>10, Responds

LEMMA FailsVerification ==
  ASSUME IInv, NEW c \in Calls, VerifyFails(c)
  PROVE  Step(c)
<1> DEFINE x == st[c]
           r == held[c]["resp"]
           y == [pc |-> "unwind", kind |-> x.kind, shown |-> x.shown, op |-> x.op,
                 n |-> x.n, ok |-> FALSE]
           body == IF OurSum(c) = Shown(c) THEN <<Piece("exp", c)>>
                   ELSE Message("verify", c)
<1>1. /\ x.pc = "sum" /\ x.op = "verify" /\ x.kind = "post" /\ TypeOK
      /\ x \in States /\ r \in Objects /\ Has(held[c], "resp") /\ Has(held[c], "hmac")
  BY Own DEF VerifyFails, At, Route, States, Kinds, Holding, Has, TypeOK, Slots
<1>2. Moves(c, y)
  <2>1. x.op \in Ops /\ x.n \in 0 .. 4 /\ "unwind" \in Stages
    BY <1>1 DEF States, Stages
  <2>2. QED BY <1>1, <2>1, Becoming DEF VerifyFails, Done
<1>3. content[r] = <<>> /\ token[r] = <<>>
  BY <1>1, Own DEF Response
<1>4. content' = [content EXCEPT ![r] = body]
  <2>1. Message("verify", c) \in Seq(Pieces) BY MessageFacts DEF Ops
  <2>2. <<>> \o Message("verify", c) = Message("verify", c) BY <2>1
  <2>3. QED BY <1>1, <1>3, <2>2, OurSumIsOurs DEF VerifyFails
<1>5. token' = [token EXCEPT ![r] = <<>>] BY <1>1, <1>3 DEF VerifyFails, TypeOK
<1>6. body \in Seq(Pieces) /\ <<>> \in Seq(Pieces)
  <2>1. <<Piece("exp", c)>> \in Seq(Pieces) BY DEF Pieces, Piece, FieldNames
  <2>2. Message("verify", c) \in Seq(Pieces) BY MessageFacts DEF Ops
  <2>3. QED BY <2>1, <2>2
<1>7. Route(c, y) BY <1>1, Own DEF Route
<1>8. Holding(y, held[c]) BY <1>1, Own DEF Holding, Has, HoldsBuffer, WritesTo
<1>9. Response(c, y, held[c], content', token')
  <2>1. token'[r] = <<>> BY <1>1, <1>5 DEF TypeOK
  <2>2. QED BY <1>1, <2>1 DEF Response
<1>10. UNCHANGED <<held, free, sum>> /\ answer' = NoAnswer BY DEF VerifyFails
<1>11. QED BY <1>1, <1>2, <1>4, <1>5, <1>6, <1>7, <1>8, <1>9, <1>10, Responds

LEMMA PassesVerification ==
  ASSUME IInv, NEW c \in Calls, VerifyPasses(c)
  PROVE  Step(c)
<1> DEFINE x == st[c]
           r == held[c]["resp"]
           y == [pc |-> "hasher", kind |-> x.kind, shown |-> x.shown, op |-> "work",
                 n |-> 0, ok |-> FALSE]
<1>1. /\ x.pc = "sum" /\ x.op = "verify" /\ x.kind = "post" /\ TypeOK
      /\ x \in States /\ r \in Objects /\ Has(held[c], "resp") /\ Has(held[c], "hmac")
      /\ x.shown = c
  BY Own, ShownIsOwn DEF VerifyPasses, At, Route, States, Kinds, Holding, Has, TypeOK, Slots
<1>2. Moves(c, y)
  <2>1. "work" \in Ops /\ 0 \in 0 .. 4 /\ "hasher" \in Stages
    BY DEF Ops, Stages
  <2>2. QED BY <1>1, <2>1, Becoming DEF VerifyPasses
<1>3. token[r] = <<>> BY <1>1, Own DEF Response
<1>4. content' = [content EXCEPT ![r] = <<Piece("exp", c)>>]
  BY DEF VerifyPasses
<1>5. token' = [token EXCEPT ![r] = <<>>] BY <1>1, <1>3 DEF VerifyPasses, TypeOK
<1>6. <<Piece("exp", c)>> \in Seq(Pieces) /\ <<>> \in Seq(Pieces)
  BY DEF Pieces, Piece, FieldNames
<1>7. Route(c, y) BY <1>1, Own DEF Route
<1>8. Holding(y, held[c]) BY <1>1, Own DEF Holding, Has, HoldsBuffer, WritesTo
<1>9. Response(c, y, held[c], content', token')
  <2>1. token'[r] = <<>> BY <1>1, <1>5 DEF TypeOK
  <2>2. QED BY <1>1, <2>1 DEF Response
<1>10. UNCHANGED <<held, free, sum>> /\ answer' = NoAnswer BY DEF VerifyPasses
<1>11. QED BY <1>1, <1>2, <1>4, <1>5, <1>6, <1>7, <1>8, <1>9, <1>10, Responds

------------------------------------------------------------------------------
(* Deferred releases                                                       *)

(* What a release leaves to the call: the objects of the other slots, with *)
(* their data unless it is emptied on purpose.                             *)
LEMMA Remains ==
  ASSUME IInv, NEW c \in Calls, NEW s \in Slots, NEW also, Put(c, s, also)
  PROVE  /\ held'[c][s] = None
         /\ \A t \in Slots \ {s} :
              /\ held'[c][t] = held[c][t]
              /\ held[c][t] # None =>
                   /\ token'[held[c][t]] = token[held[c][t]]
                   /\ content'[held[c][t]] =
                        IF held[c][t] \in also THEN <<>> ELSE content[held[c][t]]
<1>1. /\ held'[c][s] = None /\ held[c][s] \in Objects /\ held[c][s] # None
      /\ \A t \in Slots \ {s} : held'[c][t] = held[c][t]
  BY Own, Given DEF Put
<1>2. ASSUME NEW t \in Slots \ {s}, held[c][t] # None
      PROVE  /\ token'[held[c][t]] = token[held[c][t]]
             /\ content'[held[c][t]] =
                  IF held[c][t] \in also THEN <<>> ELSE content[held[c][t]]
  <2>1. held[c][t] \in Objects /\ held[c][t] # held[c][s]
    BY <1>2, Distinct
  <2>2. QED BY <2>1, Own DEF Put, TypeOK
<1>3. QED BY <1>1, <1>2

(* A release that leaves the call in its stage.                            *)
LEMMA StaysPut ==
  ASSUME IInv, NEW c \in Calls, NEW s \in Slots, NEW also, Put(c, s, also),
         UNCHANGED st, answer' = NoAnswer,
         \A p \in also : \E t \in Slots : held[c][t] = p,
         Holding(st[c], held'[c]), Fed(c, st[c], held'[c], content', sum'),
         Response(c, st[c], held'[c], content', token')
  PROVE  Step(c)
<1>1. Moves(c, st[c]) BY Own DEF Moves, TypeOK
<1>2. QED BY <1>1, Own, Returning

LEMMA ReturnsFromWriteTo ==
  ASSUME IInv, NEW c \in Calls, WriteToReturns(c)
  PROVE  Step(c)
<1> DEFINE x == st[c]
<1>1. /\ x.pc = "hash" /\ WritesTo(x.op) /\ x.n = 3 /\ Put(c, "buf", {}) /\ "buf" \in Slots
      /\ UNCHANGED st /\ answer' = NoAnswer
  BY DEF WriteToReturns, At, Slots
<1>2. /\ held'[c]["buf"] = None
      /\ \A t \in Slots \ {"buf"} :
           /\ held'[c][t] = held[c][t]
           /\ held[c][t] # None =>
                token'[held[c][t]] = token[held[c][t]]
                /\ content'[held[c][t]] = content[held[c][t]]
  BY <1>1, Remains
<1>3. Holding(x, held'[c])
  BY <1>1, <1>2, Own DEF Holding, Has, Slots, WritesTo, HoldsBuffer
<1>4. Fed(c, x, held'[c], content', sum')
  <2>1. /\ Has(held[c], "hmac") /\ x.op # "work"
    BY <1>1, Own DEF Holding, WritesTo
  <2>2. QED BY <1>1, <1>2, <2>1, Own DEF Fed, Has, Slots
<1>5. Response(c, x, held'[c], content', token')
  <2>1. held'[c]["resp"] = held[c]["resp"] /\ "resp" \in Slots \ {"buf"} BY <1>2 DEF Slots
  <2>2. QED BY <1>1, <1>2, <2>1, Own DEF Response, Has
<1>6. QED BY <1>1, <1>3, <1>4, <1>5, StaysPut

LEMMA ReleasesSHA ==
  ASSUME IInv, NEW c \in Calls, ReleaseSHA256(c)
  PROVE  Step(c)
<1> DEFINE x == st[c]
<1>1. /\ x.pc = "unwind" /\ Put(c, "sha", {}) /\ "sha" \in Slots
      /\ UNCHANGED st /\ answer' = NoAnswer
  BY DEF ReleaseSHA256, At, Slots
<1>2. /\ held'[c]["sha"] = None
      /\ \A t \in Slots \ {"sha"} :
           /\ held'[c][t] = held[c][t]
           /\ held[c][t] # None =>
                token'[held[c][t]] = token[held[c][t]]
                /\ content'[held[c][t]] = content[held[c][t]]
  BY <1>1, Remains
<1>3. Holding(x, held'[c])
  BY <1>1, <1>2, Own DEF Holding, Has, Slots
<1>4. Fed(c, x, held'[c], content', sum')
  BY <1>1, <1>2, Own DEF Fed, Has, Slots
<1>5. Response(c, x, held'[c], content', token')
  <2>1. /\ held'[c]["resp"] = held[c]["resp"] /\ held'[c]["hmac"] = held[c]["hmac"]
        /\ "resp" \in Slots \ {"sha"}
    BY <1>2 DEF Slots
  <2>2. QED BY <1>1, <1>2, <2>1, Own DEF Response, Has
<1>6. QED BY <1>1, <1>3, <1>4, <1>5, StaysPut

LEMMA ReleasesBuffer ==
  ASSUME IInv, NEW c \in Calls, ReleaseCookieBuffer(c)
  PROVE  Step(c)
<1> DEFINE x == st[c]
<1>1. /\ x.pc = "unwind" /\ Put(c, "buf", {}) /\ "buf" \in Slots
      /\ UNCHANGED st /\ answer' = NoAnswer
  BY DEF ReleaseCookieBuffer, At, Slots
<1>2. /\ held'[c]["buf"] = None
      /\ \A t \in Slots \ {"buf"} :
           /\ held'[c][t] = held[c][t]
           /\ held[c][t] # None =>
                token'[held[c][t]] = token[held[c][t]]
                /\ content'[held[c][t]] = content[held[c][t]]
  BY <1>1, Remains
<1>3. Holding(x, held'[c])
  BY <1>1, <1>2, Own DEF Holding, Has, Slots
<1>4. Fed(c, x, held'[c], content', sum')
  BY <1>1, <1>2, Own DEF Fed, Has, Slots
<1>5. Response(c, x, held'[c], content', token')
  <2>1. /\ held'[c]["resp"] = held[c]["resp"] /\ held'[c]["hmac"] = held[c]["hmac"]
        /\ "resp" \in Slots \ {"buf"}
    BY <1>2 DEF Slots
  <2>2. QED BY <1>1, <1>2, <2>1, Own DEF Response, Has
<1>6. QED BY <1>1, <1>3, <1>4, <1>5, StaysPut

LEMMA ReleasesHMAC ==
  ASSUME IInv, NEW c \in Calls, ReleaseHMAC(c)
  PROVE  Step(c)
<1> DEFINE x == st[c]
           r == held[c]["resp"]
           also == DeferredReset(c)
<1>1. /\ x.pc = "unwind" /\ Put(c, "hmac", also)
      /\ "hmac" \in Slots /\ "resp" \in Slots
      /\ UNCHANGED st /\ answer' = NoAnswer
  BY DEF ReleaseHMAC, At, Slots
<1>2. /\ held'[c]["hmac"] = None
      /\ \A t \in Slots \ {"hmac"} :
           /\ held'[c][t] = held[c][t]
           /\ held[c][t] # None =>
                token'[held[c][t]] = token[held[c][t]]
                /\ content'[held[c][t]] =
                     IF held[c][t] \in also THEN <<>> ELSE content[held[c][t]]
  BY <1>1, Remains
<1>3. also \subseteq {r} /\ (x.op \in {"verify", "work"} <=> also = {r})
  BY DEF DeferredReset
<1>4. Holding(x, held'[c])
  BY <1>1, <1>2, Own DEF Holding, Has, Slots
<1>5. Fed(c, x, held'[c], content', sum')
  <2>1. \A t \in {"host", "req"} : Has(held[c], t) => held[c][t] \notin also
    BY <1>1, <1>3, Distinct DEF Has, Slots
  <2>2. \A t \in {"host", "req"} : held'[c][t] = held[c][t]
         /\ (Has(held[c], t) => content'[held[c][t]] = content[held[c][t]])
    BY <1>2, <2>1 DEF Has, Slots
  <2>3. QED BY <1>1, <2>2, Own DEF Fed, Has
<1>6. Response(c, x, held'[c], content', token')
  <2>1. held'[c]["resp"] = r BY <1>1, <1>2
  <2>2. SUFFICES ASSUME Has(held[c], "resp") PROVE Response(c, x, held'[c], content', token')
    BY <2>1 DEF Response, Has
  <2>3. /\ token'[r] = token[r]
        /\ x.op \in {"verify", "work"} => content'[r] = <<>>
        /\ x.op \notin {"verify", "work"} => content'[r] = content[r]
    BY <1>1, <1>2, <1>3, <2>2 DEF Has
  <2>4. x.kind = "get" => x.op \notin {"verify", "work"}
    BY Own DEF Route
  <2>5. x.op \in {"verify", "work"} => x.kind = "post"
    BY Own DEF Route, States, Kinds
  <2>6. x.kind = "post" => x.op \in {"verify", "work", "mint"}
    BY Own DEF Route
  <2>7. Response(c, x, held[c], content, token) BY Own
  <2>8. QED BY <1>1, <1>2, <2>1, <2>2, <2>3, <2>4, <2>5, <2>6, <2>7 DEF Response, Has
<1>7. \A p \in also : \E t \in Slots : held[c][t] = p
  BY <1>1, <1>3
<1>8. QED BY <1>1, <1>4, <1>5, <1>6, <1>7, StaysPut

LEMMA Returns ==
  ASSUME IInv, NEW c \in Calls, ValidatorReturns(c)
  PROVE  Step(c)
<1> DEFINE x == st[c]
           on == x.op = "work" /\ x.ok
           y == [pc |-> IF on THEN "buffer" ELSE "answer", kind |-> x.kind,
                 shown |-> x.shown, op |-> IF on THEN "mint" ELSE x.op,
                 n |-> IF on THEN 0 ELSE x.n, ok |-> IF on THEN FALSE ELSE x.ok]
<1>1. /\ x.pc = "unwind" /\ TypeOK /\ x \in States
      /\ \A s \in {"buf", "hmac", "sha"} : held[c][s] = None
      /\ UNCHANGED <<held, free, content, token, sum>> /\ answer' = NoAnswer
  BY Own DEF ValidatorReturns, At
<1>2. Moves(c, y)
  <2>1. CASE on
    <3>1. Becomes(c, "buffer", "mint", 0, FALSE) BY <2>1 DEF ValidatorReturns
    <3>2. "buffer" \in Stages /\ "mint" \in Ops /\ 0 \in 0 .. 4 BY DEF Stages, Ops
    <3>3. QED BY <1>1, <2>1, <3>1, <3>2, Becoming
  <2>2. CASE ~on
    <3>1. Becomes(c, "answer", x.op, x.n, x.ok) BY <2>2 DEF ValidatorReturns
    <3>2. "answer" \in Stages /\ x.op \in Ops /\ x.n \in 0 .. 4 /\ x.ok \in BOOLEAN
      BY <1>1 DEF States, Stages
    <3>3. QED BY <1>1, <2>2, <3>1, <3>2, Becoming
  <2>3. QED BY <2>1, <2>2
<1>3. Typed /\ Touches(held[c]) BY <1>1 DEF Typed, Touches, TypeOK
<1>4. on => x.kind = "post" BY <1>1, Own DEF Route, States, Kinds
<1>5. Route(c, y) BY <1>1, <1>4, Own DEF Route
<1>6. Holding(y, held[c]) BY <1>1, <1>4, Own DEF Holding, Has, WritesTo, HoldsBuffer
<1>7. Fed(c, y, held[c], content', sum') BY <1>1, Own DEF Fed, Has, WritesTo
<1>8. Response(c, y, held[c], content', token')
  <2>1. Response(c, x, held[c], content, token) BY Own
  <2>2. on \/ y.op = x.op OBVIOUS
  <2>3. x.kind = "post" /\ ~on => x.op \in {"verify", "work", "mint"} BY Own DEF Route
  <2>4. QED BY <1>1, <1>4, <2>1, <2>2, <2>3 DEF Response, Has
<1>9. QED BY <1>1, <1>2, <1>3, <1>5, <1>6, <1>7, <1>8, Working

LEMMA AnswersOwn ==
  ASSUME IInv, NEW c \in Calls, Answer(c)
  PROVE  Step(c)
<1> DEFINE x == st[c]
           r == held[c]["resp"]
           a == [given |-> TRUE, to |-> c, kind |-> x.kind, shown |-> x.shown,
                 op |-> x.op, ok |-> x.ok,
                 body  |-> IF x.kind = "validate" THEN <<>> ELSE content[r],
                 token |-> IF x.kind = "validate" THEN <<>> ELSE token[r]]
<1>1. /\ x.pc = "answer" /\ x \in States /\ TypeOK
      /\ UNCHANGED <<held, free, content, token, sum>> /\ answer' = a
      /\ Goto(c, "leave") /\ held[c] \in [Slots -> Objects \cup {None}]
  BY Own DEF Answer, At
<1> DEFINE y == [x EXCEPT !.pc = "leave"]
<1>2. Moves(c, y) BY <1>1, Going DEF Stages
<1>3. /\ y.pc = "leave" /\ y.kind = x.kind /\ y.op = x.op /\ y.ok = x.ok
      /\ y.shown = x.shown /\ y.n = x.n
  BY <1>1 DEF States
<1>4. /\ Route(c, y) /\ Holding(y, held[c]) /\ Fed(c, y, held[c], content, sum)
      /\ Response(c, y, held[c], content, token)
  <2> HIDE DEF y
  <2>1. Route(c, y) BY <1>1, <1>3, Own DEF Route
  <2>2. Holding(y, held[c])
    BY <1>1, <1>3, Own DEF Holding, Has, WritesTo, HoldsBuffer
  <2>3. Fed(c, y, held[c], content, sum) BY <1>1, <1>3, Own DEF Fed, Has
  <2>4. Response(c, y, held[c], content, token) BY <1>3 DEF Response
  <2>5. QED BY <2>1, <2>2, <2>3, <2>4
<1>5. x.kind # "validate" => r \in Objects
  BY <1>1, Own DEF Holding, Has, Slots
<1>6. a \in Answers
  <2>1. a.body \in Seq(Pieces) /\ a.token \in Seq(Pieces)
    BY <1>1, <1>5 DEF TypeOK
  <2>2. x.shown \in Calls BY <1>1, Own DEF Route
  <2>3. QED BY <1>1, <2>1, <2>2 DEF Answers, States
<1>7. AnswerIsOwn'
  <2>1. x.kind # "validate" => Has(held[c], "resp")
    BY <1>1, Own DEF Holding
  <2>2. Route(c, x) /\ Response(c, x, held[c], content, token) BY Own
  <2>3. CASE x.kind = "validate"
    <3>1. a.ok => a.shown = c BY <2>2, <2>3 DEF Route
    <3>2. QED BY <1>1, <2>3, <3>1 DEF AnswerIsOwn
  <2>4. CASE x.kind = "get"
    <3>1. /\ content[r] = <<Piece("random", c)>> \o Message("issue", c)
          /\ token[r] = <<>>
      BY <1>1, <2>1, <2>2, <2>4 DEF Route, Response
    <3>2. QED BY <1>1, <2>4, <3>1 DEF AnswerIsOwn
  <2>5. CASE x.kind \in {"post", "grant"}
    <3>1. /\ content[r] = <<>>
          /\ token[r] = IF x.op = "mint" THEN Message("mint", c) ELSE <<>>
          /\ x.op = "mint" => x.kind = "grant" \/ x.shown = c
      BY <1>1, <2>1, <2>2, <2>5 DEF Route, Response
    <3>2. QED BY <1>1, <2>5, <3>1 DEF AnswerIsOwn
  <2>6. CASE x.kind = "refuse"
    <3>1. content[r] = <<>> /\ token[r] = <<>>
      BY <1>1, <2>1, <2>2, <2>6 DEF Route, Response
    <3>2. QED BY <1>1, <2>6, <3>1 DEF AnswerIsOwn
  <2>7. QED BY <1>1, <2>3, <2>4, <2>5, <2>6 DEF States, Kinds
<1>8. TypeOK'
  <2>1. st' \in [Calls -> States] BY <1>2 DEF Moves
  <2>2. QED BY <1>1, <1>6, <2>1 DEF TypeOK
<1>9. OneUserEach' /\ PooledIsEmpty' BY <1>1, Own DEF OneUserEach, PooledIsEmpty
<1>10. Others(c) BY <1>1, <1>2 DEF Others, Moves
<1>11. CallOK(c, st'[c], held'[c], content', token', sum')
  <2>1. st'[c] = y BY <1>2 DEF Moves
  <2>2. QED BY <1>1, <1>4, <2>1 DEF CallOK
<1>12. QED BY <1>7, <1>8, <1>9, <1>10, <1>11 DEF Step

LEMMA GivesUp ==
  ASSUME IInv, NEW c \in Calls, GiveUp(c)
  PROVE  Step(c)
<1> DEFINE x == st[c]
           y == [x EXCEPT !.pc = "leave"]
<1>1. /\ \/ x.pc = "response"
         \/ x.pc = "buffer" /\ x.kind = "validate"
      /\ UNCHANGED <<held, free, content, token, sum>> /\ answer' = NoAnswer
      /\ Goto(c, "leave") /\ TypeOK /\ x \in States
  BY Own DEF GiveUp, At
<1>2. Moves(c, y) BY <1>1, Going DEF Stages
<1>3. /\ y.pc = "leave" /\ y.kind = x.kind /\ y.op = x.op /\ y.ok = x.ok
      /\ y.shown = x.shown /\ y.n = x.n
  BY <1>1 DEF States
<1>4. Typed /\ Touches(held[c]) BY <1>1 DEF Typed, Touches, TypeOK
<1> HIDE DEF y
<1>5. Route(c, y)
  <2>1. x.pc = "response" => x.op = FirstOp[x.kind] /\ x.op # "work"
    BY <1>1, Own DEF Route, FirstOp, States, Kinds
  <2>2. QED BY <1>1, <1>3, <2>1, Own DEF Route
<1>6. Holding(y, held[c])
  BY <1>1, <1>3, Own DEF Holding, Has, WritesTo, HoldsBuffer, Route
<1>7. Fed(c, y, held[c], content', sum') BY <1>1, <1>3, Own DEF Fed, Has
<1>8. Response(c, y, held[c], content', token') BY <1>3 DEF Response
<1>9. QED BY <1>1, <1>2, <1>4, <1>5, <1>6, <1>7, <1>8, Working

LEMMA ReleasesResponse ==
  ASSUME IInv, NEW c \in Calls, ReleaseValidatorResponse(c)
  PROVE  Step(c)
<1> DEFINE x == st[c]
<1>1. /\ x.pc = "leave" /\ Put(c, "resp", {}) /\ "resp" \in Slots
      /\ UNCHANGED st /\ answer' = NoAnswer
  BY DEF ReleaseValidatorResponse, At, Slots
<1>2. /\ held'[c]["resp"] = None
      /\ \A t \in Slots \ {"resp"} :
           /\ held'[c][t] = held[c][t]
           /\ held[c][t] # None => content'[held[c][t]] = content[held[c][t]]
  BY <1>1, Remains
<1>3. Holding(x, held'[c]) BY <1>1, <1>2, Own DEF Holding, Has, Slots
<1>4. Fed(c, x, held'[c], content', sum') BY <1>1, <1>2, Own DEF Fed, Has, Slots
<1>5. Response(c, x, held'[c], content', token') BY <1>1 DEF Response
<1>6. QED BY <1>1, <1>3, <1>4, <1>5, StaysPut

LEMMA ReleasesRequest ==
  ASSUME IInv, NEW c \in Calls, ReleaseValidatorRequest(c)
  PROVE  Step(c)
<1> DEFINE x == st[c]
<1>1. /\ x.pc = "leave" /\ Put(c, "req", {}) /\ "req" \in Slots
      /\ UNCHANGED st /\ answer' = NoAnswer
  BY DEF ReleaseValidatorRequest, At, Slots
<1>2. /\ held'[c]["req"] = None
      /\ \A t \in Slots \ {"req"} :
           /\ held'[c][t] = held[c][t]
           /\ held[c][t] # None => content'[held[c][t]] = content[held[c][t]]
  BY <1>1, Remains
<1>3. Holding(x, held'[c]) BY <1>1, <1>2, Own DEF Holding, Has, Slots
<1>4. Fed(c, x, held'[c], content', sum') BY <1>1, <1>2, Own DEF Fed, Has, Slots
<1>5. Response(c, x, held'[c], content', token') BY <1>1 DEF Response
<1>6. QED BY <1>1, <1>3, <1>4, <1>5, StaysPut

LEMMA Leaves ==
  ASSUME IInv, NEW c \in Calls, ReleaseHostBuf(c)
  PROVE  Step(c)
<1> DEFINE x == st[c]
<1>1. /\ x.pc = "leave" /\ Put(c, "host", {}) /\ "host" \in Slots
      /\ held[c]["resp"] = None /\ held[c]["req"] = None
      /\ st' = [st EXCEPT ![c] = Idle] /\ answer' = NoAnswer
  BY DEF ReleaseHostBuf, At, Slots
<1>2. Moves(c, Idle)
  <2>1. Idle \in States BY DEF Idle, States, Stages, Kinds, Ops
  <2>2. QED BY <1>1, <2>1, Own DEF Moves, TypeOK
<1>3. \A t \in Slots : held'[c][t] = None
  <2>1. held'[c]["host"] = None /\ \A t \in Slots \ {"host"} : held'[c][t] = held[c][t]
    BY <1>1, Remains
  <2>2. \A t \in {"buf", "hmac", "sha"} : held[c][t] = None
    BY <1>1, Own DEF Holding, Has
  <2>3. QED BY <1>1, <2>1, <2>2 DEF Slots
<1>4. Route(c, Idle) BY DEF Route, Idle, FirstOp
<1>5. Holding(Idle, held'[c])
  BY <1>3 DEF Holding, Idle, Has, Slots, WritesTo, HoldsBuffer
<1>6. Fed(c, Idle, held'[c], content', sum') BY <1>3 DEF Fed, Idle, Has, Slots, WritesTo
<1>7. Response(c, Idle, held'[c], content', token') BY <1>3 DEF Response, Has, Slots
<1>8. \A p \in {} : \E t \in Slots : held[c][t] = p OBVIOUS
<1>9. QED BY <1>1, <1>2, <1>4, <1>5, <1>6, <1>7, <1>8, Returning

------------------------------------------------------------------------------
(* The invariant                                                           *)

(* Nothing is in use, everything in the pools and empty.                   *)
THEOREM PoolInit == Init => IInv
<1> SUFFICES ASSUME Init PROVE IInv OBVIOUS
<1>1. Idle \in States /\ NoObjects \in [Slots -> Objects \cup {None}]
  BY DEF Idle, NoObjects, States, Stages, Kinds, Ops
<1>2. <<>> \in Seq(Pieces) OBVIOUS
<1>3. TypeOK BY <1>1, <1>2 DEF Init, TypeOK
<1>4. OneUserEach BY PoolAssumption DEF OneUserEach, Init, NoObjects
<1>5. PooledIsEmpty BY DEF PooledIsEmpty, Init
<1>6. AnswerIsOwn BY DEF AnswerIsOwn, Init, NoAnswer
<1>7. ASSUME NEW c \in Calls
      PROVE  CallOK(c, st[c], held[c], content, token, sum)
  <2>1. st[c] = Idle /\ \A s \in Slots : held[c][s] = None
    BY DEF Init, NoObjects
  <2>2. Route(c, Idle) BY DEF Route, Idle, FirstOp
  <2>3. Holding(Idle, held[c])
    BY <2>1 DEF Holding, Idle, Has, Slots, WritesTo, HoldsBuffer
  <2>4. Fed(c, Idle, held[c], content, sum) BY <2>1 DEF Fed, Idle, Has, Slots, WritesTo
  <2>5. Response(c, Idle, held[c], content, token) BY <2>1 DEF Response, Has, Slots
  <2>6. QED BY <2>1, <2>2, <2>3, <2>4, <2>5 DEF CallOK
<1>8. QED BY <1>3, <1>4, <1>5, <1>6, <1>7 DEF IInv

LEMMA AcquireStep ==
  ASSUME IInv, NEW c \in Calls, NEW o \in Objects, Acquire(c, o)
  PROVE  Step(c)
  BY Begins, TakesRequest, TakesResponse, TakesBuffer, TakesHMAC, TakesSHA DEF Acquire

LEMMA HashStep ==
  ASSUME IInv, NEW c \in Calls, Hash(c)
  PROVE  Step(c)
  BY WritesDirect, Fills, WritesBuffer, ReturnsFromWriteTo, FailsEarly, Summing DEF Hash

LEMMA UseStep ==
  ASSUME IInv, NEW c \in Calls, Use(c)
  PROVE  Step(c)
  BY ComparesCookie, Issues, Mints, FailsVerification, PassesVerification, ChecksWork
     DEF Use

LEMMA ReleaseStep ==
  ASSUME IInv, NEW c \in Calls, Release(c)
  PROVE  Step(c)
  BY ReleasesSHA, ReleasesHMAC, ReleasesBuffer, Returns, AnswersOwn, GivesUp,
     ReleasesResponse, ReleasesRequest, Leaves
     DEF Release

(* The invariant is inductive: a step of one call keeps what holds of it,  *)
(* and leaves the objects of the others alone.                             *)
THEOREM PoolStep == IInv /\ [Next]_vars => IInv'
<1> SUFFICES ASSUME IInv, [Next]_vars PROVE IInv' OBVIOUS
<1>1. CASE Next
  <2>1. PICK c \in Calls :
          (\E o \in Objects : Acquire(c, o)) \/ Hash(c) \/ Use(c) \/ Release(c)
    BY <1>1 DEF Next
  <2>2. Step(c) BY <2>1, AcquireStep, HashStep, UseStep, ReleaseStep
  <2>3. QED BY <2>2, OneCallSteps
<1>2. CASE UNCHANGED vars
  BY <1>2 DEF vars, IInv, TypeOK, OneUserEach, PooledIsEmpty, AnswerIsOwn
<1>3. QED BY <1>1, <1>2

(* Types, holdings and contents are right in every reachable state.        *)
THEOREM PoolInvariant == Spec => []IInv
  BY PoolInit, PoolStep, PTL DEF Spec

(* Every pooled object has one user or is in its pool.                     *)
THEOREM ObjectsHaveOneUser == Spec => []OneUserEach
<1>1. IInv => OneUserEach BY DEF IInv
<1>2. QED BY <1>1, PoolInvariant, PTL

(* Whatever number of calls share the pools, an answer is its request's.   *)
THEOREM AnswersAreOwn == Spec => []AnswerIsOwn
<1>1. IInv => AnswerIsOwn BY DEF IInv
<1>2. QED BY <1>1, PoolInvariant, PTL

------------------------------------------------------------------------------
(* The refinement of CallPolicy                                            *)

(* No call has been asked or has closed anything.                          *)
Unchanged == \A d \in Calls : AsRequest(st'[d]) = AsRequest(st[d])

Busy(x) == x.pc \notin {"idle", "leave"}

LEMMA GoingIsWork ==
  ASSUME TypeOK, NEW c \in Calls, Busy(st[c]), NEW pc, pc \notin {"idle", "leave"},
         Goto(c, pc)
  PROVE  Unchanged
<1>1. ASSUME NEW d \in Calls PROVE AsRequest(st'[d]) = AsRequest(st[d])
  <2>1. CASE d = c
    <3>1. st'[c].pc = pc /\ st'[c].kind = st[c].kind /\ st'[c].shown = st[c].shown
      BY DEF Goto, TypeOK, States
    <3> QED BY <2>1, <3>1 DEF AsRequest, Busy
  <2>2. CASE d # c BY <2>2 DEF Goto, TypeOK
  <2> QED BY <2>1, <2>2
<1> QED BY <1>1 DEF Unchanged

LEMMA BecomingIsWork ==
  ASSUME TypeOK, NEW c \in Calls, Busy(st[c]), NEW pc, pc \notin {"idle", "leave"},
         NEW op, NEW n, NEW ok, Becomes(c, pc, op, n, ok)
  PROVE  Unchanged
<1>1. ASSUME NEW d \in Calls PROVE AsRequest(st'[d]) = AsRequest(st[d])
  <2>1. CASE d = c
    <3>1. st'[c].pc = pc /\ st'[c].kind = st[c].kind /\ st'[c].shown = st[c].shown
      BY DEF Becomes, TypeOK
    <3> QED BY <2>1, <3>1 DEF AsRequest, Busy
  <2>2. CASE d # c BY <2>2 DEF Becomes, TypeOK
  <2> QED BY <2>1, <2>2
<1> QED BY <1>1 DEF Unchanged

LEMMA StayingIsWork == UNCHANGED st => Unchanged
BY DEF Unchanged

(* A step that neither begins nor ends anything.                           *)
LEMMA WorkIsWork == ASSUME Unchanged, answer' = NoAnswer PROVE Alone!Next
<1>1. [c \in Calls |-> AsRequest(st[c])]' = [c \in Calls |-> AsRequest(st[c])]
  BY DEF Unchanged
<1>2. AsTold' = [said |-> FALSE]
  BY DEF AsTold, NoAnswer
<1> QED BY <1>1, <1>2 DEF Alone!Next, Alone!Work, Alone!Silence

(* A step that changes what one call has been asked.                       *)
LEMMA OneIsAsked ==
  ASSUME TypeOK, NEW c \in Calls, NEW y, st' = [st EXCEPT ![c] = y]
  PROVE  [d \in Calls |-> AsRequest(st[d])]' =
           [[d \in Calls |-> AsRequest(st[d])] EXCEPT ![c] = AsRequest(y)]
<1>1. \A d \in Calls : st'[d] = IF d = c THEN y ELSE st[d]
  BY DEF TypeOK
<1>2. \A d \in Calls : AsRequest(st'[d]) = IF d = c THEN AsRequest(y) ELSE AsRequest(st[d])
  BY <1>1
<1> QED BY <1>2

LEMMA AcquiringIsAllowed ==
  ASSUME IInv, NEW c \in Calls, NEW o \in Objects, Acquire(c, o)
  PROVE  Alone!Next
<1>1. TypeOK BY DEF IInv
<1>2. ASSUME NEW kind \in Kinds, NEW shown \in Calls, Start(c, kind, shown, o)
      PROVE  Alone!Next
  <2> DEFINE y == [pc |-> IF kind = "validate" THEN "buffer" ELSE "request",
                   kind |-> kind, shown |-> shown, op |-> FirstOp[kind], n |-> 0,
                   ok |-> FALSE]
             requests == [d \in Calls |-> AsRequest(st[d])]
  <2>1. st' = [st EXCEPT ![c] = y] /\ answer' = NoAnswer /\ st[c].pc = "idle"
    BY <1>2 DEF Start, At
  <2>2. AsRequest(y) = [kind |-> kind, shown |-> shown, open |-> TRUE]
    BY DEF AsRequest
  <2>3. requests' = [requests EXCEPT ![c] = AsRequest(y)]
    BY <1>1, <2>1, OneIsAsked
  <2>4. requests[c] = [kind |-> "nothing"] /\ AsTold' = [said |-> FALSE]
    BY <2>1 DEF AsRequest, AsTold, NoAnswer
  <2>5. kind \in Alone!Kinds
    BY DEF Kinds, Alone!Kinds
  <2>6. Alone!Ask(c)
    <3> HIDE DEF requests, y
    <3> QED BY <2>2, <2>3, <2>4, <2>5 DEF Alone!Ask, Alone!Nothing, Alone!Silence, requests
  <2> QED BY <2>6 DEF Alone!Next
<1>3. CASE AcquireValidatorRequest(c, o)
  BY <1>1, <1>3, GoingIsWork, WorkIsWork DEF AcquireValidatorRequest, At, Busy
<1>4. CASE AcquireValidatorResponse(c, o)
  <2> DEFINE pc == CASE st[c].kind = "refuse" -> "answer"
                     [] st[c].kind = "grant"  -> "buffer"
                     [] OTHER                 -> "hasher"
  <2>1. pc \notin {"idle", "leave"} OBVIOUS
  <2>2. Goto(c, pc) /\ Busy(st[c]) /\ answer' = NoAnswer
    BY <1>4 DEF AcquireValidatorResponse, At, Busy
  <2> HIDE DEF pc
  <2> QED BY <1>1, <2>1, <2>2, GoingIsWork, WorkIsWork
<1>5. CASE AcquireCookieBuffer(c, o)
  BY <1>1, <1>5, GoingIsWork, WorkIsWork DEF AcquireCookieBuffer, At, Busy
<1>6. CASE AcquireHMAC(c, o)
  BY <1>1, <1>6, GoingIsWork, WorkIsWork DEF AcquireHMAC, At, Busy
<1>7. CASE AcquireSHA256(c, o)
  BY <1>1, <1>7, GoingIsWork, WorkIsWork DEF AcquireSHA256, At, Busy
<1> QED BY <1>2, <1>3, <1>4, <1>5, <1>6, <1>7 DEF Acquire

LEMMA HashingIsAllowed ==
  ASSUME IInv, NEW c \in Calls, Hash(c)
  PROVE  Alone!Next
<1>1. TypeOK BY DEF IInv
<1>2. CASE WriteDirect(c)
  BY <1>1, <1>2, BecomingIsWork, WorkIsWork DEF WriteDirect, At, Busy
<1>3. CASE Fill(c)
  BY <1>1, <1>3, GoingIsWork, WorkIsWork DEF Fill, At, Busy
<1>4. CASE WriteBuffer(c)
  BY <1>1, <1>4, BecomingIsWork, WorkIsWork DEF WriteBuffer, At, Busy
<1>5. CASE WriteToReturns(c)
  BY <1>5, StayingIsWork, WorkIsWork DEF WriteToReturns
<1>6. CASE IsValidCookieFails(c)
  BY <1>1, <1>6, BecomingIsWork, WorkIsWork DEF IsValidCookieFails, Done, At, Busy
<1>7. CASE Sum(c)
  BY <1>1, <1>7, GoingIsWork, WorkIsWork DEF Sum, At, Busy
<1> QED BY <1>2, <1>3, <1>4, <1>5, <1>6, <1>7 DEF Hash

LEMMA UsingIsAllowed ==
  ASSUME IInv, NEW c \in Calls, Use(c)
  PROVE  Alone!Next
<1>1. TypeOK BY DEF IInv
<1>2. st[c].pc = "sum" /\ answer' = NoAnswer
  BY DEF Use, CompareCookie, IssueChallenge, MintCookie, VerifyFails, VerifyPasses,
         CheckWork, At
<1>3. \E op, n, ok : Becomes(c, "unwind", op, n, ok) \/ Becomes(c, "hasher", op, n, ok)
  BY DEF Use, CompareCookie, IssueChallenge, MintCookie, VerifyFails, VerifyPasses,
         CheckWork, Done
<1>4. Unchanged
  BY <1>1, <1>2, <1>3, BecomingIsWork DEF Busy
<1> QED BY <1>2, <1>4, WorkIsWork

LEMMA OpenIsReplaced ==
  ASSUME NEW K, NEW S, NEW r \in [kind : K, shown : S, open : BOOLEAN], NEW b
  PROVE  [r EXCEPT !.open = b] = [kind |-> r.kind, shown |-> r.shown, open |-> b]
OBVIOUS

(* Closing what was open.                                                  *)
LEMMA Closing ==
  ASSUME TypeOK, NEW c \in Calls, Busy(st[c]), Goto(c, "leave")
  PROVE  /\ AsRequest(st[c]) = [kind |-> st[c].kind, shown |-> st[c].shown, open |-> TRUE]
         /\ Alone!Open(c) /\ Alone!Close(c)
<1> DEFINE requests == [d \in Calls |-> AsRequest(st[d])]
           y        == [st[c] EXCEPT !.pc = "leave"]
<1>1. requests' = [requests EXCEPT ![c] = AsRequest(y)]
  BY OneIsAsked DEF Goto
<1>2. AsRequest(st[c]) = [kind |-> st[c].kind, shown |-> st[c].shown, open |-> TRUE]
  BY DEF AsRequest, Busy
<1>3. AsRequest(y) = [kind |-> st[c].kind, shown |-> st[c].shown, open |-> FALSE]
  BY DEF AsRequest, TypeOK, States
<1>4. requests[c] = AsRequest(st[c])
  OBVIOUS
<1>5. AsRequest(y) = [requests[c] EXCEPT !.open = FALSE]
  <2> DEFINE k == st[c].kind
             s == st[c].shown
  <2>1. requests[c] = [kind |-> k, shown |-> s, open |-> TRUE]
    BY <1>2, <1>4
  <2> HIDE DEF requests, y, k, s
  <2>2. requests[c].kind = k /\ requests[c].shown = s
    BY <2>1
  <2>3. requests[c] \in [kind : {k}, shown : {s}, open : BOOLEAN]
    BY <2>1
  <2>4. [requests[c] EXCEPT !.open = FALSE] = [kind |-> k, shown |-> s, open |-> FALSE]
    BY <2>2, <2>3, OpenIsReplaced
  <2> QED BY <1>3, <2>4 DEF k, s
<1>6. st[c].kind # "nothing"
  BY DEF TypeOK, States, Kinds
<1>7. requests[c] # [kind |-> "nothing"] /\ requests[c].open
  <2>1. [kind |-> st[c].kind, shown |-> st[c].shown, open |-> TRUE].kind # [kind |-> "nothing"].kind
    BY <1>6
  <2> QED BY <1>2, <1>4, <2>1
<1> HIDE DEF requests, y
<1> QED BY <1>1, <1>2, <1>5, <1>7 DEF Alone!Open, Alone!Close, Alone!Nothing, requests

(* What an answer of one's own data says.                                  *)
LEMMA AnswersAreSayings ==
  ASSUME IInv, AnswerIsOwn', NEW c \in Calls, Answer(c)
  PROVE  /\ Said(answer)' \in Alone!Sayings
         /\ Alone!Fits(c, AsRequest(st[c]), Said(answer)')
         /\ answer'.to = c /\ answer'.given
<1> DEFINE x == st[c]
<1>1. /\ x.pc = "answer" /\ x.kind \in Kinds /\ Route(c, x)
      /\ answer'.given /\ answer'.to = c /\ answer'.kind = x.kind
      /\ answer'.shown = x.shown /\ answer'.op = x.op /\ answer'.ok = x.ok
  BY Own DEF Answer, At, States
<1>2. /\ AsRequest(x).kind = x.kind /\ AsRequest(x).shown = x.shown
  BY <1>1 DEF AsRequest
<1>3. /\ Message("mint", c) # <<>>
      /\ <<Piece("random", c)>> \o Message("issue", c) # <<>>
  <2>1. ASSUME NEW op \in {"mint", "issue"}
        PROVE  Message(op, c) \in Seq(Pieces) /\ Len(Message(op, c)) = 4
    <3>1. op \in Ops /\ op # "work"
      BY DEF Ops
    <3>2. Len(FieldsOf[op]) = 4
      BY <3>1, FieldFacts
    <3> QED BY <3>1, <3>2, MessageFacts
  <2> DEFINE issued == Message("issue", c)
  <2>2. issued \in Seq(Pieces) /\ Len(issued) = 4 /\ Message("mint", c) # <<>>
    BY <2>1
  <2> HIDE DEF issued
  <2>3. ASSUME NEW p PROVE <<p>> \o issued # <<>>
    BY <2>2
  <2> QED BY <2>2, <2>3 DEF issued
<1>4. CASE x.kind = "validate"
  <2>1. Said(answer)' = IF x.ok THEN "admit" ELSE "deny"
    BY <1>1, <1>4 DEF Said
  <2>2. x.ok => x.shown = c
    BY <1>1, <1>4 DEF AnswerIsOwn
  <2> QED BY <1>1, <1>2, <1>4, <2>1, <2>2 DEF Alone!Fits, Alone!Sayings
<1>5. CASE x.kind = "get"
  <2>1. answer'.body = <<Piece("random", c)>> \o Message("issue", c) /\ answer'.token = <<>>
    BY <1>1, <1>5 DEF AnswerIsOwn
  <2>2. Said(answer)' = "challenge"
    BY <1>1, <1>3, <1>5, <2>1 DEF Said
  <2> QED BY <1>1, <1>2, <1>5, <2>2 DEF Alone!Fits, Alone!Sayings
<1>6. CASE x.kind \in {"post", "grant"}
  <2>1. /\ answer'.body = <<>>
        /\ answer'.token = IF x.op = "mint" THEN Message("mint", c) ELSE <<>>
        /\ x.op = "mint" => x.kind = "grant" \/ x.shown = c
    BY <1>1, <1>6 DEF AnswerIsOwn
  <2>2. Said(answer)' = IF x.op = "mint" THEN "cookie" ELSE "nothing"
    BY <1>1, <1>3, <1>6, <2>1 DEF Said
  <2>3. x.kind = "grant" => x.op = "mint"
    BY <1>1 DEF Route
  <2> QED BY <1>1, <1>2, <1>6, <2>1, <2>2, <2>3 DEF Alone!Fits, Alone!Sayings
<1>7. CASE x.kind = "refuse"
  <2>1. answer'.body = <<>> /\ answer'.token = <<>>
    BY <1>1, <1>7 DEF AnswerIsOwn
  <2>2. Said(answer)' = "nothing"
    BY <1>1, <1>3, <1>7, <2>1 DEF Said
  <2> QED BY <1>1, <1>2, <1>7, <2>2 DEF Alone!Fits, Alone!Sayings
<1> QED BY <1>1, <1>4, <1>5, <1>6, <1>7 DEF Kinds

LEMMA ReleasingIsAllowed ==
  ASSUME IInv, AnswerIsOwn', NEW c \in Calls, Release(c)
  PROVE  Alone!Next
<1>1. TypeOK BY DEF IInv
<1>2. CASE ReleaseSHA256(c)
  BY <1>2, StayingIsWork, WorkIsWork DEF ReleaseSHA256
<1>3. CASE ReleaseHMAC(c)
  BY <1>3, StayingIsWork, WorkIsWork DEF ReleaseHMAC
<1>4. CASE ReleaseCookieBuffer(c)
  BY <1>4, StayingIsWork, WorkIsWork DEF ReleaseCookieBuffer
<1>5. CASE ValidatorReturns(c)
  <2>1. \E op, n, ok : Becomes(c, "buffer", op, n, ok) \/ Becomes(c, "answer", op, n, ok)
    BY <1>5 DEF ValidatorReturns
  <2>2. Busy(st[c]) /\ answer' = NoAnswer
    BY <1>5 DEF ValidatorReturns, At, Busy
  <2> QED BY <1>1, <2>1, <2>2, BecomingIsWork, WorkIsWork
<1>6. CASE Answer(c)
  <2>1. Busy(st[c]) /\ Goto(c, "leave")
    BY <1>6 DEF Answer, At, Busy
  <2>2. /\ Said(answer)' \in Alone!Sayings
        /\ Alone!Fits(c, AsRequest(st[c]), Said(answer)')
        /\ answer'.to = c /\ answer'.given
    BY <1>6, AnswersAreSayings
  <2>3. Alone!Open(c) /\ Alone!Close(c)
    BY <1>1, <2>1, Closing
  <2>4. AsTold' = [said |-> TRUE, to |-> c, what |-> Said(answer)']
    BY <2>2 DEF AsTold
  <2>5. [d \in Calls |-> AsRequest(st[d])][c] = AsRequest(st[c])
    OBVIOUS
  <2>6. Alone!Say(c)
    BY <2>2, <2>3, <2>4, <2>5 DEF Alone!Say
  <2> QED BY <2>6 DEF Alone!Next
<1>7. CASE GiveUp(c)
  <2>1. Busy(st[c]) /\ Goto(c, "leave") /\ answer' = NoAnswer
    BY <1>7 DEF GiveUp, At, Busy
  <2>2. Alone!Open(c) /\ Alone!Close(c) /\ AsTold' = [said |-> FALSE]
    BY <1>1, <2>1, Closing DEF AsTold, NoAnswer
  <2> QED BY <2>2 DEF Alone!Next, Alone!GiveUp, Alone!Silence
<1>8. CASE ReleaseValidatorResponse(c)
  BY <1>8, StayingIsWork, WorkIsWork DEF ReleaseValidatorResponse
<1>9. CASE ReleaseValidatorRequest(c)
  BY <1>9, StayingIsWork, WorkIsWork DEF ReleaseValidatorRequest
<1>10. CASE ReleaseHostBuf(c)
  <2> DEFINE requests == [d \in Calls |-> AsRequest(st[d])]
  <2>1. st[c].pc = "leave" /\ st' = [st EXCEPT ![c] = Idle] /\ answer' = NoAnswer
    BY <1>10 DEF ReleaseHostBuf, At
  <2>2. requests' = [requests EXCEPT ![c] = AsRequest(Idle)]
    BY <1>1, <2>1, OneIsAsked
  <2>3. AsRequest(Idle) = [kind |-> "nothing"] /\ AsTold' = [said |-> FALSE]
    BY <2>1 DEF AsRequest, Idle, AsTold, NoAnswer
  <2>4. requests[c] = [kind |-> st[c].kind, shown |-> st[c].shown, open |-> FALSE]
    BY <2>1 DEF AsRequest
  <2>5. st[c].kind # "nothing"
    BY <1>1 DEF TypeOK, States, Kinds
  <2>6. requests[c] # [kind |-> "nothing"] /\ ~requests[c].open
    <3>1. [kind |-> st[c].kind, shown |-> st[c].shown, open |-> FALSE].kind # [kind |-> "nothing"].kind
      BY <2>5
    <3> QED BY <2>4, <3>1
  <2> HIDE DEF requests
  <2>7. Alone!Leave(c)
    BY <2>2, <2>3, <2>6 DEF Alone!Leave, Alone!Open, Alone!Nothing, Alone!Silence, requests
  <2> QED BY <2>7 DEF Alone!Next
<1> QED
  BY <1>2, <1>3, <1>4, <1>5, <1>6, <1>7, <1>8, <1>9, <1>10 DEF Release

(* Every step of calls in shared objects is a step of calls that share     *)
(* nothing, or none at all. (both handlers and everything they call)       *)
THEOREM SharingIsInvisible == Spec => AsIfAlone
<1>1. Init => Alone!Init
  BY DEF Init, Alone!Init, Alone!Nothing, Alone!Silence, AsRequest, Idle, AsTold, NoAnswer
<1>2. IInv /\ IInv' /\ [Next]_vars => [Alone!Next]_Alone!policyVars
  <2> SUFFICES ASSUME IInv, IInv', [Next]_vars PROVE [Alone!Next]_Alone!policyVars
    OBVIOUS
  <2>1. CASE Next
    <3>1. PICK c \in Calls :
            (\E o \in Objects : Acquire(c, o)) \/ Hash(c) \/ Use(c) \/ Release(c)
      BY <2>1 DEF Next
    <3>2. AnswerIsOwn' BY DEF IInv
    <3>3. Alone!Next
      BY <3>1, <3>2, AcquiringIsAllowed, HashingIsAllowed, UsingIsAllowed,
         ReleasingIsAllowed
    <3> QED BY <3>3
  <2>2. CASE UNCHANGED vars
    BY <2>2 DEF vars, Alone!policyVars, AsTold, Said
  <2> QED BY <2>1, <2>2
<1> QED
  BY <1>1, <1>2, PoolInvariant, PTL DEF Spec, AsIfAlone, Alone!Spec
=============================================================================

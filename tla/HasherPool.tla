----------------------------- MODULE HasherPool -----------------------------
(***************************************************************************)
(* The pooled objects that concurrent handler calls share: HMAC and SHA    *)
(* hashers (berghain.go, validator_pow.go, hasher.go), cookie buffers      *)
(* (identity.go), requests and responses (validators.go) and host buffers  *)
(* (frontend.go).                                                          *)
(*                                                                         *)
(* A call takes objects from their sync.Pool, writes what it signs piece   *)
(* by piece, reads the sum out of the array inside the hasher, and returns *)
(* the objects in deferred calls, on every path out. Nothing but this      *)
(* discipline keeps the calls apart: what an object holds stays in it.     *)
(***************************************************************************)
EXTENDS Integers, Sequences

CONSTANTS
  Calls,    \* handler calls that may run at the same time
  Objects,  \* everything the pools have made
  PoolOf,   \* PoolOf[o]: the pool of an object, one of Slots
  None      \* no object

Slots == {"host", "req", "resp", "buf", "hmac", "sha"}
Kinds == {"validate", "get", "post", "grant", "refuse"}

ASSUME PoolAssumption ==
  /\ PoolOf \in [Objects -> Slots]
  /\ None \notin Objects

VARIABLES
  st,       \* st[c]: where call c is, see Stages
  held,     \* held[c][s]: the object of pool s that call c uses
  free,     \* objects in their pools
  content,  \* content[o]: what a hasher was fed, what a buffer holds
  token,    \* token[o]: the Token of a response
  sum,      \* sum[o]: the array behind a hasher's last Sum
  answer    \* what HAProxy was told by the last step, if anything

vars == <<st, held, free, content, token, sum, answer>>

------------------------------------------------------------------------------
(* What is hashed                                                          *)

Ops == {"check", "mint", "issue", "verify", "work"}

FieldsOf ==
  [check  |-> <<"host", "addr", "level", "exp">>,
   mint   |-> <<"host", "addr", "level", "exp">>,
   issue  |-> <<"host", "addr", "level", "random">>,
   verify |-> <<"host", "addr", "level", "random">>,
   work   |-> <<"random", "nonce">>]

(* A piece of data is told apart by what it is and whose request it is of. *)
FieldNames  == {"host", "addr", "level", "exp", "random", "nonce", "identifier"}
Piece(f, c) == [field |-> f, of |-> c]
Pieces      == [field : FieldNames, of : Calls]

(* The message a call of this kind must hash, and, HMACs being symbolic,   *)
(* the sum it must get.                                                    *)
Message(op, c) == [i \in 1 .. Len(FieldsOf[op]) |-> Piece(FieldsOf[op][i], c)]

(* validate: IsValidCookie. get, post: the two methods of validatorPOW.    *)
(* grant: an answer that calls ToCookie only. refuse: one without either.  *)
FirstOp ==
  [validate |-> "check", get |-> "issue", post |-> "verify",
   grant |-> "mint", refuse |-> "check"]

Stages == {"idle", "request", "response", "buffer", "hasher", "hash",
           "filled", "sum", "unwind", "answer", "leave"}

Idle == [pc |-> "idle", kind |-> "refuse", shown |-> None, op |-> "check",
         n |-> 0, ok |-> FALSE]

NoObjects == [s \in Slots |-> None]
NoAnswer  == [given |-> FALSE]

------------------------------------------------------------------------------
(* Pools                                                                   *)

(* Objects that New has yet to make, or makes again after the pool forgot  *)
(* them, are empty like the ones put back: they are in the pool.           *)
Init ==
  /\ st = [c \in Calls |-> Idle]
  /\ held = [c \in Calls |-> NoObjects]
  /\ free = Objects
  /\ content = [o \in Objects |-> <<>>]
  /\ token = [o \in Objects |-> <<>>]
  /\ sum = [o \in Objects |-> <<>>]
  /\ answer = NoAnswer

Get(c, s, o) ==
  /\ o \in free /\ PoolOf[o] = s
  /\ free' = free \ {o}
  /\ held' = [held EXCEPT ![c][s] = o]

(* Mutant: a response goes back with its token in it.                      *)
KeepsToken(c, s, also) ==
  /\ held[c][s] # None
  /\ free' = free \cup {held[c][s]}
  /\ held' = [held EXCEPT ![c][s] = None]
  /\ content' = [o \in Objects |-> IF o \in {held[c][s]} \cup also THEN <<>>
                                    ELSE content[o]]
  /\ UNCHANGED <<token, sum>>

(* Every release empties the object before it is in the pool again (and    *)
(* what else is reset by then). The array of a hasher's last sum may be    *)
(* overwritten from then on: what was in it is lost.                       *)
Put(c, s, also) ==
  /\ held[c][s] # None
  /\ free' = free \cup {held[c][s]}
  /\ held' = [held EXCEPT ![c][s] = None]
  /\ content' = [o \in Objects |-> IF o \in {held[c][s]} \cup also THEN <<>>
                                    ELSE content[o]]
  /\ token' = [token EXCEPT ![held[c][s]] = <<>>]
  /\ sum' = [sum EXCEPT ![held[c][s]] = <<>>]

------------------------------------------------------------------------------
(* The handlers up to the validator                                        *)

At(c, pc)  == st[c].pc = pc
Goto(c, pc) == st' = [st EXCEPT ![c].pc = pc]
Becomes(c, pc, op, n, ok) ==
  st' = [st EXCEPT ![c] = [pc |-> pc, kind |-> st[c].kind, shown |-> st[c].shown,
                           op |-> op, n |-> n, ok |-> ok]]
Done(c, ok) == Becomes(c, "unwind", st[c].op, st[c].n, ok)

(* A message arrives: its host is copied into a host buffer, to which the  *)
(* RequestIdentifier points from then on. shown is the call whose cookie   *)
(* or challenge the request carries.                                       *)
Start(c, kind, shown, o) ==
  /\ At(c, "idle")
  /\ Get(c, "host", o)
  /\ content' = [content EXCEPT ![o] = Append(@, Piece("host", c))]
  /\ st' = [st EXCEPT ![c] =
       [pc |-> IF kind = "validate" THEN "buffer" ELSE "request",
        kind |-> kind, shown |-> shown, op |-> FirstOp[kind], n |-> 0,
        ok |-> FALSE]]
  /\ UNCHANGED <<token, sum>> /\ answer' = NoAnswer

AcquireValidatorRequest(c, o) ==
  /\ At(c, "request")
  /\ Get(c, "req", o)
  /\ content' = [content EXCEPT ![o] = <<Piece("identifier", c)>>]
  /\ Goto(c, "response")
  /\ UNCHANGED <<token, sum>> /\ answer' = NoAnswer

(* A refused request leaves without hashing anything: a malformed body or  *)
(* support ID, a captcha the provider rejects.                             *)
AcquireValidatorResponse(c, o) ==
  /\ At(c, "response")
  /\ Get(c, "resp", o)
  /\ Goto(c, CASE st[c].kind = "refuse" -> "answer"
               [] st[c].kind = "grant"  -> "buffer"
               [] OTHER                 -> "hasher")
  /\ UNCHANGED <<content, token, sum>> /\ answer' = NoAnswer

(* A message without cookie, without method or body, or with an unknown    *)
(* method: the handler returns, its deferred releases run.                 *)
GiveUp(c) ==
  /\ \/ At(c, "response")
     \/ At(c, "buffer") /\ st[c].kind = "validate"
  /\ Goto(c, "leave")
  /\ UNCHANGED <<held, free, content, token, sum>> /\ answer' = NoAnswer

------------------------------------------------------------------------------
(* Hashing                                                                 *)

(* ToCookie and IsValidCookie hold their buffer throughout; onNew and      *)
(* isValid of a PoW have WriteTo take one for the identity only.           *)
HoldsBuffer(op) == op \in {"check", "mint"}
WritesTo(op)    == op \in {"issue", "verify"}

(* The identity is read through the request, where there is one.           *)
Identity(c) ==
  IF held[c]["req"] = None THEN c ELSE content[held[c]["req"]][1].of

Hasher(c) == IF st[c].op = "work" THEN held[c]["sha"] ELSE held[c]["hmac"]

NextField(c) == FieldsOf[st[c].op][st[c].n + 1]
More(c)      == st[c].n < Len(FieldsOf[st[c].op])

AcquireCookieBuffer(c, o) ==
  /\ At(c, "buffer")
  /\ Get(c, "buf", o)
  /\ Goto(c, IF HoldsBuffer(st[c].op) THEN "hasher" ELSE "hash")
  /\ UNCHANGED <<content, token, sum>> /\ answer' = NoAnswer

(* onNew writes its template, with the random, into the response's body.   *)
AcquireHMAC(c, o) ==
  /\ At(c, "hasher") /\ st[c].op # "work"
  /\ Get(c, "hmac", o)
  /\ content' = IF st[c].op = "issue"
                THEN [content EXCEPT ![held[c]["resp"]] = Append(@, Piece("random", c))]
                ELSE content
  /\ Goto(c, IF HoldsBuffer(st[c].op) THEN "hash" ELSE "buffer")
  /\ UNCHANGED <<token, sum>> /\ answer' = NoAnswer

(* isValid takes a SHA hasher while it still holds the HMAC.               *)
AcquireSHA256(c, o) ==
  /\ At(c, "hasher") /\ st[c].op = "work"
  /\ Get(c, "sha", o)
  /\ Goto(c, "hash")
  /\ UNCHANGED <<content, token, sum>> /\ answer' = NoAnswer

(* The host is hashed from the host buffer; random and nonce come from the *)
(* posted body, the random of a new challenge from the response's.         *)
Direct(c) ==
  CASE NextField(c) = "host" -> content[held[Identity(c)]["host"]]
    [] NextField(c) = "random" /\ st[c].op = "issue" ->
         <<Head(content[held[c]["resp"]])>>
    [] OTHER -> <<Piece(NextField(c), c)>>

WriteDirect(c) ==
  /\ At(c, "hash") /\ More(c)
  /\ NextField(c) \in {"host", "random", "nonce"}
  /\ NextField(c) = "random" => held[c]["buf"] = None
  /\ content' = [content EXCEPT ![Hasher(c)] = @ \o Direct(c)]
  /\ Becomes(c, "hash", st[c].op, st[c].n + 1, st[c].ok)
  /\ UNCHANGED <<held, free, token, sum>> /\ answer' = NoAnswer

(* Address, level and expiration are laid out in the cookie buffer first.  *)
Fill(c) ==
  /\ At(c, "hash") /\ More(c)
  /\ NextField(c) \in {"addr", "level", "exp"}
  /\ content' = [content EXCEPT ![held[c]["buf"]] =
                   IF NextField(c) = "addr" THEN <<Piece("addr", Identity(c))>>
                   ELSE Append(@, Piece(NextField(c), Identity(c)))]
  /\ Goto(c, "filled")
  /\ UNCHANGED <<held, free, token, sum>> /\ answer' = NoAnswer

WriteBuffer(c) ==
  /\ At(c, "filled")
  /\ content' = [content EXCEPT ![Hasher(c)] = @ \o content[held[c]["buf"]],
                                ![held[c]["buf"]] = <<>>]
  /\ Becomes(c, "hash", st[c].op, st[c].n + 1, st[c].ok)
  /\ UNCHANGED <<held, free, token, sum>> /\ answer' = NoAnswer

(* WriteTo returns its buffer when the identity is hashed.                 *)
WriteToReturns(c) ==
  /\ At(c, "hash") /\ WritesTo(st[c].op)
  /\ st[c].n = 3
  /\ Put(c, "buf", {})
  /\ UNCHANGED st /\ answer' = NoAnswer

LeavesAtOnce(c) ==   \* mutant: it leaves without its deferred releases
  /\ st[c].op = "check"
  /\ \/ At(c, "filled") /\ st[c].n >= 2
     \/ At(c, "hash") /\ ~More(c)
  /\ Becomes(c, "answer", "check", st[c].n, FALSE)
  /\ UNCHANGED <<held, free, content, token, sum>> /\ answer' = NoAnswer

(* IsValidCookie leaves at once if the cookie is not of the right length,  *)
(* and with the hasher half fed for a field that is not hex, a level that  *)
(* is too low, an expiration that has passed.                              *)
IsValidCookieFails(c) ==
  /\ st[c].op = "check"
  /\ \/ At(c, "buffer")
     \/ At(c, "filled") /\ st[c].n >= 2
     \/ At(c, "hash") /\ ~More(c)
  /\ Done(c, FALSE)
  /\ UNCHANGED <<held, free, content, token, sum>> /\ answer' = NoAnswer

(* Sum appends to an empty slice of fixed capacity: the result is written  *)
(* to, and stays in, the hasher's own array.                               *)
Sum(c) ==
  /\ At(c, "hash") /\ ~More(c)
  /\ WritesTo(st[c].op) => held[c]["buf"] = None
  /\ sum' = [sum EXCEPT ![Hasher(c)] = content[Hasher(c)]]
  /\ Goto(c, "sum")
  /\ UNCHANGED <<held, free, content, token>> /\ answer' = NoAnswer

------------------------------------------------------------------------------
(* Using the sum                                                           *)

Shown(c) == Message(st[c].op, st[c].shown)
OurSum(c) == sum[Hasher(c)]

CompareCookie(c) ==
  /\ At(c, "sum") /\ st[c].op = "check"
  /\ Done(c, OurSum(c) = Shown(c))
  /\ UNCHANGED <<held, free, content, token, sum>> /\ answer' = NoAnswer

IssueChallenge(c) ==
  /\ At(c, "sum") /\ st[c].op = "issue"
  /\ content' = [content EXCEPT ![held[c]["resp"]] = @ \o OurSum(c)]
  /\ Done(c, TRUE)
  /\ UNCHANGED <<held, free, token, sum>> /\ answer' = NoAnswer

MintCookie(c) ==
  /\ At(c, "sum") /\ st[c].op = "mint"
  /\ token' = [token EXCEPT ![held[c]["resp"]] = @ \o OurSum(c)]
  /\ Done(c, TRUE)
  /\ UNCHANGED <<held, free, content, sum>> /\ answer' = NoAnswer

(* The expected sum is put into the response's body to be compared. If it  *)
(* differs it stays there until the deferred Reset; if not, the body is    *)
(* reset, filled with the decoded expiration, and a check that fails       *)
(* leaves that to the deferred Reset as well.                              *)
VerifyFails(c) ==
  /\ At(c, "sum") /\ st[c].op = "verify"
  /\ content' = [content EXCEPT ![held[c]["resp"]] =
                   IF OurSum(c) = Shown(c) THEN <<Piece("exp", c)>>
                   ELSE @ \o OurSum(c)]
  /\ Done(c, FALSE)
  /\ UNCHANGED <<held, free, token, sum>> /\ answer' = NoAnswer

PassesUncompared(c) ==   \* mutant: the sums are not compared
  /\ At(c, "sum") /\ st[c].op = "verify"
  /\ content' = [content EXCEPT ![held[c]["resp"]] = <<Piece("exp", c)>>]
  /\ Becomes(c, "hasher", "work", 0, FALSE)
  /\ UNCHANGED <<held, free, token, sum>> /\ answer' = NoAnswer

VerifyPasses(c) ==
  /\ At(c, "sum") /\ st[c].op = "verify"
  /\ OurSum(c) = Shown(c)
  /\ content' = [content EXCEPT ![held[c]["resp"]] = <<Piece("exp", c)>>]
  /\ Becomes(c, "hasher", "work", 0, FALSE)
  /\ UNCHANGED <<held, free, token, sum>> /\ answer' = NoAnswer

(* Whether the digest has the prefix depends on the nonce; a digest that   *)
(* is not this call's has it for no reason of this call.                   *)
CheckWork(c, solves) ==
  /\ At(c, "sum") /\ st[c].op = "work"
  /\ Done(c, solves /\ OurSum(c) = Message("work", c))
  /\ UNCHANGED <<held, free, content, token, sum>> /\ answer' = NoAnswer

------------------------------------------------------------------------------
(* Deferred calls, last one first                                          *)

ReleaseSHA256(c) ==
  /\ At(c, "unwind")
  /\ Put(c, "sha", {})
  /\ UNCHANGED st /\ answer' = NoAnswer

NoReset(c) == {}   \* mutant: isValid does not reset the body

(* isValid of a PoW defers a Reset of the body it used as a buffer.        *)
DeferredReset(c) ==
  IF st[c].op \in {"verify", "work"} THEN {held[c]["resp"]} ELSE {}

ReleaseHMAC(c) ==
  /\ At(c, "unwind")
  /\ held[c]["sha"] = None
  /\ Put(c, "hmac", DeferredReset(c))
  /\ UNCHANGED st /\ answer' = NoAnswer

ReleaseCookieBuffer(c) ==
  /\ At(c, "unwind")
  /\ held[c]["hmac"] = None
  /\ Put(c, "buf", {})
  /\ UNCHANGED st /\ answer' = NoAnswer

(* A PoW answer that passed goes on to ToCookie.                           *)
ValidatorReturns(c) ==
  /\ At(c, "unwind")
  /\ \A s \in {"buf", "hmac", "sha"} : held[c][s] = None
  /\ IF st[c].op = "work" /\ st[c].ok THEN Becomes(c, "buffer", "mint", 0, FALSE)
     ELSE Becomes(c, "answer", st[c].op, st[c].n, st[c].ok)
  /\ UNCHANGED <<held, free, content, token, sum>> /\ answer' = NoAnswer

(* The variables are copied into the answer before anything is released.   *)
Answer(c) ==
  /\ At(c, "answer")
  /\ answer' = [given |-> TRUE, to |-> c, kind |-> st[c].kind,
                shown |-> st[c].shown, op |-> st[c].op, ok |-> st[c].ok,
                body  |-> IF st[c].kind = "validate" THEN <<>>
                          ELSE content[held[c]["resp"]],
                token |-> IF st[c].kind = "validate" THEN <<>>
                          ELSE token[held[c]["resp"]]]
  /\ Goto(c, "leave")
  /\ UNCHANGED <<held, free, content, token, sum>>

(* Response, request, host buffer: the handler's own deferred releases.    *)
ReleaseValidatorResponse(c) ==
  /\ At(c, "leave")
  /\ Put(c, "resp", {})
  /\ UNCHANGED st /\ answer' = NoAnswer

ReleaseValidatorRequest(c) ==
  /\ At(c, "leave")
  /\ held[c]["resp"] = None
  /\ Put(c, "req", {})
  /\ UNCHANGED st /\ answer' = NoAnswer

ReleaseHostBuf(c) ==
  /\ At(c, "leave")
  /\ held[c]["resp"] = None /\ held[c]["req"] = None
  /\ Put(c, "host", {})
  /\ st' = [st EXCEPT ![c] = Idle]
  /\ answer' = NoAnswer

------------------------------------------------------------------------------
Acquire(c, o) ==
  \/ \E kind \in Kinds, shown \in Calls : Start(c, kind, shown, o)
  \/ AcquireValidatorRequest(c, o)
  \/ AcquireValidatorResponse(c, o)
  \/ AcquireCookieBuffer(c, o)
  \/ AcquireHMAC(c, o)
  \/ AcquireSHA256(c, o)

Hash(c) ==
  \/ WriteDirect(c) \/ Fill(c) \/ WriteBuffer(c) \/ WriteToReturns(c)
  \/ IsValidCookieFails(c) \/ Sum(c)

Use(c) ==
  \/ CompareCookie(c) \/ IssueChallenge(c) \/ MintCookie(c)
  \/ VerifyFails(c) \/ VerifyPasses(c)
  \/ \E solves \in BOOLEAN : CheckWork(c, solves)

Release(c) ==
  \/ ReleaseSHA256(c) \/ ReleaseHMAC(c) \/ ReleaseCookieBuffer(c)
  \/ ValidatorReturns(c) \/ Answer(c) \/ GiveUp(c)
  \/ ReleaseValidatorResponse(c) \/ ReleaseValidatorRequest(c)
  \/ ReleaseHostBuf(c)

Next ==
  \E c \in Calls :
    (\E o \in Objects : Acquire(c, o)) \/ Hash(c) \/ Use(c) \/ Release(c)

Spec == Init /\ [][Next]_vars

------------------------------------------------------------------------------
(* Types                                                                   *)

States == [pc : Stages, kind : Kinds, shown : Calls \cup {None}, op : Ops,
           n : 0 .. 4, ok : BOOLEAN]

Answers == [given : {TRUE}, to : Calls, kind : Kinds, shown : Calls, op : Ops,
            ok : BOOLEAN, body : Seq(Pieces), token : Seq(Pieces)]

(* Every variable keeps its type.                                          *)
TypeOK ==
  /\ st \in [Calls -> States]
  /\ held \in [Calls -> [Slots -> Objects \cup {None}]]
  /\ free \subseteq Objects
  /\ content \in [Objects -> Seq(Pieces)]
  /\ token \in [Objects -> Seq(Pieces)]
  /\ sum \in [Objects -> Seq(Pieces)]
  /\ answer \in Answers \cup {NoAnswer}

------------------------------------------------------------------------------
(* Properties                                                              *)

(* Every pooled object is in its pool or used by one call, and by no two:  *)
(* no path out of a handler loses one, returns one early or returns one    *)
(* twice. (every acquire, release and early return)                        *)
OneUserEach ==
  \A o \in Objects :
    /\ o \in free => \A c \in Calls, s \in Slots : held[c][s] # o
    /\ o \notin free => \E c \in Calls : held[c][PoolOf[o]] = o
    /\ \A c, d \in Calls, s \in Slots :
         held[c][s] = o /\ held[d][s] = o => c = d

(* What HAProxy is told about a request comes from that request alone,     *)
(* whatever ran before it in the same objects or runs beside it: a cookie  *)
(* passes only if its sum is this identity's, a challenge carries this     *)
(* identity's sum and random, a refused answer neither a token nor the sum *)
(* that was expected, a token is this identity's. (SetBool, SetStringBytes *)
(* in both handlers)                                                       *)
AnswerIsOwn ==
  answer.given =>
    LET c == answer.to
    IN  CASE answer.kind = "validate" -> answer.ok => answer.shown = c
          [] answer.kind = "get" ->
               /\ answer.body = <<Piece("random", c)>> \o Message("issue", c)
               /\ answer.token = <<>>
          [] answer.kind \in {"post", "grant"} ->
               /\ answer.body = <<>>
               /\ answer.token = IF answer.op = "mint" THEN Message("mint", c)
                                 ELSE <<>>
               /\ answer.op = "mint" => answer.kind = "grant" \/ answer.shown = c
          [] OTHER -> answer.body = <<>> /\ answer.token = <<>>

(* An answer, read as a call without pools would have written it: anything *)
(* but exactly this request's data is none of CallPolicy's sayings.        *)
Said(a) ==
  CASE a.kind = "validate" -> IF a.ok THEN "admit" ELSE "deny"
    [] a.kind # "validate" /\ a.body = <<>> /\ a.token = <<>> -> "nothing"
    [] a.kind # "validate" /\ a.body = <<>> /\ a.token = Message("mint", a.to) ->
         "cookie"
    [] /\ a.kind # "validate"
       /\ a.body = <<Piece("random", a.to)>> \o Message("issue", a.to)
       /\ a.token = <<>> -> "challenge"
    [] OTHER -> "something else"

AsTold == IF answer.given
          THEN [said |-> TRUE, to |-> answer.to, what |-> Said(answer)]
          ELSE [said |-> FALSE]

AsRequest(x) == IF x.pc = "idle" THEN [kind |-> "nothing"]
                ELSE [kind |-> x.kind, shown |-> x.shown, open |-> x.pc # "leave"]

Alone == INSTANCE CallPolicy
           WITH asked <- [c \in Calls |-> AsRequest(st[c])], told <- AsTold

(* Calls that run beside each other in shared objects behave as if each    *)
(* were alone with objects of its own: one answer at most to a request, at *)
(* a moment when it is still open, of the request's kind, and none whose   *)
(* content or verdict another call has had a part in. (both handlers and   *)
(* everything they call)                                                   *)
AsIfAlone == Alone!Spec

------------------------------------------------------------------------------
(* What makes them inductive                                               *)

(* What is in a pool is empty.                                             *)
PooledIsEmpty ==
  \A o \in free : content[o] = <<>> /\ token[o] = <<>>

(* The operators below speak of one call: x is its state st[c], mine what  *)
(* it holds, and data, tokens, sums are content, token and sum.            *)
Has(mine, s) == mine[s] # None

(* The operations of each kind of call, and the stages they pass.          *)
Route(c, x) ==
  /\ x.pc = "idle" \/ x.shown \in Calls
  /\ x.kind = "validate" => x.op = "check"
  /\ x.kind = "get" => x.op = "issue"
  /\ x.kind = "post" => x.op \in {"verify", "work", "mint"}
  /\ x.kind = "grant" => x.op = "mint"
  /\ x.kind = "refuse" =>
       x.op = "check" /\ x.pc \in {"idle", "request", "response", "answer", "leave"}
  /\ x.kind = "validate" => x.pc \notin {"request", "response"}
  /\ x.pc \in {"request", "response"} => x.op = FirstOp[x.kind]
  /\ x.pc = "buffer" => x.op # "work"
  /\ x.pc = "filled" => /\ x.n < Len(FieldsOf[x.op])
                        /\ FieldsOf[x.op][x.n + 1] \in {"addr", "level", "exp"}
  /\ x.pc \in {"request", "response", "buffer", "hasher"} => x.n = 0
  /\ x.pc = "hash" => x.n <= Len(FieldsOf[x.op])
  /\ x.op = "work" \/ (x.kind = "post" /\ x.op = "mint") => x.shown = c
  /\ x.ok /\ x.op = "work" => x.pc \notin {"answer", "leave"}
  /\ x.op = "check" /\ x.ok => x.shown = c
  /\ x.op = "verify" /\ x.pc \in {"unwind", "answer"} => ~x.ok

(* What is held at which stage.                                            *)
Holding(x, mine) ==
  /\ \A s \in Slots : Has(mine, s) => PoolOf[mine[s]] = s
  /\ Has(mine, "host") <=> x.pc # "idle"
  /\ x.pc = "idle" => ~Has(mine, "req") /\ ~Has(mine, "resp")
  /\ x.pc # "leave" =>
       /\ Has(mine, "req") <=>
            x.kind # "validate" /\ x.pc \notin {"idle", "request"}
       /\ Has(mine, "resp") <=>
            x.kind # "validate" /\ x.pc \notin {"idle", "request", "response"}
  /\ x.pc # "unwind" =>
       /\ Has(mine, "hmac") <=>
            \/ x.pc \in {"hash", "filled", "sum"}
            \/ x.pc = "buffer" /\ WritesTo(x.op)
            \/ x.pc = "hasher" /\ x.op = "work"
       /\ Has(mine, "sha") <=> x.pc \in {"hash", "filled", "sum"} /\ x.op = "work"
       /\ Has(mine, "buf") => x.pc \in {"hasher", "hash", "filled", "sum"} /\ x.op # "work"
  /\ x.pc \in {"hasher", "hash", "filled", "sum"} /\ HoldsBuffer(x.op) => Has(mine, "buf")
  /\ x.pc = "filled" \/ (x.pc = "hash" /\ WritesTo(x.op) /\ x.n < 3) => Has(mine, "buf")
  /\ x.pc \in {"hasher", "sum"} /\ WritesTo(x.op) => ~Has(mine, "buf")
  /\ x.pc = "hash" /\ WritesTo(x.op) /\ x.n = 4 => ~Has(mine, "buf")

(* The hasher in use has been fed this call's message and nothing else.    *)
FedSoFar(c, x, fed) ==
  /\ Len(fed) = x.n
  /\ \A i \in 1 .. x.n : fed[i] = Piece(FieldsOf[x.op][i], c)

Fed(c, x, mine, data, sums) ==
  LET hasher == mine[IF x.op = "work" THEN "sha" ELSE "hmac"]
  IN  /\ x.pc \in {"hash", "filled"} => FedSoFar(c, x, data[hasher])
      /\ x.pc = "buffer" /\ WritesTo(x.op) => data[hasher] = <<>>
      /\ x.pc = "sum" => sums[hasher] = Message(x.op, c)
      /\ Has(mine, "host") => data[mine["host"]] = <<Piece("host", c)>>
      /\ Has(mine, "req") /\ x.pc # "leave" =>
           data[mine["req"]] = <<Piece("identifier", c)>>
      /\ Has(mine, "buf") /\ x.pc \in {"hasher", "hash"} => data[mine["buf"]] = <<>>
      /\ x.pc = "filled" =>
           data[mine["buf"]] = <<Piece(FieldsOf[x.op][x.n + 1], c)>>

(* The response holds what this call has put into it.                      *)
Response(c, x, mine, data, tokens) ==
  Has(mine, "resp") /\ x.pc # "leave" =>
    /\ x.kind = "get" =>
         data[mine["resp"]] =
           IF x.pc = "hasher" THEN <<>>
           ELSE IF x.pc \in {"unwind", "answer"}
                THEN <<Piece("random", c)>> \o Message("issue", c)
                ELSE <<Piece("random", c)>>
    /\ \/ x.kind \in {"grant", "refuse"}
       \/ x.kind = "post" /\ x.op # "work" /\ x.pc # "unwind"
       \/ x.kind = "post" /\ x.pc = "unwind" /\ ~Has(mine, "hmac")
       \/ x.kind = "post" /\ x.pc = "answer"
       \/ x.kind = "post" /\ x.op = "mint"
       => data[mine["resp"]] = <<>>
    /\ tokens[mine["resp"]] =
         IF x.op = "mint" /\ x.pc \in {"unwind", "answer"}
         THEN Message("mint", c) ELSE <<>>

CallOK(c, x, mine, data, tokens, sums) ==
  /\ Route(c, x)
  /\ Holding(x, mine)
  /\ Fed(c, x, mine, data, sums)
  /\ Response(c, x, mine, data, tokens)

IInv ==
  /\ TypeOK /\ OneUserEach /\ PooledIsEmpty /\ AnswerIsOwn
  /\ \A c \in Calls : CallOK(c, st[c], held[c], content, token, sum)
=============================================================================

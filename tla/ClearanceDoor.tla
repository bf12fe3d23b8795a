--------------------------- MODULE ClearanceDoor ---------------------------
(***************************************************************************)
(* Clearance implements DoorPolicy: challenges are jobs, cookies that      *)
(* reached a browser are passes, and a validate verdict is an answer.      *)
(***************************************************************************)
EXTENDS Clearance

AsJob(ch) == [who |-> ch.id, floor |-> ch.level, since |-> ch.since,
              life |-> Duration(ch.conf, ch.level)]

(* How the level of a cookie has it earned, and the token it used up.      *)
EarnedBy(c) ==
  CASE Type(c.conf, c.level) = "none"    -> "nothing"
    [] Type(c.conf, c.level) = "pow"     -> "job"
    [] Type(c.conf, c.level) = "captcha" -> "receipt"
ReceiptOf(c) == IF Type(c.conf, c.level) = "captcha" THEN c.work ELSE NoWork

AsPass(c) == [who |-> c.id, floor |-> c.level, at |-> c.at,
              life |-> Duration(c.conf, c.level),
              by |-> EarnedBy(c), receipt |-> ReceiptOf(c)]

AsAnswer ==
  IF verdict.given
  THEN [given |-> TRUE, who |-> verdict.id, floor |-> verdict.level,
        shown |-> {AsPass(c) : c \in {k \in cookies : Cookie(k) = verdict.shown}},
        admit |-> verdict.valid]
  ELSE [given |-> FALSE]

Door == INSTANCE DoorPolicy
          WITH Visitors <- Identities, Floors <- Uint8s, Receipts <- Tokens,
               NoReceipt <- NoWork,
               Grace <- Grace, Early <- MaxLag, Patience <- Grace + ProcTimeout,
               time <- now,
               jobs <- {AsJob(ch) : ch \in challenges},
               passes <- {AsPass(c) : c \in cookies},
               answer <- AsAnswer

(* Whatever agents, browsers and clocks do, the visitors see a door that   *)
(* gives jobs and passes, admits only on a pass that fits and is not too   *)
(* old, and never turns away one that fits and is young enough.            *)
KeepsThePromise == Door!Spec
=============================================================================

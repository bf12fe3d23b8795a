----------------------------- MODULE DoorPolicy -----------------------------
(***************************************************************************)
(* What the system promises, without clocks that lag, cookies, sums or     *)
(* calls in flight: a visitor is given jobs, earns passes, and is admitted *)
(* on a pass for as long as it lives.                                      *)
(***************************************************************************)
EXTENDS Integers

CONSTANTS
  Visitors,      \* who a pass is for
  Floors,        \* the levels a pass is good for, ordered
  Receipts,      \* captcha tokens
  NoReceipt,     \* what stands for them on a pass that needed none
  Grace,         \* a pass may be honoured this much longer than it lives
  Early,         \* ... and may be refused this much sooner
  Patience       \* how long after a job's life its pass may still come

VARIABLES time, jobs, passes, answer

doorVars == <<time, jobs, passes, answer>>

Jobs   == [who : Visitors, floor : Floors, since : Nat, life : Nat]
Passes == [who : Visitors, floor : Floors, at : Nat, life : Nat,
           by : {"nothing", "job", "receipt"}, receipt : Receipts \cup {NoReceipt}]

NoAnswer == [given |-> FALSE]

Init == time = 0 /\ jobs = {} /\ passes = {} /\ answer = NoAnswer

Wait ==
  /\ time' = time + 1
  /\ answer' = NoAnswer
  /\ UNCHANGED <<jobs, passes>>

GiveJobs ==
  /\ jobs \subseteq jobs'
  /\ \A j \in jobs' \ jobs : j \in Jobs /\ j.since = time
  /\ answer' = NoAnswer
  /\ UNCHANGED <<time, passes>>

(* A pass is free, or answers a job of the same visitor and floor that is  *)
(* not too old, or uses up a receipt that buys nothing else.               *)
Earned(p) ==
  /\ p \in Passes /\ p.at = time
  /\ p.by = "job" =>
       \E j \in jobs : /\ j.who = p.who /\ j.floor = p.floor
                       /\ time < j.since + j.life + Patience
  /\ p.by = "receipt" =>
       /\ p.receipt \in Receipts
       /\ \A q \in passes' \ {p} : q.receipt # p.receipt

GivePasses ==
  /\ passes \subseteq passes'
  /\ \A p \in passes' \ passes : Earned(p)
  /\ answer' = NoAnswer
  /\ UNCHANGED <<time, jobs>>

(* shown: the passes that what the visitor shows can stand for.            *)
Fits(p, a)  == p.who = a.who /\ a.floor <= p.floor
MayAdmit(a) == \E p \in a.shown : Fits(p, a) /\ time < p.at + p.life + Grace
MustAdmit(a) ==
  \E p \in a.shown : Fits(p, a) /\ time <= p.at + p.life - Early

Answer ==
  /\ answer' \in [given : {TRUE}, who : Visitors, floor : Floors,
                  shown : SUBSET passes, admit : BOOLEAN]
  /\ answer'.admit => MayAdmit(answer')
  /\ MustAdmit(answer') => answer'.admit
  /\ UNCHANGED <<time, jobs, passes>>

(* Nothing was asked.                                                      *)
Rest == answer' = NoAnswer /\ UNCHANGED <<time, jobs, passes>>

Next == Rest \/ Answer \/ Wait \/ GiveJobs \/ GivePasses

Spec == Init /\ [][Next]_doorVars
=============================================================================

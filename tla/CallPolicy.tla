----------------------------- MODULE CallPolicy -----------------------------
(***************************************************************************)
(* What handler calls promise each other, without pools, objects, buffers  *)
(* and sums: each is asked once, says at most one thing, and says it on    *)
(* account of its own request alone.                                       *)
(***************************************************************************)
CONSTANT Calls

VARIABLES
  asked,  \* asked[c]: the request of call c, and whether it may yet answer
  told    \* what was said in the last step, if anything

policyVars == <<asked, told>>

Kinds   == {"validate", "get", "post", "grant", "refuse"}
Sayings == {"admit", "deny", "challenge", "cookie", "nothing"}

Nothing == [kind |-> "nothing"]
Silence == [said |-> FALSE]

Init == asked = [c \in Calls |-> Nothing] /\ told = Silence

Ask(c) ==
  /\ asked[c] = Nothing
  /\ \E kind \in Kinds, shown \in Calls :
       asked' = [asked EXCEPT ![c] = [kind |-> kind, shown |-> shown, open |-> TRUE]]
  /\ told' = Silence

(* A cookie or a solution opens something only to the one it was made for. *)
Fits(c, request, what) ==
  \/ request.kind = "validate" /\ what = "deny"
  \/ request.kind = "validate" /\ what = "admit" /\ request.shown = c
  \/ request.kind = "get" /\ what = "challenge"
  \/ request.kind = "post" /\ what = "nothing"
  \/ request.kind = "post" /\ what = "cookie" /\ request.shown = c
  \/ request.kind = "grant" /\ what = "cookie"
  \/ request.kind = "refuse" /\ what = "nothing"

Open(c) == asked[c] # Nothing /\ asked[c].open
Close(c) == asked' = [asked EXCEPT ![c].open = FALSE]

Say(c) ==
  /\ Open(c)
  /\ \E what \in Sayings :
       /\ Fits(c, asked[c], what)
       /\ told' = [said |-> TRUE, to |-> c, what |-> what]
  /\ Close(c)

GiveUp(c) == Open(c) /\ Close(c) /\ told' = Silence

Leave(c) ==
  /\ asked[c] # Nothing /\ ~Open(c)
  /\ asked' = [asked EXCEPT ![c] = Nothing]
  /\ told' = Silence

(* What goes on inside a call.                                             *)
Work == told' = Silence /\ UNCHANGED asked

Next == Work \/ \E c \in Calls : Ask(c) \/ Say(c) \/ GiveUp(c) \/ Leave(c)

Spec == Init /\ [][Next]_policyVars
=============================================================================

---------------------------- MODULE MCHasherPool ----------------------------
(***************************************************************************)
(* HasherPool with two calls at a time and two objects in every pool.      *)
(***************************************************************************)
EXTENDS HasherPool, TLC

CONSTANTS c1, c2, h1, h2, q1, q2, r1, r2, b1, b2, m1, m2, d1, d2, none

Pools ==
  (h1 :> "host" @@ h2 :> "host") @@ (q1 :> "req" @@ q2 :> "req") @@
  (r1 :> "resp" @@ r2 :> "resp") @@ (b1 :> "buf" @@ b2 :> "buf") @@
  (m1 :> "hmac" @@ m2 :> "hmac") @@ (d1 :> "sha" @@ d2 :> "sha")

Swaps == Permutations(Calls) \cup Permutations({h1, h2}) \cup Permutations({q1, q2})
         \cup Permutations({r1, r2}) \cup Permutations({b1, b2})
         \cup Permutations({m1, m2}) \cup Permutations({d1, d2})
=============================================================================

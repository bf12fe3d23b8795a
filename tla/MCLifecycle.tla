---------------------------- MODULE MCLifecycle ----------------------------
(***************************************************************************)
(* Lifecycle with two processes, a restart that overlaps its predecessor.  *)
(***************************************************************************)
EXTENDS Lifecycle

CONSTANTS p1, p2
=============================================================================

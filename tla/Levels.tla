------------------------------- MODULE Levels -------------------------------
(***************************************************************************)
(* Which configured level serves a request (berghain.go, LevelConfig).     *)
(* The level argument and the number of levels are both converted to       *)
(* uint8 before they are compared, and the slice index is computed in      *)
(* uint8 as well.                                                          *)
(***************************************************************************)
EXTENDS Integers

Uint8(n) == n % 256

Lesser(a, b)  == IF a <= b THEN a ELSE b
Greater(a, b) == IF a >= b THEN a ELSE b

(* Mutant: a level above the configured ones is not corrected.             *)
NotCapped(n, level) == Uint8(Greater(1, level) - 1) + 1

(* The 1-based position in Levels that LevelConfig(level) reads when n     *)
(* levels are configured.                                                  *)
LevelIndex(n, level) ==
  LET corrected == Lesser(Uint8(n), Greater(1, level))
  IN  Uint8(corrected - 1) + 1
=============================================================================

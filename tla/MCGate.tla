------------------------------- MODULE MCGate -------------------------------
(***************************************************************************)
(* Gate with three levels asked for; the page itself sends three to four   *)
(* requests a round, so a round crosses a threshold.                       *)
(***************************************************************************)
EXTENDS Gate

CONSTANTS t1, t2

ThreeLevels   == <<1, 3, 5>>
Ladder        == <<"none", "pow", "captcha">>
PowTwice      == <<"pow", "pow", "captcha">>
AtOnceAndSlow == <<1, 0, 2>>

(* A level above the configured ones is asked for.                         *)
PowThenCaptcha == <<"pow", "captcha">>
OneTick        == <<1, 0>>
=============================================================================

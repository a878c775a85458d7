------------------------- MODULE MCGlobalInterpreter -------------------------
(***************************************************************************)
(* Instances of GlobalInterpreter for TLC: three calls, two of them on the *)
(* same interpreter.                                                       *)
(***************************************************************************)
EXTENDS GlobalInterpreter, TLC

CONSTANTS c1, c2, c3, i1, i2

Caller == c1 :> i1 @@ c2 :> i2 @@ c3 :> i1
=============================================================================

------------------------- MODULE MCScriptTransaction -------------------------
(***************************************************************************)
(* Instances of ScriptTransaction for TLC: three requests, with scripts    *)
(* chosen for what the loop would take their lines for.                    *)
(***************************************************************************)
EXTENDS ScriptTransactionInvariants, TLC

CONSTANTS r1, r2, r3

\* Within the limit: two lines without a final newline, an empty script, and
\* three lines one of which is a numeral.
AcceptedBody == r1 :> <<Text, Unended>> @@ r2 :> <<>> @@ r3 :> <<1, Blank, Text>>

\* The script of r1 is longer than the limit of 2: the loop takes its lines
\* for lengths, the numeral among them for one it accepts.
OversizeBody == r1 :> <<1, Text, Blank, Unended>> @@ r2 :> <<Text, Unended>> @@ r3 :> <<>>
=============================================================================

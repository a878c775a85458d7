----------------------------- MODULE CommChannel -----------------------------
(***************************************************************************)
(* The stream socket pair between the C side (main_fd) and the embedded    *)
(* Ruby VM (second_fd), made by create_comm_channel, and what travels on   *)
(* it.                                                                     *)
(*                                                                         *)
(* A script is a sequence of lines, and a line is                          *)
(*   - a number, when the line is nothing but a decimal numeral,           *)
(*   - Blank, when it holds only white space,                              *)
(*   - Text, any other line, or                                            *)
(*   - Unended, a last line of any kind with no newline at its end.        *)
(* Lengths are counted in lines where the program counts bytes.            *)
(*                                                                         *)
(* The C side writes the prefix "<length>\n" and then the lines, so the    *)
(* unit of the stream is a line of a request: position 0 is the prefix,    *)
(* position k the k-th line of the script.  The owner of a unit is known   *)
(* to the model only: nothing on the wire tells requests apart, and no     *)
(* guard below reads it.                                                   *)
(***************************************************************************)
EXTENDS Naturals, Sequences

CONSTANTS
  Requests,        \* calls of ruby_vm_enqueue, one script each
  Body,            \* the lines of the script of a request
  Text, Blank, Unended,
  ToRubyCapacity,  \* units the kernel and Ruby's IO buffer hold, C to Ruby
  ToCCapacity      \* answers the kernel holds, Ruby to C

Line == Nat \union {Text, Blank, Unended}

\* No line kind is a number, and only the last line can lack its newline.
ASSUME LineAssumption ==
  /\ Text \notin Nat /\ Blank \notin Nat /\ Unended \notin Nat
  /\ Text # Blank /\ Text # Unended /\ Blank # Unended

ASSUME BodyAssumption ==
  /\ Body \in [Requests -> Seq(Line)]
  /\ \A r \in Requests : \A k \in 1..Len(Body[r]) :
       Body[r][k] = Unended => k = Len(Body[r])

ASSUME CapacityAssumption ==
  ToRubyCapacity \in Nat \ {0} /\ ToCCapacity \in Nat \ {0}

VARIABLES
  toRuby,    \* units written on main_fd that the interpreter has not consumed
  toC,       \* answers written on second_fd that no script thread has read
  rubyOpen   \* second_fd is open

channelVars == <<toRuby, toC, rubyOpen>>

Unit == [of : Requests, pos : Nat]

\* An answer is its exit code; "of" is the request Ruby was serving.
Answer == [code : {0, 1}, of : Requests]

CommChannelTypeOK ==
  /\ toRuby \in Seq(Unit) /\ Len(toRuby) <= ToRubyCapacity
  /\ toC \in Seq(Answer) /\ Len(toC) <= ToCCapacity
  /\ rubyOpen \in BOOLEAN

CommChannelInit == toRuby = <<>> /\ toC = <<>> /\ rubyOpen = TRUE

Prefix(r) == [of |-> r, pos |-> 0]

LineOf(u) == IF u.pos = 0 THEN Len(Body[u.of]) ELSE Body[u.of][u.pos]

ToRubyFull == Len(toRuby) = ToRubyCapacity

\* A blocking write on main_fd that goes through.
WriteUnit(u) ==
  /\ rubyOpen /\ ~ToRubyFull
  /\ toRuby' = Append(toRuby, u)

\* A blocking write of "0\n" or "1\n" on second_fd; nobody closes main_fd.
WriteAnswer(c, r) ==
  /\ Len(toC) < ToCCapacity
  /\ toC' = Append(toC, [code |-> c, of |-> r])
=============================================================================

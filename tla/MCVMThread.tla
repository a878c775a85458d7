------------------------------ MODULE MCVMThread ------------------------------
(* An instance of VMThread for TLC: an archive with a directory and a file   *)
(* in it, one with a file whose directory no entry names, and the script.    *)
EXTENDS VMThread

CONSTANTS b1, b2, b3

Lib == <<"ruby">>
TwoArchives ==
  << << [path |-> Lib, dir |-> TRUE], [path |-> Append(Lib, "set.rb"), dir |-> FALSE] >>,
     << [path |-> <<"ext", "socket.so">>, dir |-> FALSE] >> >>
=============================================================================

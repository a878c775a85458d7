---------------------- MODULE ScriptTransactionInvariants ----------------------
(***************************************************************************)
(* The inductive invariants behind the theorems on ScriptTransaction.      *)
(***************************************************************************)
EXTENDS ScriptTransaction

\* The bounds that the types of the variables rest on: socket.read waits for
\* something, and Ruby works for some request once it has taken a line.
Working == {"read", "announce", "eval", "hung", "success", "confirm", "failure"}

TypeInv ==
  /\ TypeOK
  /\ rb = "read" => need > 0
  /\ rb \in Working => turn \in Requests

\* socket_lock is held exactly during a transaction, by one thread.
LockDiscipline ==
  /\ \A r \in Requests : phase[r] \in Transaction <=> r \in lock
  /\ \A r, s \in lock : r = s

\* Nothing of a request is on the socket before its thread writes; what the
\* writing thread wrote last is the end of the stream.
StreamInv ==
  /\ \A r \in Requests : phase[r] \in {"idle", "lost", "waiting", "prefix"} =>
       \A i \in 1..Len(toRuby) : toRuby[i].of # r
  /\ \A r \in Requests : phase[r] = "prefix" => sent = 0
  /\ \A r \in Requests : phase[r] = "body" /\ toRuby # <<>> =>
       toRuby[Len(toRuby)] = [of |-> r, pos |-> sent]
  /\ NoInterleaving

\* Every unit and every answer belongs to a request that was granted the
\* lock; the thread that holds it was granted it last.
Granted(r) == \E i \in 1..Len(granted) : granted[i] = r

GrantInv ==
  /\ \A i \in 1..Len(toRuby) : Granted(toRuby[i].of)
  /\ \A i \in 1..Len(toC) : Granted(toC[i].of)
  /\ rb \in Working => Granted(turn)
  /\ \A r \in lock : granted # <<>> /\ granted[Len(granted)] = r
  /\ NeverEarly

-----------------------------------------------------------------------------
(* How far the transaction of a request is, under Clean.  Each stage says  *)
(* where the VM thread is and what the socket holds.                       *)

Quiet == toRuby = <<>> /\ toC = <<>>

\* Ruby has not begun to read the request.
Unread(r) ==
  /\ rb \in {"boot", "absent", "gets", "confirm"} /\ verdict[r] = "none"
  /\ toC = <<>>
  /\ Len(toRuby) = sent + 1
  /\ \A i \in 1..Len(toRuby) : toRuby[i] = [of |-> r, pos |-> i - 1]

\* Ruby has part of the script; the socket holds the part that follows.
Loading(r) ==
  /\ rb = "read" /\ turn = r /\ verdict[r] = "none"
  /\ toC = <<>>
  /\ Len(loaded) + Len(toRuby) = sent
  /\ need + Len(loaded) = Len(Body[r])
  /\ \A i \in 1..Len(loaded) : loaded[i] = [of |-> r, pos |-> i]
  /\ \A i \in 1..Len(toRuby) : toRuby[i] = [of |-> r, pos |-> Len(loaded) + i]

\* Ruby has all of the script and has not concluded.
Evaluating(r) ==
  /\ rb \in {"announce", "eval", "hung"} /\ turn = r /\ verdict[r] = "none"
  /\ Quiet
  /\ Len(loaded) = Len(Body[r])
  /\ \A i \in 1..Len(loaded) : loaded[i] = [of |-> r, pos |-> i]

\* Ruby has concluded and has not answered.
Concluded(r) ==
  /\ turn = r
  /\ \/ rb = "success" /\ verdict[r] = "ok"
     \/ rb = "failure" /\ verdict[r] = "error"
  /\ Quiet

\* The answer is on the socket.
Answered(r) ==
  /\ rb \in {"gets", "confirm"}
  /\ toRuby = <<>> /\ Len(toC) = 1
  /\ toC[1].of = r
  /\ verdict[r] # "none"
  /\ toC[1].code = 0 <=> verdict[r] = "ok"

\* The script has ended the VM, or the process.
Ended(r) == rb = "over" /\ verdict[r] \in {"exit", "kill"} /\ Quiet

\* The thread is writing: Ruby can only be behind it.
Sending(r) ==
  /\ phase[r] = "body" /\ sent < Len(Body[r])
  /\ Unread(r) \/ Loading(r)

Waiting(r) ==
  /\ phase[r] = "reading" /\ sent = Len(Body[r])
  /\ \/ Unread(r) \/ Loading(r) \/ Evaluating(r)
     \/ Concluded(r) \/ Answered(r) \/ Ended(r)

\* Between transactions the socket is empty and the loop is idle or over.
Resting == Quiet /\ rb \in {"boot", "absent", "gets", "confirm", "over"}

Stage(r) ==
  \/ phase[r] = "prefix" /\ sent = 0 /\ Resting
  \/ Sending(r)
  \/ Waiting(r)
  \/ phase[r] = "unlocking" /\ Resting

ResultInv ==
  /\ OwnExitCode
  /\ \A r \in Requests :
       /\ phase[r] \in {"idle", "lost", "waiting", "prefix"} => verdict[r] = "none"
       /\ result[r] # {} => phase[r] \in {"unlocking", "completing", "done"}

\* The inductive invariant of the protocol under Clean.
TransactionInv ==
  /\ LockDiscipline
  /\ glued = FALSE /\ outputs = Output
  /\ rubyOpen <=> rb # "over"
  /\ lock = {} => Resting
  /\ \A r \in lock : Stage(r)
  /\ ResultInv

\* Who has ended the VM: the script whose thread still waits for its answer, or
\* one that has been reported as a failure.
EndedBy(r) ==
  /\ verdict[r] = "exit" \/ (verdict[r] = "kill" /\ ~hostAlive)
  /\ phase[r] = "reading" \/ \E a \in result[r] : a.code = 1

\* With TransactionInv, the inductive invariant behind DeathExplained.
DeathInv ==
  /\ rb = "over" => \E r \in Requests : EndedBy(r)
  /\ DeathExplained
=============================================================================

---------------------------- MODULE SerialExecutor ----------------------------
(***************************************************************************)
(* What the interpreter promises its callers (RubyInterpreter.enqueue in   *)
(* commonMain): scripts run one at a time, and the callback of each gets   *)
(* the exit code of that script, 0 when it succeeded.  The promise on the  *)
(* order is not part of this module: the code does not keep it.            *)
(***************************************************************************)
EXTENDS Naturals

CONSTANT Requests

VARIABLES
  status,    \* how far each request is
  verdict,   \* how the script of each request ended
  report     \* the exit codes handed over for each request

executorVars == <<status, verdict, report>>

Status == {"new", "queued", "running", "finished", "delivered"}

SerialExecutorTypeOK ==
  /\ status \in [Requests -> Status]
  /\ verdict \in [Requests -> {"none", "ok", "error", "exit", "kill"}]
  /\ report \in [Requests -> SUBSET {0, 1}]

Init ==
  /\ status = [r \in Requests |-> "new"]
  /\ verdict = [r \in Requests |-> "none"]
  /\ report = [r \in Requests |-> {}]

Running == {r \in Requests : status[r] = "running"}

Submit(r) ==
  /\ status[r] = "new"
  /\ status' = [status EXCEPT ![r] = "queued"]
  /\ UNCHANGED <<verdict, report>>

Start(r) ==
  /\ status[r] = "queued" /\ Running = {}
  /\ status' = [status EXCEPT ![r] = "running"]
  /\ UNCHANGED <<verdict, report>>

\* The script of the running request ends, once.
Conclude(r) ==
  /\ r \in Running /\ verdict[r] = "none"
  /\ \E v \in {"ok", "error", "exit", "kill"} : verdict' = [verdict EXCEPT ![r] = v]
  /\ UNCHANGED <<status, report>>

\* The exit code is that of the script itself.
Finish(r) ==
  /\ r \in Running /\ verdict[r] # "none"
  /\ status' = [status EXCEPT ![r] = "finished"]
  /\ report' = [report EXCEPT ![r] = {IF verdict[r] = "ok" THEN 0 ELSE 1}]
  /\ UNCHANGED verdict

Deliver(r) ==
  /\ status[r] = "finished"
  /\ status' = [status EXCEPT ![r] = "delivered"]
  /\ UNCHANGED <<verdict, report>>

Next ==
  \E r \in Requests : Submit(r) \/ Start(r) \/ Conclude(r) \/ Finish(r) \/ Deliver(r)

Spec == Init /\ [][Next]_executorVars
=============================================================================

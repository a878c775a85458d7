-------------------------- MODULE ScriptTransaction --------------------------
(***************************************************************************)
(* The script threads of ruby-vm.c and the loop of fifo_interpreter.rb at  *)
(* the two ends of the socket pair: how a script gets to the VM and how    *)
(* its exit code gets back.                                                *)
(***************************************************************************)
EXTENDS FifoInterpreter, ScriptThreads

vars == <<channelVars, rubyVars, threadVars>>

TypeOK == CommChannelTypeOK /\ FifoInterpreterTypeOK /\ ScriptThreadsTypeOK

Init == CommChannelInit /\ FifoInterpreterInit /\ ScriptThreadsInit

Ruby == hostAlive /\ RubyStep /\ UNCHANGED threadVars

\* The script that runs takes the whole process with it.
Kill ==
  /\ hostAlive /\ EvalKills
  /\ hostAlive' = FALSE
  /\ UNCHANGED <<phase, lock, sent, result, interrupts, enqueued, granted>>

Thread(r) == hostAlive /\ ThreadStep(r) /\ UNCHANGED rubyVars

Client(r) == hostAlive /\ ClientStep(r) /\ UNCHANGED rubyVars

Signal(r) == hostAlive /\ Interrupt(r) /\ UNCHANGED rubyVars

\* Nobody will answer any more: the files were not installed, a script never
\* ends, or the process is gone.
Stuck == rb \in {"absent", "hung"} \/ ~hostAlive

\* Every request has been dealt with, or none will be: the system may rest.
Rest ==
  /\ Stuck \/ \A r \in Requests : phase[r] \in {"done", "lost"}
  /\ UNCHANGED vars

Next ==
  \/ Ruby \/ Kill
  \/ \E r \in Requests : Client(r) \/ Thread(r) \/ Signal(r)
  \/ Rest

Spec == Init /\ [][Next]_vars

\* The scheduler runs every thread that can run.  Nothing is assumed of what a
\* script does to the process, of the clients, of signals, or of the order in
\* which the mutex is granted.
Fairness == WF_vars(Ruby) /\ \A r \in Requests : WF_vars(Thread(r))

FairSpec == Spec /\ Fairness

-----------------------------------------------------------------------------
(* The protocol holds up when no call is interrupted, every script is      *)
(* within the length the loop accepts, and no script closes an output.     *)

Clean ==
  /\ MaxInterrupts = 0
  /\ \A r \in Requests : Len(Body[r]) <= MaxLength
  /\ ~MayClose

\* Safety, without the above: two scripts are never mixed on the socket.
\* The units of one request lie together, in the order of its script,
\* because the lock is held over both writes of send_script_to_ruby.
NoInterleaving ==
  \A i \in 1..Len(toRuby) - 1 :
    \/ toRuby[i].of = toRuby[i + 1].of /\ toRuby[i + 1].pos = toRuby[i].pos + 1
    \/ toRuby[i].of # toRuby[i + 1].of /\ toRuby[i + 1].pos = 0

\* Safety, without the above: an exit code may be late but is never early.
\* The answer a thread has read was meant for its own request or for one
\* whose thread held socket_lock before.
NeverEarly ==
  \A r \in Requests : \A a \in result[r] :
    \E i, j \in 1..Len(granted) : granted[i] = a.of /\ granted[j] = r /\ i <= j

\* Safety: what is on the socket, in either direction, belongs to the
\* transaction that holds socket_lock; a thread that takes the lock finds
\* nothing left over.
SocketOfHolder ==
  /\ \A i \in 1..Len(toRuby) : toRuby[i].of \in lock
  /\ \A i \in 1..Len(toC) : toC[i].of \in lock

\* Safety: the loop evaluates the script of the lock holder, all of it and
\* nothing else.
EvaluatesWholeScript ==
  rb = "eval" =>
    /\ lock = {turn}
    /\ Len(loaded) = Len(Body[turn])
    /\ \A k \in 1..Len(loaded) : loaded[k] = [of |-> turn, pos |-> k]

\* Safety: the exit code a thread reports is 0 exactly when the evaluation
\* of its own script returned.
OwnExitCode ==
  \A r \in Requests : \A a \in result[r] : a.code = 0 <=> verdict[r] = "ok"

\* Safety: the process ends for three reasons only.  A thread that did not
\* start was detached; the script that runs ended the process; or a script
\* ended the VM alone, its thread has taken that for a failure, and another
\* script is being sent down the broken pipe.
DeathExplained ==
  ~hostAlive =>
    \/ \E r \in Requests : phase[r] = "lost"
    \/ \E r \in lock : verdict[r] = "kill" /\ phase[r] = "reading"
    \/ \E r, s \in Requests :
         /\ verdict[r] = "exit" /\ \E a \in result[r] : a.code = 1
         /\ lock = {s} /\ s # r /\ phase[s] = "prefix" /\ verdict[s] = "none"

\* Liveness: a script that waits for its turn when the VM has ended takes the
\* process down.  Its author, and the host, have done nothing wrong: src/README.md
\* promises "Isolation: Ruby crashes don't affect the main application".
EndOfVMEndsHost ==
  \A r \in Requests : phase[r] = "waiting" /\ rb = "over" ~> ~hostAlive

\* Action property: Ruby turns to the next request only when the exit code
\* of the one before has been read.
AnswerReadBeforeNextTurn == [][turn' # turn => toC = <<>>]_vars

\* Once a call has been interrupted, or a script longer than the loop accepts
\* has been sent, the two sides may block each other, each in a write.
Derailed ==
  interrupts > 0 \/ \E i \in 1..Len(granted) : Len(Body[granted[i]]) > MaxLength

\* Liveness: every request given to ruby_vm_enqueue has its callback invoked,
\* whatever happens to the others, and whatever they do to STDOUT and STDERR,
\* unless nobody answers any more.
CallbackInvoked ==
  \A r \in Requests :
    phase[r] = "waiting" ~> phase[r] = "done" \/ Stuck \/ Derailed

-----------------------------------------------------------------------------
(* What the documentation says and the code does not keep.                 *)

\* Safety: scripts get their turn in the order of the calls of
\* ruby_vm_enqueue (RubyInterpreter.enqueue, commonMain).
ExecutedInOrder ==
  \A i \in 1..Len(granted) : granted[i] = enqueued[i]

-----------------------------------------------------------------------------
(* Refinement of the promise to the callers.                               *)

StatusOf(p) ==
  CASE p = "idle" -> "new"
    [] p \in {"waiting", "lost"} -> "queued"
    [] p \in {"prefix", "body", "reading"} -> "running"
    [] p \in {"unlocking", "completing"} -> "finished"
    [] p = "done" -> "delivered"

Executor == INSTANCE SerialExecutor WITH
  Requests <- Requests,
  status <- [r \in Requests |-> StatusOf(phase[r])],
  verdict <- verdict,
  report <- [r \in Requests |-> {a.code : a \in result[r]}]

\* Refinement: scripts run one at a time and each gets its own exit code.
RunsSerially == Executor!Spec
=============================================================================

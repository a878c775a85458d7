------------------------- MODULE SerialExecutorProofs -------------------------
(***************************************************************************)
(* Under Clean, the script threads and the loop implement SerialExecutor:  *)
(* the refinement RunsSerially step by step, and the two properties that   *)
(* relate one transaction to the next.                                     *)
(***************************************************************************)
EXTENDS OwnExitCodeProofs

\* The types the steps below rest on.
LEMMA VariableTypes ==
  ASSUME TypeInv
  PROVE  /\ phase \in [Requests -> Phase] /\ lock \in SUBSET Requests
         /\ result \in [Requests -> SUBSET Answer]
         /\ verdict \in [Requests -> Verdict] /\ rb \in RubyState
         /\ toRuby \in Seq(Unit) /\ toC \in Seq(Answer)
         /\ interrupts \in 0..MaxInterrupts
BY DEF TypeInv, TypeOK, ScriptThreadsTypeOK, FifoInterpreterTypeOK,
       CommChannelTypeOK

-----------------------------------------------------------------------------
(***************************************************************************)
(* Turns.                                                                  *)
(***************************************************************************)

LEMMA TurnStep ==
  ASSUME TypeInv, TransactionInv, Next, turn' # turn
  PROVE  toC = <<>>
  <1>1. GetsRaises \/ GetsInvalid \/ GetsLength
    BY DEF Next, Rest, vars, Ruby, Kill, RubyStep, Loop, Boot, InstallFails,
           GetsPiece, GetsBlank, ReadUnit, Announce, AnnounceRaises, EvalReturns,
           EvalRaises, EvalExits, EvalKills, EvalHangs, Evaluation, AnswerSuccess,
           Confirm, AnswerFailure, FailureRaises, Client, Thread, Signal, rubyVars
  <1>2. rb = "gets" /\ toRuby # <<>>
    BY <1>1 DEF GetsRaises, GetsInvalid, GetsLength, TakeLine
  <1>3. PICK h \in lock : Stage(h)
    BY <1>2 DEF TransactionInv, Resting, Quiet
  <1>4. Unread(h)
    BY <1>2, <1>3 DEF Stage, Sending, Waiting, Loading, Evaluating, Concluded,
                      Answered, Ended, Resting, Quiet
  <1>5. QED
    BY <1>4 DEF Unread

\* Without interruptions, within the limit and with the outputs left open, Ruby
\* turns to the next request only when the exit code of the one before has
\* been read by its thread.
THEOREM AnswersAreReadInTurn ==
  ASSUME Clean
  PROVE  Spec => AnswerReadBeforeNextTurn
  <1>1. TypeInv /\ TransactionInv /\ [Next]_vars => [turn' # turn => toC = <<>>]_vars
    BY TurnStep
  <1>2. QED
    BY <1>1, TransactionInvariant, TypeInvariant, PTL
       DEF Spec, AnswerReadBeforeNextTurn

-----------------------------------------------------------------------------
(***************************************************************************)
(* How the process ends.                                                   *)
(***************************************************************************)

\* A step that changes what Ruby has concluded concludes the request whose
\* thread waits for the answer.
LEMMA VerdictStep ==
  ASSUME TypeInv, TransactionInv, Clean, Ruby \/ Kill
  PROVE  \/ verdict' = verdict
         \/ \E h \in lock, v \in {"ok", "error", "exit", "kill"} :
              /\ phase[h] = "reading" /\ verdict[h] = "none"
              /\ verdict' = [verdict EXCEPT ![h] = v]
  <1>1. (RubyStep \/ EvalKills) /\ UNCHANGED <<phase, sent>>
    BY DEF Ruby, Kill, threadVars
  <1>2. ASSUME verdict' # verdict
        PROVE  \E h \in lock, v \in {"ok", "error", "exit", "kill"} :
                 /\ phase[h] = "reading" /\ verdict[h] = "none"
                 /\ verdict' = [verdict EXCEPT ![h] = v]
    <2>1. PICK v \in {"ok", "error", "exit", "kill"} : Conclude(turn, v) \/ Conclude(turn', v)
      BY <1>1, <1>2
         DEF RubyStep, Loop, Boot, InstallFails, GetsPiece, GetsBlank, GetsRaises,
             GetsInvalid, GetsLength, ReadUnit, Announce, AnnounceRaises,
             EvalReturns, EvalRaises, EvalExits, EvalKills, EvalHangs,
             AnswerSuccess, Confirm, AnswerFailure, FailureRaises
    <2>2. PICK t : verdict[t] = "none" /\ verdict' = [verdict EXCEPT ![t] = v]
      <3>1. CASE Conclude(turn, v)
        BY <1>2, <3>1 DEF Conclude
      <3>2. CASE Conclude(turn', v)
        BY <1>2, <3>2 DEF Conclude
      <3>3. QED
        BY <2>1, <3>1, <3>2
    <2>3. ~Resting
      BY <1>1, <1>2, RubyResting
    <2>4. PICK h \in lock : Sending(h) \/ Waiting(h)
      BY <2>3 DEF TransactionInv, Stage
    <2>5. phase[h] = "reading" /\ verdict' = [verdict EXCEPT ![h] = verdict'[h]]
      BY <1>1, <1>2, <2>4, RubyStages
    <2>6. t = h
      <3>1. h \in Requests /\ verdict \in [Requests -> Verdict]
        BY VariableTypes
      <3>2. t \in Requests
        BY <1>2, <2>2, <3>1
      <3>3. verdict'[t] = v /\ v # "none"
        BY <2>2, <3>1, <3>2
      <3>4. t # h => verdict'[t] = verdict[t]
        BY <2>5, <3>1, <3>2
      <3>5. QED
        BY <2>2, <3>3, <3>4
    <2>7. QED
      BY <2>2, <2>5, <2>6
  <1>3. QED
    BY <1>2

\* Only a script that exits, or ends the process, leads out of the loop.
LEMMA RubyOver ==
  ASSUME TypeInv, TransactionInv, Clean, Ruby \/ Kill, rb # "over", rb' = "over"
  PROVE  \/ EvalExits /\ ~Kill
         \/ EvalKills /\ Kill
  <1>1. CASE Kill
    BY <1>1 DEF Kill
  <1>2. CASE Ruby
    <2>1. ~Kill /\ RubyStep
      BY <1>2 DEF Ruby, Kill, threadVars
    <2>2. outputs = Output
      BY DEF TransactionInv
    <2>3. EvalExits \/ GetsRaises
      BY <2>1, <2>2
         DEF RubyStep, Loop, Boot, InstallFails, GetsPiece, GetsBlank, TakeLine,
             GetsInvalid, GetsLength, ReadUnit, Announce, AnnounceRaises,
             EvalReturns, EvalRaises, EvalHangs, Evaluation, AnswerSuccess,
             Confirm, AnswerFailure, FailureRaises, Output
    <2>4. ASSUME GetsRaises PROVE FALSE
      <3>1. rb = "gets" /\ toRuby # <<>> /\ glued = FALSE
        BY <2>4 DEF GetsRaises, TakeLine, TransactionInv
      <3>2. PICK h \in lock : Unread(h)
        BY <3>1 DEF TransactionInv, Stage, Sending, Waiting, Loading, Evaluating,
                    Concluded, Answered, Ended, Resting, Quiet
      <3>3. Head(toRuby) = [of |-> h, pos |-> 0]
        BY <3>1, <3>2, VariableTypes, TailFacts DEF Unread
      <3>4. Len(Body[h]) \in Nat
        BY <3>2, VariableTypes, BodyAssumption
      <3>5. QED
        BY <2>4, <3>1, <3>3, <3>4, LineAssumption DEF GetsRaises, Readings, LineOf
    <2>5. QED
      BY <2>1, <2>3, <2>4
  <1>3. QED
    BY <1>1, <1>2

LEMMA DeathStep ==
  ASSUME TypeInv, TransactionInv, Clean, DeathInv, Next
  PROVE  DeathInv'
  <1>1. /\ phase \in [Requests -> Phase] /\ lock \in SUBSET Requests
        /\ result \in [Requests -> SUBSET Answer]
        /\ verdict \in [Requests -> Verdict]
    BY VariableTypes
  <1>2. CASE Rest
    BY <1>2 DEF Rest, vars, channelVars, rubyVars, threadVars, DeathInv, EndedBy,
                DeathExplained
  <1>6. ASSUME Ruby \/ Kill, rb # "over", rb' = "over"
        PROVE  \E h \in Requests :
                 /\ lock = {h} /\ phase[h] = "reading"
                 /\ verdict' = [verdict EXCEPT ![h] = IF Kill THEN "kill" ELSE "exit"]
    <2>1. \/ EvalExits /\ ~Kill
          \/ EvalKills /\ Kill
      BY <1>6, RubyOver
    <2>2. PICK h \in lock : Stage(h) /\ rb = "eval"
      BY <2>1 DEF EvalExits, EvalKills, Evaluation, TransactionInv, Resting
    <2>3. phase[h] = "reading" /\ turn = h /\ verdict[h] = "none"
      BY <2>2 DEF Stage, Sending, Waiting, Unread, Loading, Evaluating, Concluded,
                  Answered, Ended, Resting
    <2>4. h \in Requests /\ lock = {h}
      BY <1>1, <2>2 DEF TransactionInv, LockDiscipline
    <2>5. QED
      BY <2>1, <2>3, <2>4 DEF EvalExits, EvalKills, Conclude
  <1>7. ASSUME Ruby \/ Kill, rb = "over"
        PROVE  FALSE
    BY <1>7 DEF Ruby, Kill, RubyStep, Loop, Boot, InstallFails, GetsPiece, GetsBlank,
                GetsRaises, GetsInvalid, GetsLength, TakeLine, ReadUnit, Announce,
                AnnounceRaises, EvalReturns, EvalRaises, EvalExits, EvalKills,
                EvalHangs, Evaluation, AnswerSuccess, Confirm, AnswerFailure,
                FailureRaises
  <1>3. CASE Ruby
    <2>1. UNCHANGED <<phase, lock, result, hostAlive>> /\ hostAlive
      BY <1>3 DEF Ruby, threadVars
    <2>2. ASSUME rb' = "over"
          PROVE  \E r \in Requests : EndedBy(r)'
      <3>1. ~Kill
        BY <2>1 DEF Kill
      <3>2. PICK h \in Requests : phase[h] = "reading" /\ verdict' = [verdict EXCEPT ![h] = "exit"]
        BY <1>3, <1>6, <1>7, <2>2, <3>1
      <3>3. QED
        BY <1>1, <2>1, <3>2 DEF EndedBy
    <2>3. QED
      BY <2>1, <2>2 DEF DeathInv, DeathExplained
  <1>8. CASE Kill
    <2>1. UNCHANGED <<phase, lock>> /\ ~hostAlive' /\ rb' = "over"
      BY <1>8 DEF Kill, EvalKills, EndOfVM
    <2>2. PICK h \in Requests :
            /\ lock = {h} /\ phase[h] = "reading"
            /\ verdict' = [verdict EXCEPT ![h] = "kill"]
      BY <1>6, <1>7, <1>8, <2>1
    <2>3. verdict'[h] = "kill"
      BY <1>1, <2>2
    <2>4. QED
      BY <2>1, <2>2, <2>3 DEF DeathInv, DeathExplained, EndedBy
  <1>4. ASSUME NEW s \in Requests, Client(s) \/ Thread(s) \/ Signal(s)
        PROVE  DeathInv'
    <2>1. UNCHANGED <<rb, verdict>> /\ hostAlive
      BY <1>4 DEF Client, Thread, Signal, rubyVars
    <2>2. ~Interrupt(s)
      BY VariableTypes DEF Clean, Interrupt, InterruptedWrite, InterruptedRead
    <2>3. ASSUME NEW r \in Requests, rb = "over", EndedBy(r)
          PROVE  EndedBy(r)'
      <3>1. CASE \E a \in result[r] : a.code = 1
        <4>1. phase[r] # "reading"
          BY <3>1 DEF TransactionInv, ResultInv
        <4>2. result'[r] = result[r]
          BY <1>1, <1>4, <2>2, <4>1
             DEF Client, Thread, Signal, ClientStep, ThreadStep, Enqueue,
                 EnqueueLoses, Lock, WritePrefix, WriteBody, BrokenPipe, ShortWrite,
                 ReadAnswer, ReadFails, Unlock, Complete
        <4>3. QED
          BY <2>1, <2>3, <3>1, <4>2 DEF EndedBy
      <3>2. CASE phase[r] = "reading"
        <4>1. r \in lock /\ Stage(r)
          BY <3>2 DEF TransactionInv, LockDiscipline, Transaction
        <4>2. Ended(r)
          BY <2>3, <3>2, <4>1 DEF Stage, Sending, Waiting, Unread, Loading,
                                  Evaluating, Concluded, Answered
        <4>3. CASE ReadFails(s) /\ s = r
          <5>1. result'[r] = {Failure(r)} /\ Failure(r).code = 1
            BY <1>1, <4>3 DEF ReadFails, Failure
          <5>2. QED
            BY <2>1, <2>3, <5>1 DEF EndedBy
        <4>4. CASE ~(ReadFails(s) /\ s = r)
          <5>1. phase'[r] = "reading"
            BY <1>1, <1>4, <2>2, <3>2, <4>2, <4>4
               DEF Client, Thread, Signal, ClientStep, ThreadStep, Enqueue,
                   EnqueueLoses, Lock, WritePrefix, WriteBody, BrokenPipe,
                   ShortWrite, ReadAnswer, ReadFails, Unlock, Complete, Goto,
                   Ended, Quiet
          <5>2. QED
            BY <2>1, <2>3, <5>1 DEF EndedBy
        <4>5. QED
          BY <4>3, <4>4
      <3>3. QED
        BY <2>3, <3>1, <3>2 DEF EndedBy
    <2>4. CASE hostAlive'
      BY <2>1, <2>3, <2>4 DEF DeathInv, DeathExplained
    <2>5. CASE EnqueueLoses(s)
      <3>1. phase'[s] = "lost"
        BY <1>1, <2>5 DEF EnqueueLoses, Goto
      <3>2. QED
        BY <2>1, <2>3, <3>1 DEF DeathInv, DeathExplained
    <2>6. CASE BrokenPipe(s)
      <3>1. /\ rb = "over" /\ phase[s] \in Transaction
            /\ UNCHANGED <<phase, lock, result>>
        BY <2>6 DEF BrokenPipe, TransactionInv, Transaction
      <3>2. lock = {s} /\ Stage(s)
        BY <3>1 DEF TransactionInv, LockDiscipline
      <3>3. phase[s] = "prefix" /\ verdict[s] = "none"
        BY <2>6, <3>1, <3>2 DEF BrokenPipe, Stage, Sending, Waiting, Unread, Loading,
                                TransactionInv, ResultInv
      <3>4. PICK r \in Requests : EndedBy(r)
        BY <3>1 DEF DeathInv
      <3>5. phase[r] # "reading"
        BY <3>2, <3>3, <3>4 DEF TransactionInv, LockDiscipline, Transaction
      <3>6. verdict[r] = "exit" /\ (\E a \in result[r] : a.code = 1) /\ s # r
        BY <2>1, <3>3, <3>4, <3>5 DEF EndedBy
      <3>7. DeathExplained'
        BY <2>1, <3>1, <3>2, <3>3, <3>6 DEF DeathExplained
      <3>8. QED
        BY <2>1, <2>3, <3>7 DEF DeathInv
    <2>7. hostAlive' \/ EnqueueLoses(s) \/ BrokenPipe(s)
      BY <1>4, <2>1, <2>2
         DEF Client, Thread, Signal, ClientStep, ThreadStep, Enqueue, Lock,
             WritePrefix, WriteBody, ShortWrite, ReadAnswer, ReadFails, Unlock,
             Complete
    <2>8. QED
      BY <2>4, <2>5, <2>6, <2>7
  <1>5. QED
    BY <1>2, <1>3, <1>4, <1>8 DEF Next

\* Under the same conditions the process ends for three reasons only: a thread
\* that did not start was detached, the script that runs ended the process, or
\* a script ended the VM, its own thread has taken that for a failure, and a
\* later script is sent down the broken pipe.
THEOREM ProcessEndsForAReason ==
  ASSUME Clean
  PROVE  Spec => []DeathExplained
  <1>1. Init => DeathInv
    BY DEF Init, FifoInterpreterInit, ScriptThreadsInit, DeathInv,
           DeathExplained
  <1>2. TypeInv /\ TransactionInv /\ DeathInv /\ [Next]_vars => DeathInv'
    <2>1. UNCHANGED vars /\ DeathInv => DeathInv'
      BY DEF vars, channelVars, rubyVars, threadVars, DeathInv, EndedBy,
             DeathExplained
    <2>2. QED
      BY <2>1, DeathStep
  <1>3. DeathInv => DeathExplained
    BY DEF DeathInv
  <1>4. QED
    BY <1>1, <1>2, <1>3, TransactionInvariant, TypeInvariant, PTL DEF Spec
-----------------------------------------------------------------------------
(***************************************************************************)
(* The refinement.                                                         *)
(***************************************************************************)

\* The state of SerialExecutor that a state of the transaction stands for.
status == [r \in Requests |-> StatusOf(phase[r])]
report == [r \in Requests |-> {a.code : a \in result[r]}]

\* A thread that moves on changes the status of its own request alone.
LEMMA StatusStep ==
  ASSUME phase \in [Requests -> Phase], NEW r \in Requests, NEW p \in Phase,
         Goto(r, p)
  PROVE  status' = [status EXCEPT ![r] = StatusOf(p)]
BY DEF Goto, status

LEMMA ReportStep ==
  ASSUME result \in [Requests -> SUBSET Answer], NEW r \in Requests,
         NEW a \in Answer, result' = [result EXCEPT ![r] = {a}]
  PROVE  report' = [report EXCEPT ![r] = {a.code}]
BY DEF report

\* What is running is in its transaction.
LEMMA RunningHoldsLock ==
  ASSUME TypeInv, TransactionInv
  PROVE  \A r \in Requests :
           /\ StatusOf(phase[r]) = "running" <=> phase[r] \in {"prefix", "body", "reading"}
           /\ StatusOf(phase[r]) = "running" => r \in lock
BY VariableTypes DEF StatusOf, Phase, TransactionInv, LockDiscipline, Transaction

LEMMA SimulationInit == Init => Executor!Init
BY DEF Init, ScriptThreadsInit, FifoInterpreterInit, Executor!Init, StatusOf

\* The VM thread concludes the running script, or is not seen to do anything.
LEMMA SimulationRuby ==
  ASSUME TypeInv, TransactionInv, Clean, Ruby \/ Kill
  PROVE  [Executor!Next]_Executor!executorVars
  <1>1. UNCHANGED <<phase, result>>
    BY DEF Ruby, Kill, threadVars
  <1>2. UNCHANGED <<status, report>>
    BY <1>1 DEF status, report
  <1>3. CASE verdict' = verdict
    BY <1>2, <1>3 DEF Executor!executorVars, status, report
  <1>4. ASSUME NEW h \in lock, NEW v \in {"ok", "error", "exit", "kill"},
               phase[h] = "reading", verdict[h] = "none",
               verdict' = [verdict EXCEPT ![h] = v]
        PROVE  Executor!Next
    <2>1. h \in Requests
      BY VariableTypes
    <2>2. h \in Executor!Running
      BY <1>4, <2>1 DEF Executor!Running, StatusOf
    <2>3. Executor!Conclude(h)
      BY <1>2, <1>4, <2>2 DEF Executor!Conclude, status, report
    <2>4. QED
      BY <2>1, <2>3 DEF Executor!Next
  <1>5. QED
    BY <1>3, <1>4, VerdictStep

\* A client submits; a thread starts, finishes or delivers its request, or is
\* not seen to do anything.
LEMMA SimulationThread ==
  ASSUME TypeInv, TransactionInv, Clean, NEW r \in Requests,
         Client(r) \/ Thread(r) \/ Signal(r)
  PROVE  [Executor!Next]_Executor!executorVars
  <1>1. /\ phase \in [Requests -> Phase] /\ lock \in SUBSET Requests
        /\ result \in [Requests -> SUBSET Answer]
        /\ verdict \in [Requests -> Verdict] /\ toC \in Seq(Answer)
    BY VariableTypes
  <1>2. verdict' = verdict
    BY DEF Client, Thread, Signal, rubyVars
  <1>3. ~Interrupt(r)
    BY VariableTypes DEF Clean, Interrupt, InterruptedWrite, InterruptedRead
  <1>4. ASSUME NEW p \in Phase, Goto(r, p), StatusOf(p) = StatusOf(phase[r]),
               result' = result
        PROVE  UNCHANGED Executor!executorVars
    <2>1. status' = status /\ report' = report
      BY <1>1, <1>4, StatusStep DEF status, report
    <2>2. QED
      BY <1>2, <2>1 DEF Executor!executorVars, status, report
  <1>5. phase[r] \in {"prefix", "body", "reading"} => r \in Executor!Running
    BY <1>1 DEF Executor!Running, StatusOf
  <1>6. CASE Enqueue(r) \/ EnqueueLoses(r)
    <2>1. PICK p \in {"waiting", "lost"} : phase[r] = "idle" /\ Goto(r, p) /\ result' = result
      BY <1>6 DEF Enqueue, EnqueueLoses
    <2>2. status' = [status EXCEPT ![r] = "queued"] /\ status[r] = "new"
      BY <1>1, <2>1, StatusStep DEF StatusOf, Phase, status
    <2>3. Executor!Submit(r)
      BY <1>2, <2>1, <2>2 DEF Executor!Submit, status
    <2>4. QED
      BY <2>3 DEF Executor!Next
  <1>7. CASE Lock(r)
    <2>1. phase[r] = "waiting" /\ Goto(r, "prefix") /\ result' = result /\ lock = {}
      BY <1>7 DEF Lock
    <2>2. status' = [status EXCEPT ![r] = "running"] /\ status[r] = "queued"
      BY <1>1, <2>1, StatusStep DEF StatusOf, Phase, status
    <2>3. Executor!Running = {}
      BY <2>1, RunningHoldsLock DEF Executor!Running
    <2>4. Executor!Start(r)
      BY <1>2, <2>1, <2>2, <2>3 DEF Executor!Start, status
    <2>5. QED
      BY <2>4 DEF Executor!Next
  <1>8. CASE WritePrefix(r) \/ WriteBody(r) \/ ShortWrite(r)
    <2>1. PICK p \in {"body", "reading"} :
            phase[r] \in {"prefix", "body"} /\ Goto(r, p) /\ result' = result
      BY <1>8 DEF WritePrefix, WriteBody, ShortWrite
    <2>2. p \in Phase /\ StatusOf(p) = StatusOf(phase[r])
      BY <2>1 DEF StatusOf, Phase
    <2>3. QED
      BY <1>4, <2>1, <2>2
  <1>9. CASE BrokenPipe(r)
    BY <1>2, <1>9 DEF BrokenPipe, Executor!executorVars
  <1>10. CASE ReadAnswer(r) \/ ReadFails(r)
    <2>1. phase[r] = "reading" /\ Goto(r, "unlocking")
      BY <1>10 DEF ReadAnswer, ReadFails
    <2>2. PICK a \in Answer : result' = [result EXCEPT ![r] = {a}]
      BY <1>1, <1>10, TailFacts DEF ReadAnswer, ReadFails, Failure, Answer
    <2>3. r \in lock /\ Waiting(r)
      BY <2>1 DEF TransactionInv, LockDiscipline, Transaction, Stage, Sending
    <2>4. verdict[r] # "none"
      BY <1>10, <2>3 DEF Waiting, Unread, Loading, Evaluating, Concluded, Answered,
                         Ended, Quiet, ReadAnswer, ReadFails, TransactionInv
    <2>5. a.code = IF verdict[r] = "ok" THEN 0 ELSE 1
      <3>1. OwnExitCode'
        BY TransactionThread DEF TransactionInv, ResultInv
      <3>2. result'[r] = {a} /\ a.code \in {0, 1}
        BY <1>1, <2>2 DEF Answer
      <3>3. QED
        BY <1>2, <3>1, <3>2 DEF OwnExitCode
    <2>6. status' = [status EXCEPT ![r] = "finished"]
      BY <1>1, <2>1, StatusStep DEF StatusOf, Phase
    <2>7. report' = [report EXCEPT ![r] = {IF verdict[r] = "ok" THEN 0 ELSE 1}]
      BY <1>1, <2>2, <2>5, ReportStep
    <2>8. Executor!Finish(r)
      BY <1>2, <1>5, <2>1, <2>4, <2>6, <2>7 DEF Executor!Finish, status, report
    <2>9. QED
      BY <2>8 DEF Executor!Next
  <1>11. CASE Unlock(r)
    <2>1. /\ phase[r] = "unlocking" /\ Goto(r, "completing") /\ result' = result
          /\ "completing" \in Phase /\ StatusOf("completing") = StatusOf("unlocking")
      BY <1>11 DEF Unlock, StatusOf, Phase
    <2>2. QED
      BY <1>4, <2>1
  <1>12. CASE Complete(r)
    <2>1. phase[r] = "completing" /\ Goto(r, "done") /\ result' = result
      BY <1>12 DEF Complete
    <2>2. status' = [status EXCEPT ![r] = "delivered"] /\ status[r] = "finished"
      BY <1>1, <2>1, StatusStep DEF StatusOf, Phase, status
    <2>3. Executor!Deliver(r)
      BY <1>2, <2>1, <2>2 DEF Executor!Deliver, status
    <2>4. QED
      BY <2>3 DEF Executor!Next
  <1>13. QED
    BY <1>3, <1>6, <1>7, <1>8, <1>9, <1>10, <1>11, <1>12
       DEF Client, Thread, Signal, ClientStep, ThreadStep

LEMMA SimulationStep ==
  ASSUME Clean
  PROVE  TypeInv /\ TransactionInv /\ [Next]_vars => [Executor!Next]_Executor!executorVars
  <1> SUFFICES ASSUME TypeInv, TransactionInv, [Next]_vars
               PROVE  [Executor!Next]_Executor!executorVars
    OBVIOUS
  <1>1. CASE UNCHANGED vars
    BY <1>1 DEF vars, rubyVars, threadVars, Executor!executorVars
  <1>2. QED
    BY <1>1, SimulationRuby, SimulationThread DEF Next, Rest

\* Under the same conditions the threads, the lock, the socket and the loop
\* together keep the promise to the callers: scripts run one at a time, and
\* each callback gets the exit code of its own script, once.
THEOREM ImplementsSerialExecutor ==
  ASSUME Clean
  PROVE  Spec => RunsSerially
  <1>1. TypeInv /\ TransactionInv /\ [Next]_vars => [Executor!Next]_Executor!executorVars
    BY SimulationStep
  <1>2. QED
    BY <1>1, SimulationInit, TransactionInvariant, TypeInvariant, PTL
       DEF Spec, RunsSerially, Executor!Spec
=============================================================================

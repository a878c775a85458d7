-------------------------- MODULE OwnExitCodeProofs --------------------------
(***************************************************************************)
(* Under Clean, every script gets its own exit code: the inductive         *)
(* invariant TransactionInv and what follows from it.                      *)
(***************************************************************************)
EXTENDS ScriptTransactionProofs

LEMMA TransactionInit == Init => TransactionInv
BY DEF Init, CommChannelInit, FifoInterpreterInit, ScriptThreadsInit,
       TransactionInv, LockDiscipline, Transaction, Resting, Quiet, ResultInv,
       OwnExitCode

\* A stream is empty exactly when its length is 0.
LEMMA EmptyStreams ==
  ASSUME TypeInv
  PROVE  /\ Len(toRuby) \in Nat /\ Len(toC) \in Nat /\ Len(loaded) \in Nat
         /\ toRuby = <<>> <=> Len(toRuby) = 0
         /\ toC = <<>> <=> Len(toC) = 0
BY EmptySeq DEF TypeInv, TypeOK, CommChannelTypeOK, FifoInterpreterTypeOK

-----------------------------------------------------------------------------
(***************************************************************************)
(* Steps of the VM thread.                                                 *)
(***************************************************************************)

\* What a step of the VM thread keeps besides the stage of the transaction.
Steady ==
  /\ glued' = FALSE /\ outputs' = Output
  /\ rubyOpen' <=> rb' # "over"

\* Between transactions the VM thread can only start, or end its last turn.
LEMMA RubyResting ==
  ASSUME TransactionInv, RubyStep \/ EvalKills, Resting
  PROVE  Resting' /\ Steady /\ verdict' = verdict
  <1>1. Boot \/ InstallFails \/ Confirm
    BY DEF RubyStep, Loop, Resting, Quiet, GetsPiece, GetsBlank, GetsRaises,
           GetsInvalid, GetsLength, TakeLine, ReadUnit, Announce, AnnounceRaises,
           EvalReturns, EvalRaises, EvalExits, EvalKills, EvalHangs, Evaluation,
           AnswerSuccess, AnswerFailure, FailureRaises
  <1>2. QED
    BY <1>1 DEF Boot, InstallFails, Confirm, Resting, Quiet, Steady,
                TransactionInv, Output, channelVars

\* During a transaction each step of the VM thread leads to the next stage.
LEMMA RubyStages ==
  ASSUME TypeInv, TransactionInv, Clean, NEW h \in lock,
         Sending(h) \/ Waiting(h), RubyStep \/ EvalKills,
         UNCHANGED <<phase, sent>>
  PROVE  /\ (Sending(h) \/ Waiting(h))' /\ Steady
         /\ \/ verdict' = verdict
            \/ phase[h] = "reading" /\ verdict' = [verdict EXCEPT ![h] = verdict'[h]]
  <1>1. /\ h \in Requests /\ sent \in Nat /\ need \in Nat
        /\ verdict \in [Requests -> Verdict]
        /\ toRuby \in Seq(Unit) /\ toC \in Seq(Answer) /\ loaded \in Seq(Unit)
        /\ UNCHANGED <<phase, sent>>
    BY DEF TypeInv, TypeOK, CommChannelTypeOK, FifoInterpreterTypeOK,
           ScriptThreadsTypeOK
  <1>2. /\ Len(toRuby) \in Nat /\ Len(toC) \in Nat /\ Len(loaded) \in Nat
        /\ toRuby = <<>> <=> Len(toRuby) = 0
        /\ toC = <<>> <=> Len(toC) = 0
    BY EmptyStreams
  <1>3. Len(Body[h]) \in Nat /\ Len(Body[h]) <= MaxLength /\ ~MayClose
    BY <1>1, BodyAssumption DEF Clean
  <1>4. glued = FALSE /\ outputs = Output /\ (rubyOpen <=> rb # "over")
        /\ "stdout" \in outputs /\ "stderr" \in outputs
    BY DEF TransactionInv, Output
  <1>5. sent <= Len(Body[h]) /\ phase[h] \in {"body", "reading"}
    BY <1>1, <1>3 DEF Sending, Waiting
  <1>6. (sent = Len(Body[h])) => phase[h] = "reading"
    BY <1>1, <1>3 DEF Sending, Waiting
  <1> DEFINE Stages == \/ Unread(h) \/ Loading(h) \/ Evaluating(h)
                       \/ Concluded(h) \/ Answered(h) \/ Ended(h)
  <1>7. Stages
    BY DEF Sending, Waiting
  <1>8. ASSUME (Unread(h) \/ Loading(h))'
        PROVE  (Sending(h) \/ Waiting(h))'
    BY <1>1, <1>3, <1>5, <1>8 DEF Sending, Waiting
  <1>9. ASSUME phase[h] = "reading", Stages'
        PROVE  (Sending(h) \/ Waiting(h))'
    BY <1>1, <1>9 DEF Sending, Waiting
  <1>10. CASE Boot \/ InstallFails
    <2>1. Unread(h)
      BY <1>7, <1>10 DEF Boot, InstallFails, Loading, Evaluating, Concluded,
                         Answered, Ended
    <2>2. Unread(h)'
      BY <1>1, <1>10, <2>1 DEF Boot, InstallFails, Unread, channelVars
    <2>3. QED
      BY <1>4, <1>8, <1>10, <2>2 DEF Boot, InstallFails, channelVars, Steady
  <1>11. CASE Confirm
    <2>1. rb = "confirm" /\ rb' = "gets" /\ Steady /\ UNCHANGED <<toRuby, toC, verdict>>
      BY <1>4, <1>11 DEF Confirm, channelVars, Steady
    <2>2. CASE Unread(h)
      BY <1>1, <1>8, <2>1, <2>2 DEF Unread
    <2>3. CASE Answered(h) /\ phase[h] = "reading"
      BY <1>1, <1>9, <2>1, <2>3 DEF Answered
    <2>4. QED
      BY <2>1, <2>2, <2>3 DEF Sending, Waiting, Unread, Loading, Evaluating,
                              Concluded, Ended
  <1>12. ASSUME rb = "gets", toRuby # <<>>
         PROVE  /\ Unread(h) /\ Head(toRuby) = [of |-> h, pos |-> 0]
                /\ Readings = {Len(Body[h])} /\ LineOf(Head(toRuby)) = Len(Body[h])
    <2>1. Unread(h)
      BY <1>7, <1>12 DEF Loading, Evaluating, Concluded, Answered, Ended, Quiet
    <2>2. Head(toRuby) = toRuby[1] /\ Len(toRuby) \in Nat \ {0}
      BY <1>1, <1>12, TailFacts
    <2>3. Head(toRuby) = [of |-> h, pos |-> 0]
      BY <2>1, <2>2 DEF Unread
    <2>4. QED
      BY <1>4, <2>1, <2>3 DEF Readings, LineOf
  <1>13. CASE GetsPiece \/ GetsBlank \/ GetsRaises
    BY <1>3, <1>12, <1>13, LineAssumption DEF GetsPiece, GetsBlank, GetsRaises, TakeLine
  <1>14. CASE GetsInvalid
    <2>1. /\ rb = "gets" /\ toRuby # <<>> /\ toRuby' = Tail(toRuby)
          /\ UNCHANGED <<toC, rubyOpen, outputs>> /\ glued' = FALSE
          /\ rb' = "failure" /\ turn' = Head(toRuby).of
          /\ RefusedLength /\ Conclude(turn', "error")
      BY <1>14 DEF GetsInvalid, TakeLine
    <2>2. Unread(h) /\ turn' = h /\ ~ValidLength(Len(Body[h]))
      BY <1>12, <2>1 DEF RefusedLength
    <2>3. Len(Body[h]) = 0 /\ sent = 0 /\ phase[h] = "reading"
      BY <1>1, <1>3, <1>5, <1>6, <2>2 DEF ValidLength
    <2>4. Len(toRuby') = 0 /\ toRuby' \in Seq(Unit)
      BY <1>1, <2>1, <2>2, <2>3, TailFacts DEF Unread
    <2>5. toRuby' = <<>>
      BY <2>4, EmptySeq
    <2>6. verdict' = [verdict EXCEPT ![h] = "error"]
      BY <2>1, <2>2 DEF Conclude, Unread
    <2>7. Concluded(h)'
      BY <1>1, <2>1, <2>2, <2>5, <2>6 DEF Concluded, Quiet, Unread
    <2>8. QED
      BY <1>1, <1>4, <1>9, <2>1, <2>3, <2>6, <2>7 DEF Steady
  <1>15. CASE GetsLength
    <2>1. /\ rb = "gets" /\ toRuby # <<>> /\ toRuby' = Tail(toRuby)
          /\ UNCHANGED <<toC, rubyOpen, outputs, verdict>> /\ glued' = FALSE
          /\ rb' = "read" /\ turn' = Head(toRuby).of
          /\ need' \in Readings /\ loaded' = <<>>
      BY <1>15 DEF GetsLength, TakeLine
    <2>2. Unread(h) /\ turn' = h /\ need' = Len(Body[h])
      BY <1>12, <2>1
    <2>3. /\ Len(toRuby') = sent
          /\ \A i \in 1..Len(toRuby') : toRuby'[i] = toRuby[i + 1]
      BY <1>1, <2>1, <2>2, TailFacts DEF Unread
    <2>4. \A i \in 1..sent : i + 1 \in 1..Len(toRuby) /\ (i + 1) - 1 = i
      BY <1>1, <2>2 DEF Unread
    <2>5. \A i \in 1..Len(toRuby') : toRuby'[i] = [of |-> h, pos |-> i]
      BY <2>2, <2>3, <2>4 DEF Unread
    <2>6. Len(loaded') = 0
      BY <2>1
    <2>7. Loading(h)'
      BY <1>1, <1>3, <2>1, <2>2, <2>3, <2>5, <2>6 DEF Loading, Unread
    <2>8. QED
      BY <1>4, <1>8, <2>1, <2>7 DEF Steady
  <1>16. CASE ReadUnit
    <2>1. /\ rb = "read" /\ toRuby # <<>> /\ toRuby' = Tail(toRuby)
          /\ loaded' = Append(loaded, Head(toRuby)) /\ need' = need - 1
          /\ rb' = IF need = 1 THEN "announce" ELSE "read"
          /\ UNCHANGED <<toC, rubyOpen, glued, turn, outputs, verdict>>
      BY <1>16 DEF ReadUnit
    <2>2. Loading(h)
      BY <1>7, <2>1 DEF Unread, Evaluating, Concluded, Answered, Ended
    <2>3. /\ Head(toRuby) \in Unit /\ Head(toRuby) = toRuby[1]
          /\ Len(toRuby) \in Nat \ {0} /\ Len(toRuby') = Len(toRuby) - 1
          /\ toRuby' \in Seq(Unit)
          /\ \A i \in 1..Len(toRuby') : toRuby'[i] = toRuby[i + 1]
      BY <1>1, <2>1, TailFacts
    <2>4. /\ Len(loaded') = Len(loaded) + 1
          /\ \A i \in 1..Len(loaded) : loaded'[i] = loaded[i]
          /\ loaded'[Len(loaded) + 1] = toRuby[1]
      BY <1>1, <2>1, <2>3, AppendFacts
    <2>5. toRuby[1] = [of |-> h, pos |-> Len(loaded) + 1]
      BY <2>2, <2>3 DEF Loading
    <2>6. \A i \in 1..Len(loaded') : i \in 1..Len(loaded) \/ i = Len(loaded) + 1
      BY <1>2, <2>4
    <2>7. \A i \in 1..Len(loaded') : loaded'[i] = [of |-> h, pos |-> i]
      BY <2>2, <2>4, <2>5, <2>6 DEF Loading
    <2>8. \A i \in 1..Len(toRuby') :
            /\ i + 1 \in 1..Len(toRuby)
            /\ Len(loaded) + (i + 1) = Len(loaded') + i
      BY <1>2, <2>3, <2>4
    <2>9. \A i \in 1..Len(toRuby') : toRuby'[i] = [of |-> h, pos |-> Len(loaded') + i]
      BY <2>2, <2>3, <2>8 DEF Loading
    <2>10. /\ Len(loaded') + Len(toRuby') = sent
           /\ need' + Len(loaded') = Len(Body[h])
      <3>1. /\ Len(loaded) + Len(toRuby) = sent
            /\ need + Len(loaded) = Len(Body[h])
        BY <2>2 DEF Loading
      <3>2. Len(loaded') = Len(loaded) + 1 /\ Len(toRuby') = Len(toRuby) - 1
        BY <2>3, <2>4
      <3>3. need' = need - 1
        BY <2>1
      <3>4. QED
        <4>1. /\ Len(loaded) \in Nat /\ Len(toRuby) \in Nat
              /\ need \in Nat /\ sent \in Nat /\ Len(Body[h]) \in Nat
          BY <1>1, <1>2, <1>3
        <4>2. Len(loaded') + Len(toRuby') = sent
          BY <3>1, <3>2, <4>1
        <4>3. need' + Len(loaded') = Len(Body[h])
          BY <3>1, <3>2, <3>3, <4>1
        <4>4. QED
          BY <4>2, <4>3
    <2>11. CASE need = 1
      <3>1. Len(loaded') = Len(Body[h]) /\ Len(toRuby') = 0 /\ phase[h] = "reading"
        <4>1. Len(loaded') = Len(Body[h])
          BY <1>2, <1>3, <2>1, <2>4, <2>10, <2>11
        <4>2. Len(toRuby') = 0 /\ sent = Len(Body[h])
          BY <1>1, <1>3, <1>5, <2>3, <2>10, <4>1
        <4>3. QED
          BY <1>6, <4>1, <4>2
      <3>2. toRuby' = <<>>
        BY <2>3, <3>1, EmptySeq
      <3>3. Evaluating(h)'
        BY <1>1, <2>1, <2>2, <2>7, <2>11, <3>1, <3>2 DEF Loading, Evaluating, Quiet
      <3>4. QED
        BY <1>4, <1>9, <2>1, <2>11, <3>1, <3>3 DEF Steady
    <2>12. CASE need # 1
      <3>1. Loading(h)'
        BY <1>1, <2>1, <2>2, <2>7, <2>9, <2>10, <2>12 DEF Loading
      <3>2. QED
        BY <1>4, <1>8, <2>1, <2>12, <3>1 DEF Steady
    <2>13. QED
      BY <2>11, <2>12
  <1>17. ASSUME rb \in {"announce", "eval"}
         PROVE  Evaluating(h) /\ phase[h] = "reading"
    BY <1>17 DEF Sending, Waiting, Unread, Loading, Concluded, Answered, Ended
  <1>18. CASE Announce \/ EvalHangs
    <2>1. /\ rb \in {"announce", "eval"} /\ rb' \in {"eval", "hung"} /\ Steady
          /\ UNCHANGED <<toRuby, toC, loaded, turn, verdict>>
      BY <1>3, <1>4, <1>18 DEF Announce, EvalHangs, Evaluation, channelVars, Steady
    <2>2. Evaluating(h)'
      BY <1>17, <2>1 DEF Evaluating, Quiet
    <2>3. QED
      BY <1>9, <1>17, <2>1, <2>2
  <1>19. CASE AnnounceRaises \/ FailureRaises
    BY <1>4, <1>19 DEF AnnounceRaises, FailureRaises
  <1>20. CASE EvalReturns \/ EvalRaises
    <2>1. PICK v \in {"ok", "error"} :
            /\ rb = "eval" /\ Conclude(turn, v)
            /\ rb' = IF v = "ok" THEN "success" ELSE "failure"
            /\ UNCHANGED <<toRuby, toC, turn>> /\ Steady
      BY <1>3, <1>4, <1>20 DEF EvalReturns, EvalRaises, Evaluation, Steady
    <2>2. verdict' = [verdict EXCEPT ![h] = v]
      BY <1>17, <2>1 DEF Evaluating, Conclude
    <2>3. Concluded(h)'
      BY <1>1, <1>17, <2>1, <2>2 DEF Evaluating, Concluded, Quiet
    <2>4. QED
      BY <1>1, <1>9, <1>17, <2>1, <2>2, <2>3
  <1>21. CASE EvalExits \/ EvalKills
    <2>1. PICK v \in {"exit", "kill"} :
            /\ rb = "eval" /\ Conclude(turn, v) /\ rb' = "over"
            /\ UNCHANGED <<toRuby, toC>> /\ Steady
      BY <1>3, <1>4, <1>21 DEF EvalExits, EvalKills, EndOfVM, Evaluation, Steady
    <2>2. verdict' = [verdict EXCEPT ![h] = v]
      BY <1>17, <2>1 DEF Evaluating, Conclude
    <2>3. Ended(h)'
      BY <1>1, <1>17, <2>1, <2>2 DEF Evaluating, Ended, Quiet
    <2>4. QED
      BY <1>1, <1>9, <1>17, <2>1, <2>2, <2>3
  <1>22. CASE AnswerSuccess \/ AnswerFailure
    <2>1. PICK c \in {0, 1} :
            /\ rb = IF c = 0 THEN "success" ELSE "failure"
            /\ rb' \in {"gets", "confirm"} /\ WriteAnswer(c, turn)
            /\ UNCHANGED <<toRuby, verdict>> /\ Steady
      <3>1. CASE AnswerSuccess
        BY <1>4, <3>1 DEF AnswerSuccess, Steady
      <3>2. CASE AnswerFailure
        BY <1>4, <3>2 DEF AnswerFailure, Steady
      <3>3. QED
        BY <1>22, <3>1, <3>2
    <2>2. Concluded(h) /\ phase[h] = "reading"
      BY <2>1 DEF Sending, Waiting, Unread, Loading, Evaluating, Answered, Ended
    <2>3. [code |-> c, of |-> turn] \in Answer
      BY <1>1, <2>2 DEF Answer, Concluded
    <2>4. Len(toC') = 1 /\ toC'[1] = [code |-> c, of |-> h]
      <3>1. Len(toC) = 0 /\ turn = h
        BY <1>2, <2>2 DEF Concluded, Quiet
      <3>2. /\ Len(toC') = Len(toC) + 1
            /\ toC'[Len(toC) + 1] = [code |-> c, of |-> turn]
        BY <1>1, <2>1, <2>3, AppendFacts DEF WriteAnswer
      <3>3. QED
        BY <3>1, <3>2
    <2>5. Answered(h)'
      <3>1. toC'[1].of = h /\ toC'[1].code = c
        BY <2>4
      <3>2. c = 0 <=> verdict[h] = "ok"
        BY <2>1, <2>2 DEF Concluded
      <3>3. toRuby = <<>> /\ verdict[h] # "none"
        BY <2>2 DEF Concluded, Quiet
      <3>4. QED
        BY <2>1, <2>4, <3>1, <3>2, <3>3 DEF Answered
    <2>6. QED
      BY <1>9, <2>1, <2>2, <2>5
  <1>23. QED
    BY <1>10, <1>11, <1>13, <1>14, <1>15, <1>16, <1>18, <1>19, <1>20, <1>21, <1>22
       DEF RubyStep, Loop

LEMMA TransactionRuby ==
  ASSUME TypeInv, TransactionInv, Clean, Ruby \/ Kill
  PROVE  TransactionInv'
  <1>1. /\ RubyStep \/ EvalKills
        /\ UNCHANGED <<phase, lock, sent, result>>
    BY DEF Ruby, Kill, threadVars
  <1>2. /\ lock \in SUBSET Requests /\ phase \in [Requests -> Phase]
        /\ verdict \in [Requests -> Verdict]
    BY DEF TypeInv, TypeOK, ScriptThreadsTypeOK, FifoInterpreterTypeOK
  <1>3. LockDiscipline'
    BY <1>1 DEF TransactionInv, LockDiscipline
  <1>4. ASSUME verdict' = verdict
        PROVE  ResultInv'
    BY <1>1, <1>4 DEF TransactionInv, ResultInv, OwnExitCode
  <1>5. CASE Resting
    <2>1. Resting' /\ Steady /\ verdict' = verdict
      BY <1>1, <1>5, RubyResting
    <2>2. \A r \in lock : phase[r] \in {"prefix", "unlocking"} => Stage(r)'
      BY <1>1, <2>1 DEF TransactionInv, Stage, Sending, Waiting
    <2>3. \A r \in lock : ~(Sending(r) \/ Waiting(r)) => Stage(r)'
      BY <2>2 DEF TransactionInv, Stage
    <2>4. \A r \in lock : Sending(r) \/ Waiting(r) => Stage(r)'
      <3>1. UNCHANGED <<phase, sent>>
        BY <1>1
      <3>2. QED
        BY <1>1, <3>1, RubyStages DEF Stage
    <2>5. QED
      BY <1>1, <1>3, <1>4, <2>1, <2>3, <2>4 DEF TransactionInv, Steady
  <1>6. CASE ~Resting
    <2>1. PICK h \in lock : Stage(h)
      BY <1>6 DEF TransactionInv
    <2>2. lock = {h}
      BY <2>1 DEF TransactionInv, LockDiscipline
    <2>3. Sending(h) \/ Waiting(h)
      BY <1>6, <2>1 DEF Stage
    <2>4. /\ (Sending(h) \/ Waiting(h))' /\ Steady
          /\ \/ verdict' = verdict
             \/ phase[h] = "reading" /\ verdict' = [verdict EXCEPT ![h] = verdict'[h]]
      BY <1>1, <2>3, RubyStages
    <2>5. ResultInv'
      <3>1. CASE verdict' = verdict
        BY <1>4, <3>1
      <3>2. CASE phase[h] = "reading" /\ verdict' = [verdict EXCEPT ![h] = verdict'[h]]
        <4>1. result[h] = {}
          BY <1>2, <3>2 DEF TransactionInv, ResultInv
        <4>2. \A r \in Requests \ {h} : verdict'[r] = verdict[r]
          BY <1>2, <3>2
        <4>3. OwnExitCode'
          BY <1>1, <4>1, <4>2 DEF TransactionInv, ResultInv, OwnExitCode
        <4>4. QED
          BY <1>1, <3>2, <4>2, <4>3 DEF TransactionInv, ResultInv
      <3>3. QED
        BY <2>4, <3>1, <3>2
    <2>6. QED
      BY <1>1, <1>3, <2>2, <2>4, <2>5 DEF TransactionInv, Stage, Steady
  <1>7. QED
    BY <1>5, <1>6

-----------------------------------------------------------------------------
(***************************************************************************)
(* Steps of the clients and of the script threads.                         *)
(***************************************************************************)

\* A step that leaves the VM thread, the socket and the thread of a request
\* alone leaves the request in its stage.
LEMMA StageKept ==
  ASSUME UNCHANGED <<toRuby, toC, sent, rb, need, loaded, turn, verdict>>,
         NEW s, phase'[s] = phase[s], Stage(s)
  PROVE  Stage(s)'
  <1>1. Unread(s) => Unread(s)'
    BY DEF Unread
  <1>2. Loading(s) => Loading(s)'
    BY DEF Loading
  <1>3. Evaluating(s) => Evaluating(s)'
    BY DEF Evaluating, Quiet
  <1>4. Concluded(s) => Concluded(s)'
    BY DEF Concluded, Quiet
  <1>5. Answered(s) => Answered(s)'
    BY DEF Answered
  <1>6. Ended(s) => Ended(s)'
    BY DEF Ended, Quiet
  <1>7. Resting => Resting'
    BY DEF Resting, Quiet
  <1>8. QED
    BY <1>1, <1>2, <1>3, <1>4, <1>5, <1>6, <1>7 DEF Stage, Sending, Waiting

LEMMA TransactionThread ==
  ASSUME TypeInv, TransactionInv, Clean, NEW r \in Requests,
         Client(r) \/ Thread(r) \/ Signal(r)
  PROVE  TransactionInv'
  <1>1. /\ UNCHANGED rubyVars
        /\ UNCHANGED <<rb, glued, need, loaded, turn, outputs, verdict>>
    BY DEF Client, Thread, Signal, rubyVars
  <1>2. /\ lock \in SUBSET Requests /\ phase \in [Requests -> Phase]
        /\ result \in [Requests -> SUBSET Answer] /\ sent \in Nat
        /\ interrupts \in 0..MaxInterrupts
        /\ toRuby \in Seq(Unit) /\ toC \in Seq(Answer)
        /\ Len(Body[r]) \in Nat
    BY BodyAssumption DEF TypeInv, TypeOK, ScriptThreadsTypeOK, CommChannelTypeOK
  <1>3. /\ Len(toRuby) \in Nat /\ Len(toC) \in Nat /\ Len(loaded) \in Nat
        /\ toRuby = <<>> <=> Len(toRuby) = 0
        /\ toC = <<>> <=> Len(toC) = 0
    BY EmptyStreams
  <1>4. LockDiscipline'
    <2>1. [Next]_vars
      BY DEF Next
    <2>2. QED
      BY <2>1, LockStep DEF TransactionInv
  <1>5. ~Interrupt(r)
    BY <1>2 DEF Clean, Interrupt, InterruptedWrite, InterruptedRead
  <1>6. ASSUME phase[r] \in Transaction
        PROVE  lock = {r} /\ Stage(r)
    BY <1>6 DEF TransactionInv, LockDiscipline
  <1>7. ASSUME NEW p \in Phase, Goto(r, p), UNCHANGED result,
               \/ p \in {"waiting", "lost", "completing", "done", "unlocking"}
               \/ phase[r] \in {"waiting", "prefix", "body"},
               phase[r] \in {"idle", "lost", "waiting", "prefix"} \/
                 p \notin {"idle", "lost", "waiting", "prefix"},
               phase[r] \in {"unlocking", "completing", "done"} =>
                 p \in {"unlocking", "completing", "done"}
        PROVE  ResultInv'
    BY <1>1, <1>2, <1>7 DEF Goto, TransactionInv, ResultInv, OwnExitCode
  <1>8. CASE Enqueue(r) \/ EnqueueLoses(r) \/ Complete(r)
    <2>1. /\ UNCHANGED <<toRuby, toC, rubyOpen, lock, sent, result>>
          /\ r \notin lock /\ \A s \in lock : phase'[s] = phase[s]
      BY <1>2, <1>8 DEF Enqueue, EnqueueLoses, Complete, channelVars, Goto,
                        TransactionInv, LockDiscipline, Transaction
    <2>2. Resting => Resting'
      BY <1>1, <2>1 DEF Resting, Quiet
    <2>3. \A s \in lock : Stage(s)'
      BY <1>1, <2>1, StageKept DEF TransactionInv
    <2>4. ResultInv'
      BY <1>7, <1>8 DEF Enqueue, EnqueueLoses, Complete, Phase
    <2>5. QED
      BY <1>1, <1>4, <2>1, <2>2, <2>3, <2>4 DEF TransactionInv
  <1>9. CASE Lock(r)
    <2>1. /\ UNCHANGED <<toRuby, toC, rubyOpen, result>> /\ sent' = 0
          /\ lock = {} /\ lock' = {r} /\ phase'[r] = "prefix"
      BY <1>2, <1>9 DEF Lock, channelVars, Goto
    <2>2. Resting'
      BY <1>1, <2>1 DEF TransactionInv, Resting, Quiet
    <2>3. ResultInv'
      BY <1>7, <1>9 DEF Lock, Phase
    <2>4. QED
      BY <1>1, <1>4, <2>1, <2>2, <2>3 DEF TransactionInv, Stage
  <1>10. CASE WritePrefix(r)
    <2>1. /\ phase[r] = "prefix" /\ rubyOpen /\ toRuby' = Append(toRuby, Prefix(r))
          /\ phase'[r] = IF Body[r] = <<>> THEN "reading" ELSE "body"
          /\ UNCHANGED <<toC, rubyOpen, lock, sent, result>>
      BY <1>2, <1>10 DEF WritePrefix, WriteUnit, Goto
    <2>2. lock = {r} /\ sent = 0 /\ Resting
      BY <1>6, <2>1 DEF Stage, Sending, Waiting, Transaction
    <2>3. Prefix(r) \in Unit /\ Prefix(r) = [of |-> r, pos |-> 0] /\ Len(toRuby) = 0
      BY <1>3, <2>2 DEF Prefix, Unit, Resting, Quiet
    <2>4. Len(toRuby') = 1 /\ toRuby'[1] = [of |-> r, pos |-> 0]
      BY <1>2, <2>1, <2>3, AppendFacts
    <2>5. \A i \in 1..Len(toRuby') : i = 1 /\ i - 1 = 0
      BY <2>4
    <2>6. Unread(r)'
      <3>1. rb' \in {"boot", "absent", "gets", "confirm"}
        BY <1>1, <2>1, <2>2 DEF Resting, TransactionInv
      <3>2. verdict'[r] = "none"
        BY <1>1, <2>1 DEF TransactionInv, ResultInv
      <3>3. \A i \in 1..Len(toRuby') : toRuby'[i] = [of |-> r, pos |-> i - 1]
        BY <2>4, <2>5
      <3>4. QED
        BY <2>1, <2>2, <2>4, <3>1, <3>2, <3>3 DEF Unread, Resting, Quiet
    <2>7. Body[r] = <<>> <=> Len(Body[r]) = 0
      BY BodyAssumption, EmptySeq
    <2>8. Stage(r)'
      BY <1>2, <2>1, <2>2, <2>6, <2>7 DEF Stage, Sending, Waiting
    <2>9. ResultInv'
      BY <1>7, <1>10 DEF WritePrefix, Phase
    <2>10. QED
      BY <1>1, <1>4, <2>1, <2>2, <2>8, <2>9 DEF TransactionInv
  <1>11. CASE WriteBody(r)
    <2> DEFINE u == [of |-> r, pos |-> sent + 1]
    <2>1. /\ phase[r] = "body" /\ toRuby' = Append(toRuby, u) /\ sent' = sent + 1
          /\ phase'[r] = IF sent + 1 = Len(Body[r]) THEN "reading" ELSE "body"
          /\ UNCHANGED <<toC, rubyOpen, lock, result>>
      BY <1>2, <1>11 DEF WriteBody, WriteUnit, Goto
    <2>2. lock = {r} /\ Sending(r)
      BY <1>6, <2>1 DEF Stage, Waiting, Transaction
    <2>3. u \in Unit
      BY <1>2 DEF Unit
    <2>4. /\ Len(toRuby') = Len(toRuby) + 1 /\ toRuby'[Len(toRuby) + 1] = u
          /\ \A i \in 1..Len(toRuby) : toRuby'[i] = toRuby[i]
      BY <1>2, <2>1, <2>3, AppendFacts
    <2>5. \A i \in 1..Len(toRuby') : i \in 1..Len(toRuby) \/ i = Len(toRuby) + 1
      BY <1>3, <2>4
    <2>6. Unread(r) => Unread(r)'
      <3> SUFFICES ASSUME Unread(r) PROVE Unread(r)'
        OBVIOUS
      <3>1. Len(toRuby) = sent + 1 /\ (sent + 2) - 1 = sent + 1
        BY <1>2 DEF Unread
      <3>2. toRuby'[Len(toRuby) + 1] = [of |-> r, pos |-> (Len(toRuby) + 1) - 1]
        BY <1>2, <1>3, <2>4, <3>1
      <3>3. \A i \in 1..Len(toRuby') : toRuby'[i] = [of |-> r, pos |-> i - 1]
        BY <2>4, <2>5, <3>2 DEF Unread
      <3>4. Len(toRuby') = sent' + 1
        BY <2>1, <2>4, <3>1
      <3>5. QED
        BY <1>1, <2>1, <3>3, <3>4 DEF Unread
    <2>7. Loading(r) => Loading(r)'
      <3> SUFFICES ASSUME Loading(r) PROVE Loading(r)'
        OBVIOUS
      <3>1. Len(loaded) + Len(toRuby) = sent
        BY DEF Loading
      <3>2. Len(loaded) + (Len(toRuby) + 1) = sent + 1
        BY <1>2, <1>3, <3>1
      <3>3. \A i \in 1..Len(toRuby') : toRuby'[i] = [of |-> r, pos |-> Len(loaded) + i]
        BY <2>4, <2>5, <3>2 DEF Loading
      <3>4. Len(loaded') + Len(toRuby') = sent'
        BY <1>1, <2>1, <2>4, <3>2
      <3>5. QED
        BY <1>1, <2>1, <3>3, <3>4 DEF Loading
    <2>8. sent' <= Len(Body[r]) /\ (sent' = Len(Body[r]) <=> phase'[r] = "reading")
      BY <1>2, <2>1, <2>2 DEF Sending
    <2>9. Stage(r)'
      BY <1>2, <2>1, <2>2, <2>6, <2>7, <2>8 DEF Stage, Sending, Waiting
    <2>10. ResultInv'
      BY <1>7, <1>11 DEF WriteBody, Phase
    <2>11. QED
      BY <1>1, <1>4, <2>1, <2>2, <2>9, <2>10 DEF TransactionInv
  <1>12. CASE BrokenPipe(r)
    BY <1>1, <1>4, <1>12
       DEF BrokenPipe, channelVars, TransactionInv, Stage, Sending, Waiting,
           Unread, Loading, Evaluating, Concluded, Answered, Ended, Quiet,
           Resting, ResultInv, OwnExitCode
  <1>13. CASE ShortWrite(r)
    BY <1>6, <1>13 DEF ShortWrite, Stage, Sending, Waiting, Unread, Loading,
                       TransactionInv, Transaction
  <1>14. ASSUME NEW a \in Answer, phase[r] = "reading", Resting',
                a.code = 0 <=> verdict[r] = "ok",
                result' = [result EXCEPT ![r] = {a}], Goto(r, "unlocking"),
                UNCHANGED <<lock, rubyOpen>>
         PROVE  TransactionInv'
    <2>1. lock' = {r} /\ phase'[r] = "unlocking"
      BY <1>2, <1>6, <1>14 DEF Goto, Transaction
    <2>2. OwnExitCode'
      BY <1>1, <1>2, <1>14 DEF TransactionInv, ResultInv, OwnExitCode
    <2>3. ResultInv'
      BY <1>1, <1>2, <1>14, <2>2 DEF TransactionInv, ResultInv, Goto
    <2>4. QED
      BY <1>1, <1>4, <1>14, <2>1, <2>3 DEF TransactionInv, Stage
  <1>15. CASE ReadAnswer(r)
    <2>1. /\ phase[r] = "reading" /\ toC # <<>> /\ toC' = Tail(toC)
          /\ result' = [result EXCEPT ![r] = {Head(toC)}]
          /\ Goto(r, "unlocking") /\ UNCHANGED <<toRuby, lock, rubyOpen>>
      BY <1>15 DEF ReadAnswer
    <2>2. Answered(r)
      BY <1>6, <2>1 DEF Stage, Sending, Waiting, Unread, Loading, Evaluating,
                        Concluded, Ended, Quiet, Transaction
    <2>3. /\ Head(toC) \in Answer /\ Head(toC) = toC[1]
          /\ toC' \in Seq(Answer) /\ Len(toC') = Len(toC) - 1
      BY <1>2, <2>1, TailFacts
    <2>4. toC' = <<>>
      BY <2>2, <2>3, EmptySeq DEF Answered
    <2>5. Resting'
      BY <1>1, <2>1, <2>2, <2>4 DEF Answered, Resting, Quiet
    <2>6. QED
      BY <1>14, <2>1, <2>2, <2>3, <2>5 DEF Answered
  <1>16. CASE ReadFails(r)
    <2>1. /\ phase[r] = "reading" /\ ~rubyOpen
          /\ result' = [result EXCEPT ![r] = {Failure(r)}]
          /\ Goto(r, "unlocking") /\ UNCHANGED <<toRuby, toC, lock, rubyOpen>>
      BY <1>16 DEF ReadFails, channelVars
    <2>2. Ended(r)
      BY <1>6, <2>1 DEF Stage, Sending, Waiting, Unread, Loading, Evaluating,
                        Concluded, Answered, TransactionInv, Transaction
    <2>3. Failure(r) \in Answer /\ Failure(r).code = 1
      BY DEF Failure, Answer
    <2>4. Resting'
      BY <1>1, <2>1, <2>2 DEF Ended, Resting, Quiet
    <2>5. Failure(r).code = 0 <=> verdict[r] = "ok"
      BY <2>2, <2>3 DEF Ended
    <2>6. QED
      BY <1>14, <2>1, <2>3, <2>4, <2>5
  <1>17. CASE Unlock(r)
    <2>1. /\ phase[r] = "unlocking" /\ lock' = lock \ {r}
          /\ UNCHANGED <<toRuby, toC, rubyOpen, sent, result>>
      BY <1>17 DEF Unlock, channelVars
    <2>2. lock = {r} /\ Resting
      BY <1>6, <2>1 DEF Stage, Sending, Waiting, Transaction
    <2>3. ResultInv'
      BY <1>7, <1>17 DEF Unlock, Phase
    <2>4. Resting' /\ lock' = {}
      <3>1. Resting'
        BY <1>1, <2>1, <2>2 DEF Resting, Quiet
      <3>2. QED
        BY <2>1, <2>2, <3>1
    <2>5. QED
      BY <1>1, <1>4, <2>1, <2>3, <2>4 DEF TransactionInv
  <1>18. QED
    BY <1>5, <1>8, <1>9, <1>10, <1>11, <1>12, <1>13, <1>15, <1>16, <1>17
       DEF Client, Thread, Signal, ClientStep, ThreadStep

-----------------------------------------------------------------------------

LEMMA TransactionStep ==
  ASSUME Clean
  PROVE  TypeInv /\ TransactionInv /\ [Next]_vars => TransactionInv'
  <1> SUFFICES ASSUME TypeInv, TransactionInv, [Next]_vars
               PROVE  TransactionInv'
    OBVIOUS
  <1>1. CASE UNCHANGED vars
    <2>1. \A s \in lock : Stage(s)'
      BY <1>1, StageKept DEF vars, channelVars, rubyVars, threadVars, TransactionInv
    <2>2. QED
      BY <1>1, <2>1
         DEF vars, channelVars, rubyVars, threadVars, TransactionInv, LockDiscipline,
             Quiet, Resting, ResultInv, OwnExitCode
  <1>2. QED
    BY <1>1, TransactionRuby, TransactionThread DEF Next, Rest

\* Without interruptions, within the limit and with the outputs left open, a
\* transaction is always in one of its stages, which say where the VM thread is
\* and what the socket holds.
THEOREM TransactionInvariant ==
  ASSUME Clean
  PROVE  Spec => []TransactionInv
  <1>1. TypeInv /\ TransactionInv /\ [Next]_vars => TransactionInv'
    BY TransactionStep
  <1>2. QED
    BY <1>1, TransactionInit, TypeInvariant, PTL DEF Spec

\* When no call is interrupted, every script is within the limit and none
\* closes an output, every callback gets the exit code of its own script: 0 when
\* its evaluation returned, 1 when it raised or ended the VM.
THEOREM EveryScriptGetsItsOwnExitCode ==
  ASSUME Clean
  PROVE  Spec => []OwnExitCode
  <1>1. TransactionInv => OwnExitCode
    BY DEF TransactionInv, ResultInv
  <1>2. QED
    BY <1>1, TransactionInvariant, PTL

\* Under the same conditions a thread that takes socket_lock finds nothing of
\* another request on the socket, in either direction.
THEOREM SocketBelongsToHolder ==
  ASSUME Clean
  PROVE  Spec => []SocketOfHolder
  <1>1. TransactionInv => SocketOfHolder
    <2> SUFFICES ASSUME TransactionInv PROVE SocketOfHolder
      OBVIOUS
    <2>1. CASE Quiet
      BY <2>1 DEF Quiet, SocketOfHolder
    <2>2. CASE ~Quiet
      <3>1. PICK h \in lock : Stage(h) /\ ~Resting
        BY <2>2 DEF TransactionInv, Resting
      <3>2. Unread(h) \/ Loading(h) \/ Answered(h)
        BY <2>2, <3>1 DEF Stage, Sending, Waiting, Evaluating, Concluded, Ended
      <3>3. CASE Unread(h)
        <4>1. \A i \in 1..Len(toRuby) : toRuby[i].of = h
          BY <3>3 DEF Unread
        <4>2. toC = <<>>
          BY <3>3 DEF Unread
        <4>3. QED
          BY <3>1, <4>1, <4>2 DEF SocketOfHolder
      <3>4. CASE Loading(h)
        <4>1. ASSUME NEW i \in 1..Len(toRuby)
              PROVE  toRuby[i].of = h
          <5>1. toRuby[i] = [of |-> h, pos |-> Len(loaded) + i]
            BY <3>4 DEF Loading
          <5>2. QED
            BY <5>1
        <4>2. toC = <<>>
          BY <3>4 DEF Loading
        <4>3. QED
          BY <3>1, <4>1, <4>2 DEF SocketOfHolder
      <3>5. CASE Answered(h)
        <4>1. \A i \in 1..Len(toC) : i = 1
          BY <3>5 DEF Answered
        <4>2. QED
          BY <3>1, <3>5, <4>1 DEF Answered, SocketOfHolder
      <3>6. QED
        BY <3>2, <3>3, <3>4, <3>5
    <2>3. QED
      BY <2>1, <2>2
  <1>2. QED
    BY <1>1, TransactionInvariant, PTL

\* Under the same conditions what Ruby evaluates is the whole script of the
\* thread that holds socket_lock.
THEOREM WholeScriptEvaluated ==
  ASSUME Clean
  PROVE  Spec => []EvaluatesWholeScript
  <1>1. TransactionInv => EvaluatesWholeScript
    BY DEF TransactionInv, LockDiscipline, EvaluatesWholeScript, Stage, Sending,
           Waiting, Unread, Loading, Evaluating, Concluded, Answered, Ended, Resting
  <1>2. QED
    BY <1>1, TransactionInvariant, PTL
=============================================================================

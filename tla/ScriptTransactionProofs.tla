------------------------ MODULE ScriptTransactionProofs ------------------------
(***************************************************************************)
(* Theorems about ScriptTransaction, for every set of requests, all their  *)
(* scripts and all sizes of the socket buffers.                            *)
(***************************************************************************)
EXTENDS ScriptTransactionInvariants, SequenceTheorems, TLAPS

(***************************************************************************)
(* The two ways the streams of the socket change.                          *)
(***************************************************************************)

\* What a write at the end of a stream does to its positions.
LEMMA AppendFacts ==
  ASSUME NEW S, NEW s \in Seq(S), NEW e \in S
  PROVE  /\ Append(s, e) \in Seq(S)
         /\ Len(Append(s, e)) = Len(s) + 1
         /\ \A i \in 1..Len(s) : Append(s, e)[i] = s[i]
         /\ Append(s, e)[Len(s) + 1] = e
BY AppendProperties

\* What taking the first element of a stream does to its positions.
LEMMA TailFacts ==
  ASSUME NEW S, NEW s \in Seq(S), s # <<>>
  PROVE  /\ Head(s) \in S /\ Head(s) = s[1]
         /\ Tail(s) \in Seq(S)
         /\ Len(s) \in Nat \ {0}
         /\ Len(Tail(s)) = Len(s) - 1
         /\ \A i \in 1..Len(s) - 1 : Tail(s)[i] = s[i + 1]
BY HeadTailProperties

-----------------------------------------------------------------------------
(***************************************************************************)
(* Type correctness.                                                       *)
(***************************************************************************)

LEMMA TypeInit == Init => TypeInv
  <1> SUFFICES ASSUME Init PROVE TypeInv
    OBVIOUS
  <1> USE DEF Init, CommChannelInit, FifoInterpreterInit, ScriptThreadsInit
  <1>1. CommChannelTypeOK
    BY CapacityAssumption DEF CommChannelTypeOK
  <1>2. FifoInterpreterTypeOK
    <2>1. loaded \in Seq(Unit)
      OBVIOUS
    <2>2. verdict \in [Requests -> Verdict]
      BY DEF Verdict
    <2>3. glued \in BOOLEAN /\ outputs \in SUBSET Output
      BY Zenon
    <2>4. QED
      BY <2>1, <2>2, <2>3 DEF FifoInterpreterTypeOK, RubyState
  <1>3. ScriptThreadsTypeOK
    BY ScriptThreadsAssumption DEF ScriptThreadsTypeOK, Phase
  <1>4. QED
    BY <1>1, <1>2, <1>3 DEF TypeInv, TypeOK, Working

\* A verdict stays a verdict.
LEMMA ConcludeType ==
  ASSUME verdict \in [Requests -> Verdict],
         NEW r, NEW v \in Verdict, Conclude(r, v)
  PROVE  verdict' \in [Requests -> Verdict]
BY DEF Conclude

\* Every step of the VM thread keeps the types of the channel and its own.
LEMMA TypeRuby == TypeInv /\ Ruby => TypeInv'
  <1> SUFFICES ASSUME TypeInv, Ruby PROVE TypeInv'
    OBVIOUS
  <1> USE DEF TypeInv, TypeOK, CommChannelTypeOK, FifoInterpreterTypeOK,
              ScriptThreadsTypeOK, channelVars, threadVars
  <1>1. UNCHANGED threadVars /\ RubyStep
    BY DEF Ruby
  <1>2. toRuby # <<>> =>
          /\ Head(toRuby) \in Unit /\ Head(toRuby).of \in Requests
          /\ Tail(toRuby) \in Seq(Unit) /\ Len(Tail(toRuby)) <= ToRubyCapacity
    <2>1. ASSUME toRuby # <<>>
          PROVE  /\ Head(toRuby) \in Unit
                 /\ Tail(toRuby) \in Seq(Unit)
                 /\ Len(Tail(toRuby)) = Len(toRuby) - 1 /\ Len(toRuby) \in Nat
      BY <2>1, TailFacts
    <2>2. QED
      BY <2>1, CapacityAssumption DEF Unit
  <1>3. ASSUME NEW c \in {0, 1}, turn \in Requests, WriteAnswer(c, turn)
        PROVE  toC' \in Seq(Answer) /\ Len(toC') <= ToCCapacity
    <2>1. [code |-> c, of |-> turn] \in Answer
      BY <1>3 DEF Answer
    <2>2. QED
      BY <1>3, <2>1, AppendFacts, CapacityAssumption DEF WriteAnswer
  <1>4. CASE Boot
    BY <1>1, <1>4 DEF Boot, RubyState, Working
  <1>5. CASE InstallFails
    BY <1>1, <1>5 DEF InstallFails, RubyState, Working
  <1>6. CASE GetsPiece
    BY <1>1, <1>2, <1>6 DEF GetsPiece, RubyState, Working
  <1>7. CASE GetsBlank
    BY <1>1, <1>2, <1>7 DEF GetsBlank, TakeLine, RubyState, Working
  <1>22. CASE GetsRaises
    <2>1. verdict' \in [Requests -> Verdict]
      BY <1>22, ConcludeType DEF GetsRaises, Verdict
    <2>2. QED
      BY <1>1, <1>2, <1>22, <2>1 DEF GetsRaises, TakeLine, EndOfVM, RubyState, Working
  <1>8. CASE GetsInvalid
    <2>1. verdict' \in [Requests -> Verdict]
      BY <1>8, ConcludeType DEF GetsInvalid, Verdict
    <2>2. QED
      BY <1>1, <1>2, <1>8, <2>1 DEF GetsInvalid, TakeLine, RubyState, Working
  <1>9. CASE GetsLength
    <2>1. need' \in Nat /\ need' > 0
      BY <1>9 DEF GetsLength, ValidLength
    <2>2. loaded' \in Seq(Unit)
      BY <1>9 DEF GetsLength
    <2>3. QED
      BY <1>1, <1>2, <1>9, <2>1, <2>2 DEF GetsLength, TakeLine, RubyState, Working
  <1>10. CASE ReadUnit
    <2>1. loaded' \in Seq(Unit)
      BY <1>2, <1>10, AppendFacts DEF ReadUnit
    <2>2. QED
      BY <1>1, <1>2, <1>10, <2>1 DEF ReadUnit, RubyState, Working
  <1>11. CASE Announce
    BY <1>1, <1>11 DEF Announce, RubyState, Working
  <1>12. CASE AnnounceRaises
    <2>1. verdict' \in [Requests -> Verdict]
      BY <1>12, ConcludeType DEF AnnounceRaises, Verdict
    <2>2. QED
      BY <1>1, <1>12, <2>1 DEF AnnounceRaises, EndOfVM, RubyState, Working
  <1>13. CASE EvalReturns
    <2>1. verdict' \in [Requests -> Verdict]
      BY <1>13, ConcludeType DEF EvalReturns, Verdict
    <2>2. QED
      BY <1>1, <1>13, <2>1 DEF EvalReturns, Evaluation, RubyState, Working
  <1>14. CASE EvalRaises
    <2>1. verdict' \in [Requests -> Verdict]
      BY <1>14, ConcludeType DEF EvalRaises, Verdict
    <2>2. QED
      BY <1>1, <1>14, <2>1 DEF EvalRaises, Evaluation, RubyState, Working
  <1>16. CASE EvalExits
    <2>1. verdict' \in [Requests -> Verdict]
      BY <1>16, ConcludeType DEF EvalExits, Verdict
    <2>2. QED
      BY <1>1, <1>16, <2>1 DEF EvalExits, EndOfVM, Evaluation, RubyState, Working
  <1>17. CASE EvalHangs
    BY <1>1, <1>17 DEF EvalHangs, Evaluation, RubyState, Working
  <1>18. CASE AnswerSuccess
    BY <1>1, <1>3, <1>18 DEF AnswerSuccess, RubyState, Working
  <1>19. CASE Confirm
    BY <1>1, <1>19 DEF Confirm, RubyState, Working
  <1>20. CASE AnswerFailure
    BY <1>1, <1>3, <1>20 DEF AnswerFailure, RubyState, Working
  <1>15. CASE FailureRaises
    <2>1. verdict' \in [Requests -> Verdict]
      BY <1>15, ConcludeType DEF FailureRaises, Verdict
    <2>2. QED
      BY <1>1, <1>15, <2>1 DEF FailureRaises, EndOfVM, RubyState, Working
  <1>21. QED
    BY <1>1, <1>4, <1>5, <1>6, <1>7, <1>8, <1>9, <1>10, <1>11, <1>12, <1>13,
       <1>14, <1>15, <1>16, <1>17, <1>18, <1>19, <1>20, <1>22 DEF RubyStep, Loop

\* A script that ends the process leaves what was on the channel.
LEMMA TypeKill == TypeInv /\ Kill => TypeInv'
  <1> SUFFICES ASSUME TypeInv, Kill PROVE TypeInv'
    OBVIOUS
  <1>1. verdict' \in [Requests -> Verdict]
    BY ConcludeType DEF Kill, EvalKills, Verdict, TypeInv, TypeOK, FifoInterpreterTypeOK
  <1>2. QED
    BY <1>1 DEF Kill, EvalKills, Evaluation, EndOfVM, RubyState, Working, TypeInv, TypeOK,
       CommChannelTypeOK, FifoInterpreterTypeOK, ScriptThreadsTypeOK

\* So does every step of a client, of a script thread and of a signal.
LEMMA TypeThread ==
  ASSUME TypeInv, NEW r \in Requests, Client(r) \/ Thread(r) \/ Signal(r)
  PROVE  TypeInv'
  <1> USE DEF TypeInv, TypeOK, CommChannelTypeOK, FifoInterpreterTypeOK,
              ScriptThreadsTypeOK, channelVars, rubyVars, Goto, Phase
  <1>1. UNCHANGED rubyVars /\ (ClientStep(r) \/ ThreadStep(r) \/ Interrupt(r))
    BY DEF Client, Thread, Signal
  <1>2. ASSUME NEW u \in Unit, WriteUnit(u)
        PROVE  toRuby' \in Seq(Unit) /\ Len(toRuby') <= ToRubyCapacity
    BY <1>2, AppendFacts, CapacityAssumption DEF WriteUnit, ToRubyFull
  <1>3. ASSUME NEW p \in Phase, Goto(r, p)
        PROVE  phase' \in [Requests -> Phase]
    BY <1>3
  <1>4. ASSUME NEW a \in Answer, result' = [result EXCEPT ![r] = {a}]
        PROVE  result' \in [Requests -> SUBSET Answer]
    BY <1>4
  <1>5. Failure(r) \in Answer
    BY DEF Failure, Answer
  <1>6. CASE Enqueue(r)
    <2>1. enqueued' \in Seq(Requests)
      BY <1>6, AppendFacts DEF Enqueue
    <2>2. QED
      BY <1>1, <1>3, <1>6, <2>1 DEF Enqueue
  <1>7. CASE EnqueueLoses(r)
    <2>1. enqueued' \in Seq(Requests)
      BY <1>7, AppendFacts DEF EnqueueLoses
    <2>2. QED
      BY <1>1, <1>3, <1>7, <2>1 DEF EnqueueLoses
  <1>8. CASE Lock(r)
    <2>1. granted' \in Seq(Requests)
      BY <1>8, AppendFacts DEF Lock
    <2>2. QED
      BY <1>1, <1>3, <1>8, <2>1 DEF Lock
  <1>9. CASE WritePrefix(r)
    <2>1. Prefix(r) \in Unit
      BY DEF Prefix, Unit
    <2>2. toRuby' \in Seq(Unit) /\ Len(toRuby') <= ToRubyCapacity
      BY <1>2, <1>9, <2>1 DEF WritePrefix
    <2>3. phase' \in [Requests -> Phase]
      BY <1>3, <1>9 DEF WritePrefix
    <2>4. QED
      BY <1>1, <1>9, <2>2, <2>3 DEF WritePrefix
  <1>10. CASE WriteBody(r)
    <2>1. [of |-> r, pos |-> sent + 1] \in Unit
      BY DEF Unit
    <2>2. toRuby' \in Seq(Unit) /\ Len(toRuby') <= ToRubyCapacity
      BY <1>2, <1>10, <2>1 DEF WriteBody
    <2>3. phase' \in [Requests -> Phase]
      BY <1>3, <1>10 DEF WriteBody
    <2>4. QED
      BY <1>1, <1>10, <2>2, <2>3 DEF WriteBody
  <1>11. CASE BrokenPipe(r)
    BY <1>1, <1>11 DEF BrokenPipe
  <1>12. CASE ShortWrite(r)
    BY <1>1, <1>3, <1>12 DEF ShortWrite
  <1>13. CASE ReadAnswer(r)
    <2>1. /\ Head(toC) \in Answer /\ toC' \in Seq(Answer)
          /\ Len(toC') <= ToCCapacity
      BY <1>13, TailFacts, CapacityAssumption DEF ReadAnswer
    <2>2. result' \in [Requests -> SUBSET Answer]
      BY <1>4, <1>13, <2>1 DEF ReadAnswer
    <2>3. QED
      BY <1>1, <1>3, <1>13, <2>1, <2>2 DEF ReadAnswer
  <1>14. CASE ReadFails(r)
    BY <1>1, <1>3, <1>4, <1>5, <1>14 DEF ReadFails
  <1>15. CASE Unlock(r)
    BY <1>1, <1>3, <1>15 DEF Unlock
  <1>16. CASE Complete(r)
    BY <1>1, <1>3, <1>16 DEF Complete
  <1>17. CASE InterruptedWrite(r)
    BY <1>1, <1>3, <1>17, ScriptThreadsAssumption DEF InterruptedWrite
  <1>18. CASE InterruptedRead(r)
    BY <1>1, <1>3, <1>4, <1>5, <1>18, ScriptThreadsAssumption DEF InterruptedRead
  <1>19. QED
    BY <1>1, <1>6, <1>7, <1>8, <1>9, <1>10, <1>11, <1>12, <1>13, <1>14, <1>15,
       <1>16, <1>17, <1>18 DEF ClientStep, ThreadStep, Interrupt

LEMMA TypeStep == TypeInv /\ [Next]_vars => TypeInv'
  <1> SUFFICES ASSUME TypeInv, [Next]_vars PROVE TypeInv'
    OBVIOUS
  <1>1. CASE Ruby
    BY <1>1, TypeRuby
  <1>2. CASE \E r \in Requests : Client(r) \/ Thread(r) \/ Signal(r)
    BY <1>2, TypeThread
  <1>3. CASE UNCHANGED vars
    BY <1>3 DEF vars, TypeInv, TypeOK, CommChannelTypeOK, FifoInterpreterTypeOK,
       ScriptThreadsTypeOK, channelVars, rubyVars, threadVars
  <1>4. QED
    BY <1>1, <1>2, <1>3, TypeKill DEF Next, Rest

LEMMA TypeInvariant == Spec => []TypeInv
BY TypeInit, TypeStep, PTL DEF Spec

\* Whatever is interrupted, refused or ended, the channels stay within their
\* capacity and every variable within its type.
THEOREM TypeCorrect == Spec => []TypeOK
BY TypeInvariant, PTL DEF TypeInv

-----------------------------------------------------------------------------
(***************************************************************************)
(* Mutual exclusion of the transactions.                                   *)
(***************************************************************************)

LEMMA LockInit == Init => LockDiscipline
BY DEF Init, ScriptThreadsInit, LockDiscipline, Transaction

LEMMA LockStep == TypeInv /\ LockDiscipline /\ [Next]_vars => LockDiscipline'
  <1> SUFFICES ASSUME TypeInv, LockDiscipline, [Next]_vars
               PROVE  LockDiscipline'
    OBVIOUS
  <1> USE DEF LockDiscipline, Transaction, Goto, Phase
  <1>1. phase \in [Requests -> Phase] /\ lock \in SUBSET Requests
    BY DEF TypeInv, TypeOK, ScriptThreadsTypeOK
  <1>2. CASE UNCHANGED <<phase, lock>>
    BY <1>2
  <1>3. ASSUME NEW r \in Requests, ClientStep(r) \/ ThreadStep(r) \/ Interrupt(r)
        PROVE  LockDiscipline'
    <2>1. CASE Lock(r)
      BY <1>1, <2>1 DEF Lock
    <2>2. CASE Unlock(r)
      BY <1>1, <2>2 DEF Unlock
    <2>3. CASE UNCHANGED lock /\ \E p \in Transaction :
                 phase[r] \in Transaction /\ Goto(r, p)
      BY <1>1, <2>3
    <2>4. CASE UNCHANGED lock /\ \E p \in Phase \ Transaction :
                 phase[r] \notin Transaction /\ Goto(r, p)
      BY <1>1, <2>4
    <2>5. CASE UNCHANGED <<phase, lock>>
      BY <2>5
    <2>6. CASE Enqueue(r) \/ EnqueueLoses(r) \/ Complete(r)
      BY <2>4, <2>6 DEF Enqueue, EnqueueLoses, Complete
    <2>7. CASE WritePrefix(r) \/ WriteBody(r) \/ ShortWrite(r)
      BY <2>3, <2>7 DEF WritePrefix, WriteBody, ShortWrite
    <2>8. CASE ReadAnswer(r) \/ ReadFails(r)
      BY <2>3, <2>8 DEF ReadAnswer, ReadFails
    <2>9. CASE InterruptedWrite(r) \/ InterruptedRead(r)
      BY <2>3, <2>9 DEF InterruptedWrite, InterruptedRead
    <2>10. CASE BrokenPipe(r)
      BY <2>5, <2>10 DEF BrokenPipe
    <2>11. QED
      BY <1>3, <2>1, <2>2, <2>6, <2>7, <2>8, <2>9, <2>10
         DEF ClientStep, ThreadStep, Interrupt
  <1>4. QED
    BY <1>2, <1>3 DEF Next, Ruby, Kill, Rest, vars, threadVars, Client, Thread, Signal

\* At most one script thread is between taking socket_lock and releasing it,
\* whatever calls are interrupted or fail in between.
THEOREM TransactionsExclude == Spec => []LockDiscipline
BY LockInit, LockStep, TypeInvariant, PTL DEF Spec

-----------------------------------------------------------------------------
(***************************************************************************)
(* Two scripts are never mixed on the socket.                              *)
(***************************************************************************)

LEMMA StreamInit == Init => StreamInv
BY DEF Init, CommChannelInit, ScriptThreadsInit, StreamInv, NoInterleaving

\* Dropping the first unit, and leaving the threads alone, disturbs nothing.
LEMMA StreamTake ==
  ASSUME TypeInv, StreamInv, toRuby # <<>>, toRuby' = Tail(toRuby),
         UNCHANGED <<phase, sent>>
  PROVE  StreamInv'
  <1> USE DEF StreamInv, NoInterleaving
  <1>1. /\ Len(toRuby') = Len(toRuby) - 1 /\ Len(toRuby) \in Nat \ {0}
        /\ \A i \in 1..Len(toRuby') : toRuby'[i] = toRuby[i + 1]
    BY TailFacts DEF TypeInv, TypeOK, CommChannelTypeOK
  <1>2. \A i \in 1..Len(toRuby') : i + 1 \in 1..Len(toRuby)
    BY <1>1
  <1>3. \A r \in Requests : phase[r] \in {"idle", "lost", "waiting", "prefix"} =>
          \A i \in 1..Len(toRuby') : toRuby'[i].of # r
    BY <1>1, <1>2
  <1>4. ASSUME toRuby' # <<>>
        PROVE  toRuby'[Len(toRuby')] = toRuby[Len(toRuby)]
    <2>1. Tail(toRuby) \in Seq(Unit)
      BY TailFacts DEF TypeInv, TypeOK, CommChannelTypeOK
    <2>2. Len(toRuby') # 0
      BY <1>4, <2>1, EmptySeq
    <2>3. QED
      BY <1>1, <2>2
  <1>5. ASSUME NEW i \in 1..Len(toRuby') - 1
        PROVE  /\ toRuby'[i] = toRuby[i + 1] /\ toRuby'[i + 1] = toRuby[(i + 1) + 1]
               /\ i + 1 \in 1..Len(toRuby) - 1
    BY <1>1
  <1>6. NoInterleaving'
    BY <1>5
  <1>7. QED
    BY <1>3, <1>4, <1>6

\* The end of the stream that a write leaves behind.
LEMMA StreamWrite ==
  ASSUME TypeInv, StreamInv, LockDiscipline,
         NEW r \in Requests, WritePrefix(r) \/ WriteBody(r)
  PROVE  StreamInv'
  <1> DEFINE u == IF phase[r] = "prefix" THEN Prefix(r)
                  ELSE [of |-> r, pos |-> sent + 1]
  <1>1. /\ phase \in [Requests -> Phase] /\ sent \in Nat
        /\ toRuby \in Seq(Unit) /\ Len(toRuby) \in Nat
    BY DEF TypeInv, TypeOK, ScriptThreadsTypeOK, CommChannelTypeOK
  <1>2. /\ phase[r] \in {"prefix", "body"}
        /\ toRuby' = Append(toRuby, u)
        /\ phase' = [phase EXCEPT ![r] = phase'[r]]
        /\ phase'[r] \in {"body", "reading"}
        /\ phase[r] = "prefix" => sent' = sent
        /\ phase[r] = "body" => sent' = sent + 1
    BY <1>1 DEF WritePrefix, WriteBody, WriteUnit, Goto
  <1>3. u \in Unit /\ u.of = r
    BY <1>1 DEF Prefix, Unit
  <1>4. /\ Len(toRuby') = Len(toRuby) + 1
        /\ \A i \in 1..Len(toRuby) : toRuby'[i] = toRuby[i]
        /\ toRuby'[Len(toRuby')] = u
    BY <1>1, <1>2, <1>3, AppendFacts
  <1> HIDE DEF u
  <1>5. \A s \in Requests \ {r} : phase'[s] = phase[s] /\ phase[s] \notin Transaction
    BY <1>1, <1>2 DEF LockDiscipline, Transaction
  <1>6. ASSUME NEW s \in Requests,
               phase'[s] \in {"idle", "lost", "waiting", "prefix"},
               NEW i \in 1..Len(toRuby')
        PROVE  toRuby'[i].of # s
    <2>1. s # r /\ phase[s] \in {"idle", "lost", "waiting", "prefix"}
      BY <1>2, <1>5, <1>6
    <2>2. i \in 1..Len(toRuby) \/ i = Len(toRuby')
      BY <1>1, <1>4
    <2>3. QED
      BY <1>3, <1>4, <2>1, <2>2 DEF StreamInv
  <1>7. \A s \in Requests : phase'[s] # "prefix"
    BY <1>2, <1>5 DEF Transaction
  <1>8. phase[r] = "prefix" => u = [of |-> r, pos |-> sent']
    BY <1>2 DEF u, Prefix, StreamInv
  <1>9. phase[r] = "body" => u = [of |-> r, pos |-> sent']
    BY <1>2 DEF u
  <1>10. \A s \in Requests : phase'[s] = "body" =>
           toRuby'[Len(toRuby')] = [of |-> s, pos |-> sent']
    BY <1>2, <1>4, <1>5, <1>8, <1>9 DEF Transaction
  <1>11. ASSUME toRuby # <<>>
         PROVE  \/ toRuby[Len(toRuby)].of = u.of /\ u.pos = toRuby[Len(toRuby)].pos + 1
                \/ toRuby[Len(toRuby)].of # u.of /\ u.pos = 0
    <2>1. Len(toRuby) \in 1..Len(toRuby)
      BY <1>1, <1>11, EmptySeq
    <2>2. CASE phase[r] = "prefix"
      BY <1>3, <2>1, <2>2 DEF u, Prefix, StreamInv
    <2>3. CASE phase[r] = "body"
      <3>1. toRuby[Len(toRuby)] = [of |-> r, pos |-> sent]
        BY <1>11, <2>3 DEF StreamInv
      <3>2. u = [of |-> r, pos |-> sent + 1]
        BY <2>3 DEF u
      <3>3. QED
        BY <3>1, <3>2
    <2>4. QED
      BY <1>2, <2>2, <2>3
  <1>12. NoInterleaving'
    <2> SUFFICES ASSUME NEW i \in 1..Len(toRuby') - 1
                 PROVE  \/ /\ toRuby'[i].of = toRuby'[i + 1].of
                           /\ toRuby'[i + 1].pos = toRuby'[i].pos + 1
                        \/ /\ toRuby'[i].of # toRuby'[i + 1].of
                           /\ toRuby'[i + 1].pos = 0
      BY DEF NoInterleaving
    <2>1. CASE i + 1 \in 1..Len(toRuby)
      <3>1. /\ i \in 1..Len(toRuby) - 1
            /\ toRuby'[i] = toRuby[i] /\ toRuby'[i + 1] = toRuby[i + 1]
        BY <1>1, <1>4, <2>1
      <3>2. QED
        BY <3>1 DEF StreamInv, NoInterleaving
    <2>2. CASE i = Len(toRuby)
      <3>1. toRuby # <<>> /\ toRuby'[i] = toRuby[i] /\ toRuby'[i + 1] = u
        BY <1>1, <1>4, <2>2
      <3>2. QED
        BY <1>11, <2>2, <3>1
    <2>3. QED
      BY <1>1, <1>4, <2>1, <2>2
  <1>13. QED
    BY <1>6, <1>7, <1>10, <1>12 DEF StreamInv

LEMMA StreamStep ==
  TypeInv /\ LockDiscipline /\ StreamInv /\ [Next]_vars => StreamInv'
  <1> SUFFICES ASSUME TypeInv, LockDiscipline, StreamInv, [Next]_vars
               PROVE  StreamInv'
    OBVIOUS
  <1>1. phase \in [Requests -> Phase] /\ lock \in SUBSET Requests
    BY DEF TypeInv, TypeOK, ScriptThreadsTypeOK
  <1>2. CASE UNCHANGED <<toRuby, phase, sent>>
    BY <1>2 DEF StreamInv, NoInterleaving
  <1>3. CASE Ruby
    <2>1. CASE toRuby # <<>> /\ toRuby' = Tail(toRuby)
      BY <1>3, <2>1, StreamTake DEF Ruby, threadVars
    <2>2. CASE UNCHANGED toRuby
      BY <1>2, <1>3, <2>2 DEF Ruby, threadVars
    <2>3. QED
      BY <1>3, <2>1, <2>2
         DEF Ruby, RubyStep, Loop, channelVars, Boot, InstallFails, GetsPiece,
             GetsBlank, GetsRaises, GetsInvalid, GetsLength, TakeLine, ReadUnit,
             Announce, AnnounceRaises, EvalReturns, EvalRaises, EvalExits,
             EvalHangs, Evaluation, AnswerSuccess, Confirm, AnswerFailure,
             FailureRaises
  <1>4. ASSUME NEW r \in Requests, Client(r) \/ Thread(r) \/ Signal(r)
        PROVE  StreamInv'
    <2> USE <1>1 DEF Goto
    <2>1. CASE WritePrefix(r) \/ WriteBody(r)
      BY <2>1, StreamWrite
    <2>2. CASE Lock(r)
      <3>1. /\ UNCHANGED toRuby /\ sent' = 0
            /\ phase[r] = "waiting" /\ phase' = [phase EXCEPT ![r] = "prefix"]
        BY <2>2 DEF Lock, channelVars
      <3>2. \A s \in Requests : phase[s] \notin Transaction
        BY <2>2 DEF Lock, LockDiscipline
      <3>3. QED
        BY <3>1, <3>2 DEF StreamInv, NoInterleaving, Transaction
    <2>3. CASE Enqueue(r) \/ EnqueueLoses(r)
      BY <2>3 DEF Enqueue, EnqueueLoses, StreamInv, NoInterleaving, channelVars
    <2>4. CASE UNCHANGED <<toRuby, sent>> /\ phase[r] \in Transaction
                 /\ \E p \in {"reading", "unlocking", "completing"} : Goto(r, p)
      BY <2>4 DEF StreamInv, NoInterleaving
    <2>5. CASE BrokenPipe(r)
      BY <1>2, <2>5 DEF BrokenPipe, channelVars
    <2>6. CASE ShortWrite(r) \/ ReadAnswer(r) \/ ReadFails(r) \/ Unlock(r)
      BY <2>4, <2>6 DEF ShortWrite, ReadAnswer, ReadFails, Unlock, channelVars,
                        Transaction
    <2>7. CASE InterruptedWrite(r) \/ InterruptedRead(r)
      BY <2>4, <2>7 DEF InterruptedWrite, InterruptedRead, channelVars, Transaction
    <2>8. CASE Complete(r)
      BY <2>8 DEF Complete, channelVars, StreamInv, NoInterleaving
    <2>9. QED
      BY <1>4, <2>1, <2>2, <2>3, <2>5, <2>6, <2>7, <2>8
         DEF Client, Thread, Signal, ClientStep, ThreadStep, Interrupt
  <1>5. CASE Kill
    BY <1>2, <1>5 DEF Kill, EvalKills, Evaluation
  <1>6. QED
    BY <1>2, <1>3, <1>4, <1>5 DEF Next, Rest, vars, channelVars, threadVars

LEMMA StreamInvariant == Spec => []StreamInv
BY StreamInit, StreamStep, TypeInvariant, TransactionsExclude, PTL DEF Spec

\* The bytes of two scripts are never mixed on the socket, whatever calls are
\* interrupted, however long the scripts are and however small its buffers.
THEOREM ScriptsNotMixed == Spec => []NoInterleaving
BY StreamInvariant, PTL DEF StreamInv

-----------------------------------------------------------------------------
(***************************************************************************)
(* No exit code comes before the turn of the request it is about.          *)
(***************************************************************************)

LEMMA GrantInit == Init => GrantInv
BY DEF Init, CommChannelInit, FifoInterpreterInit, ScriptThreadsInit, GrantInv,
       Working, NeverEarly

\* A step of the VM thread answers for, or turns to, requests already granted.
LEMMA GrantRuby == TypeInv /\ GrantInv /\ (Ruby \/ Kill) => GrantInv'
  <1> SUFFICES ASSUME TypeInv, GrantInv, Ruby \/ Kill PROVE GrantInv'
    OBVIOUS
  <1>1. UNCHANGED <<granted, lock, result>>
    BY DEF Ruby, Kill, threadVars
  <1>2. toRuby \in Seq(Unit) /\ toC \in Seq(Answer)
    BY DEF TypeInv, TypeOK, CommChannelTypeOK
  <1>3. \A r : Granted(r) => Granted(r)'
    BY <1>1 DEF Granted
  <1>4. NeverEarly' /\ \A r \in lock' : granted' # <<>> /\ granted'[Len(granted')] = r
    BY <1>1 DEF GrantInv, NeverEarly
  <1>5. ASSUME toRuby # <<>>
        PROVE  Granted(Head(toRuby).of)
    <2>1. Head(toRuby) = toRuby[1] /\ Len(toRuby) \in Nat \ {0}
      BY <1>2, <1>5, TailFacts
    <2>2. QED
      BY <2>1 DEF GrantInv
  <1>6. ASSUME toRuby # <<>>, toRuby' = Tail(toRuby)
        PROVE  \A i \in 1..Len(toRuby') : Granted(toRuby'[i].of)
    <2>1. /\ Len(toRuby') = Len(toRuby) - 1 /\ Len(toRuby) \in Nat \ {0}
          /\ \A i \in 1..Len(toRuby') : toRuby'[i] = toRuby[i + 1]
      BY <1>2, <1>6, TailFacts
    <2>2. \A i \in 1..Len(toRuby') : i + 1 \in 1..Len(toRuby)
      BY <2>1
    <2>3. QED
      BY <2>1, <2>2 DEF GrantInv
  <1>7. ASSUME NEW c \in {0, 1}, rb \in Working, WriteAnswer(c, turn)
        PROVE  \A i \in 1..Len(toC') : Granted(toC'[i].of)
    <2> DEFINE a == [code |-> c, of |-> turn]
    <2>1. a \in Answer /\ a.of = turn /\ toC' = Append(toC, a)
      BY <1>7 DEF Answer, WriteAnswer, TypeInv
    <2> HIDE DEF a
    <2>2. /\ Len(toC') = Len(toC) + 1 /\ Len(toC) \in Nat
          /\ \A i \in 1..Len(toC) : toC'[i] = toC[i]
          /\ toC'[Len(toC) + 1] = a
      BY <1>2, <2>1, AppendFacts
    <2>3. \A i \in 1..Len(toC') : i \in 1..Len(toC) \/ i = Len(toC) + 1
      BY <2>2
    <2>4. QED
      BY <1>7, <2>1, <2>2, <2>3 DEF GrantInv
  <1>8. CASE /\ UNCHANGED <<toRuby, toC, turn>>
             /\ rb' \in Working => rb \in Working
    BY <1>3, <1>4, <1>8 DEF GrantInv
  <1>9. CASE /\ toRuby # <<>> /\ toRuby' = Tail(toRuby) /\ UNCHANGED toC
             /\ \/ rb' \in Working => rb \in Working /\ turn' = turn
                \/ turn' = Head(toRuby).of
    BY <1>3, <1>4, <1>5, <1>6, <1>9 DEF GrantInv
  <1>10. CASE /\ rb \in Working /\ UNCHANGED <<toRuby, turn>>
              /\ \E c \in {0, 1} : WriteAnswer(c, turn)
    BY <1>3, <1>4, <1>7, <1>10 DEF GrantInv
  <1>11. CASE \/ Boot \/ InstallFails \/ Announce \/ AnnounceRaises \/ Confirm
              \/ FailureRaises
    BY <1>8, <1>11 DEF Boot, InstallFails, Announce, AnnounceRaises, Confirm,
                       FailureRaises, EndOfVM, Working, channelVars
  <1>12. CASE EvalReturns \/ EvalRaises \/ EvalExits \/ EvalKills \/ EvalHangs
    BY <1>8, <1>12 DEF EvalReturns, EvalRaises, EvalExits, EvalKills, EvalHangs,
                       EndOfVM, Evaluation, Working
  <1>13. CASE \/ GetsPiece \/ GetsBlank \/ GetsRaises \/ GetsInvalid \/ GetsLength
              \/ ReadUnit
    BY <1>9, <1>13 DEF GetsPiece, GetsBlank, GetsRaises, GetsInvalid, GetsLength,
                       ReadUnit, TakeLine, EndOfVM, Working
  <1>14. CASE AnswerSuccess \/ AnswerFailure
    BY <1>10, <1>14 DEF AnswerSuccess, AnswerFailure, Working
  <1>15. QED
    BY <1>11, <1>12, <1>13, <1>14 DEF Ruby, Kill, RubyStep, Loop

LEMMA GrantThread ==
  ASSUME TypeInv, LockDiscipline, GrantInv, NEW r \in Requests,
         Client(r) \/ Thread(r) \/ Signal(r)
  PROVE  GrantInv'
  <1>1. /\ toRuby \in Seq(Unit) /\ toC \in Seq(Answer)
        /\ granted \in Seq(Requests) /\ Len(granted) \in Nat
        /\ result \in [Requests -> SUBSET Answer] /\ lock \in SUBSET Requests
    BY DEF TypeInv, TypeOK, CommChannelTypeOK, ScriptThreadsTypeOK
  <1>2. UNCHANGED <<rb, turn>>
    BY DEF Client, Thread, Signal, rubyVars
  <1>3. ASSUME UNCHANGED granted
        PROVE  \A s : Granted(s) => Granted(s)'
    BY <1>3 DEF Granted
  <1>4. ASSUME phase[r] \in Transaction
        PROVE  /\ r \in lock /\ Len(granted) \in 1..Len(granted)
               /\ granted[Len(granted)] = r /\ Granted(r)
    <2>1. r \in lock /\ granted # <<>> /\ granted[Len(granted)] = r
      BY <1>4 DEF LockDiscipline, GrantInv
    <2>2. Len(granted) \in 1..Len(granted)
      BY <1>1, <2>1, EmptySeq
    <2>3. QED
      BY <2>1, <2>2 DEF Granted
  <1>5. CASE UNCHANGED <<toRuby, toC, granted, lock, result>>
    BY <1>2, <1>3, <1>5 DEF GrantInv, NeverEarly
  <1>6. ASSUME NEW a \in Answer, Granted(a.of), phase[r] \in Transaction,
               result' = [result EXCEPT ![r] = {a}], UNCHANGED granted
        PROVE  NeverEarly'
    <2>1. \E i, j \in 1..Len(granted) : granted[i] = a.of /\ granted[j] = r /\ i <= j
      <3>1. PICK i \in 1..Len(granted) : granted[i] = a.of
        BY <1>6 DEF Granted
      <3>2. i <= Len(granted)
        BY <1>1
      <3>3. QED
        BY <1>4, <1>6, <3>1, <3>2
    <2>2. \A s \in Requests \ {r} : result'[s] = result[s]
      BY <1>1, <1>6
    <2>3. result'[r] = {a}
      BY <1>1, <1>6
    <2>4. QED
      BY <1>6, <2>1, <2>2, <2>3 DEF GrantInv, NeverEarly
  <1>7. CASE Lock(r)
    <2>1. /\ granted' = Append(granted, r) /\ lock' = {r}
          /\ UNCHANGED <<toRuby, toC, result>>
      BY <1>7 DEF Lock, channelVars
    <2>2. /\ Len(granted') = Len(granted) + 1 /\ granted' # <<>>
          /\ \A i \in 1..Len(granted) : granted'[i] = granted[i]
          /\ granted'[Len(granted')] = r
      BY <1>1, <2>1, AppendProperties
    <2>3. \A i \in 1..Len(granted) : i \in 1..Len(granted')
      BY <1>1, <2>2
    <2>4. \A s : Granted(s) => Granted(s)'
      BY <2>2, <2>3 DEF Granted
    <2>5. NeverEarly'
      BY <2>1, <2>2, <2>3 DEF GrantInv, NeverEarly
    <2>6. QED
      BY <1>2, <2>1, <2>2, <2>4, <2>5 DEF GrantInv
  <1>8. CASE WritePrefix(r) \/ WriteBody(r)
    <2>1. PICK u \in Unit : u.of = r /\ toRuby' = Append(toRuby, u)
      <3>1. CASE WritePrefix(r)
        BY <3>1 DEF WritePrefix, WriteUnit, Prefix, Unit
      <3>2. CASE WriteBody(r)
        <4>1. [of |-> r, pos |-> sent + 1] \in Unit
          BY DEF Unit, TypeInv, TypeOK, ScriptThreadsTypeOK
        <4>2. QED
          BY <3>2, <4>1 DEF WriteBody, WriteUnit
      <3>3. QED
        BY <1>8, <3>1, <3>2
    <2>2. /\ Len(toRuby') = Len(toRuby) + 1 /\ Len(toRuby) \in Nat
          /\ \A i \in 1..Len(toRuby) : toRuby'[i] = toRuby[i]
          /\ toRuby'[Len(toRuby) + 1] = u
      BY <1>1, <2>1, AppendFacts
    <2>3. \A i \in 1..Len(toRuby') : i \in 1..Len(toRuby) \/ i = Len(toRuby) + 1
      BY <2>2
    <2>4. phase[r] \in Transaction /\ UNCHANGED <<toC, granted, lock, result>>
      BY <1>8 DEF WritePrefix, WriteBody, Transaction
    <2>5. \A i \in 1..Len(toRuby') : Granted(toRuby'[i].of)
      BY <1>4, <2>1, <2>2, <2>3, <2>4 DEF GrantInv
    <2>6. QED
      BY <1>2, <1>3, <2>4, <2>5 DEF GrantInv, NeverEarly
  <1>9. CASE ReadAnswer(r)
    <2>1. /\ toC # <<>> /\ toC' = Tail(toC) /\ phase[r] \in Transaction
          /\ result' = [result EXCEPT ![r] = {Head(toC)}]
          /\ UNCHANGED <<toRuby, granted, lock>>
      BY <1>9 DEF ReadAnswer, Transaction
    <2>2. /\ Head(toC) \in Answer /\ Head(toC) = toC[1]
          /\ Len(toC) \in Nat \ {0} /\ Len(toC') = Len(toC) - 1
          /\ \A i \in 1..Len(toC') : toC'[i] = toC[i + 1]
      BY <1>1, <2>1, TailFacts
    <2>3. \A i \in 1..Len(toC') : i + 1 \in 1..Len(toC)
      BY <2>2
    <2>4. \A i \in 1..Len(toC') : Granted(toC'[i].of)
      BY <2>2, <2>3 DEF GrantInv
    <2>5. Granted(Head(toC).of)
      BY <2>2 DEF GrantInv
    <2>6. NeverEarly'
      BY <1>6, <2>1, <2>2, <2>5
    <2>7. QED
      BY <1>2, <1>3, <2>1, <2>4, <2>6 DEF GrantInv
  <1>10. CASE ReadFails(r) \/ InterruptedRead(r)
    <2>1. /\ phase[r] \in Transaction
          /\ result' = [result EXCEPT ![r] = {Failure(r)}]
          /\ UNCHANGED <<toRuby, toC, granted, lock>>
      BY <1>10 DEF ReadFails, InterruptedRead, Transaction, channelVars
    <2>2. Failure(r) \in Answer /\ Failure(r).of = r
      BY DEF Failure, Answer
    <2>3. NeverEarly'
      BY <1>4, <1>6, <2>1, <2>2
    <2>4. QED
      BY <1>2, <1>3, <2>1, <2>3 DEF GrantInv
  <1>11. CASE Unlock(r)
    <2>1. UNCHANGED <<toRuby, toC, granted, result>> /\ lock' \subseteq lock
      BY <1>11 DEF Unlock, channelVars
    <2>2. QED
      BY <1>2, <1>3, <2>1 DEF GrantInv, NeverEarly
  <1>12. CASE \/ Enqueue(r) \/ EnqueueLoses(r) \/ BrokenPipe(r) \/ ShortWrite(r)
              \/ Complete(r) \/ InterruptedWrite(r)
    BY <1>5, <1>12 DEF Enqueue, EnqueueLoses, BrokenPipe, ShortWrite, Complete,
                       InterruptedWrite, channelVars
  <1>13. QED
    BY <1>7, <1>8, <1>9, <1>10, <1>11, <1>12
       DEF Client, Thread, Signal, ClientStep, ThreadStep, Interrupt

LEMMA GrantStep ==
  TypeInv /\ LockDiscipline /\ GrantInv /\ [Next]_vars => GrantInv'
  <1> SUFFICES ASSUME TypeInv, LockDiscipline, GrantInv, [Next]_vars
               PROVE  GrantInv'
    OBVIOUS
  <1>1. CASE UNCHANGED vars
    BY <1>1 DEF vars, channelVars, rubyVars, threadVars, GrantInv, Granted, NeverEarly
  <1>2. QED
    BY <1>1, GrantRuby, GrantThread DEF Next, Rest

\* An exit code may be late, after interrupted calls or oversize scripts, but
\* it is never early: it is about the request itself or one served before.
THEOREM ExitCodesNeverEarly == Spec => []NeverEarly
  <1>1. Spec => []GrantInv
    BY GrantInit, GrantStep, TypeInvariant, TransactionsExclude, PTL DEF Spec
  <1>2. QED
    BY <1>1, PTL DEF GrantInv
=============================================================================
